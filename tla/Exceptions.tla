----------------------------- MODULE Exceptions -----------------------------
(***************************************************************************)
(* Which handler takes which exception: the classes of                     *)
(* src/include/exception.hpp, none of which is a std::exception, and those *)
(* of the standard library that the program throws.                        *)
(***************************************************************************)
Base == [out_of_range_exception |-> "basic_exception",
         IO_exception |-> "basic_exception",
         socket_exception |-> "IO_exception",
         file_exception |-> "IO_exception",
         peer_exception |-> "socket_exception"]

StdBase == [logic_error |-> "exception",
            invalid_argument |-> "logic_error",
            out_of_range |-> "logic_error"]

Classes == DOMAIN Base \cup DOMAIN StdBase \cup {"basic_exception", "exception"}

Ancestry[e \in Classes] ==
    {e} \cup (IF e \in DOMAIN Base THEN Ancestry[Base[e]]
              ELSE IF e \in DOMAIN StdBase THEN Ancestry[StdBase[e]] ELSE {})

\* catch (const handler&).
Catches(handler, e) == handler \in Ancestry[e]
==============================================================================
