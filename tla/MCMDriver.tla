----------------------------- MODULE MCMDriver -----------------------------
(***************************************************************************)
(* Instances of MDriver for TLC.                                           *)
(***************************************************************************)
EXTENDS MDriver

CONSTANTS Sizes,    \* the sizes the requests of a trace ask for
          MaxOps    \* bound on the length of a trace

Requests == [type : {"ALLOC", "REALLOC"}, index : Ids, size : Sizes]
              \cup [type : {"FREE"}, index : Ids, size : {0}]

\* All traces of a given length; a shorter one is the beginning of one of them.
AllTraces == {t \in [1 .. MaxOps -> Requests] : WellFormed(t)}
=============================================================================
