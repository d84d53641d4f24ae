--------------------------- MODULE MCMemoryRuntime ---------------------------
(* Two callers: an exchange in the background, a search and a delete of    *)
(* either, an add of one.                                                  *)
EXTENDS MemoryRuntime

CONSTANTS anna, bert, record, search, delete, add, f1, f2

MCKind == [o \in Ops |-> CASE o = record -> "record" [] o = search -> "search"
                         [] o = delete -> "delete" [] OTHER      -> "add"]

MCCaller == [o \in Ops |-> IF o = record THEN anna ELSE bert]

MCTarget == [o \in Ops |-> f1]
=============================================================================
