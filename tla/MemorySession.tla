--------------------------- MODULE MemorySession ---------------------------
(***************************************************************************)
(* What one open handle of the device promises its holder: the table of    *)
(* physical memory runs is fixed when the handle is opened, everything     *)
(* answered through the handle is about that table, and the session is     *)
(* ended once, after which nothing about memory is answered any more.      *)
(***************************************************************************)
EXTENDS Naturals, Sequences

CONSTANTS
  Tables,    \* the run tables the machine may have
  Nothing    \* no answer

VARIABLES
  phase,  \* "closed", "open" or "over"
  table,  \* the table of the session
  reply   \* the last answer

sessionVars == <<phase, table, reply>>

Inside(t, from, length) ==
  \E i \in 1..Len(t) :
    t[i].base <= from /\ from + length <= t[i].base + t[i].length

Init == phase = "closed" /\ table = <<>> /\ reply = Nothing

Open ==
  /\ phase = "closed" /\ phase' = "open"
  /\ table' \in Tables /\ reply' = Nothing

AnswerTable ==
  /\ phase = "open"
  /\ reply' = [op |-> "ranges", table |-> table]
  /\ UNCHANGED <<phase, table>>

AnswerSummary ==
  /\ phase = "open"
  /\ reply' = [op |-> "query", count |-> Len(table)]
  /\ UNCHANGED <<phase, table>>

AnswerRead ==
  /\ phase = "open"
  /\ reply' # Nothing /\ reply'.op = "read"
  /\ reply' = [op |-> "read", from |-> reply'.from, length |-> reply'.length]
  /\ reply'.length > 0 /\ Inside(table, reply'.from, reply'.length)
  /\ UNCHANGED <<phase, table>>

AnswerEnd ==
  /\ phase = "open" /\ phase' = "over"
  /\ \E t \in Tables \cup {<<>>} :
       reply' = [op |-> "end", changed |-> table # t, count |-> Len(t)]
  /\ UNCHANGED table

(* Answers that tell nothing about memory. *)
AnswerOther ==
  /\ reply' \in {[op |-> "hints"], [op |-> "refused"]}
  /\ UNCHANGED <<phase, table>>

Revoke == phase = "open" /\ phase' = "over" /\ UNCHANGED <<table, reply>>

Close == phase = "over" /\ phase' = "closed" /\ UNCHANGED <<table, reply>>

Next ==
  \/ Open \/ AnswerTable \/ AnswerSummary \/ AnswerRead \/ AnswerEnd
  \/ AnswerOther \/ Revoke \/ Close

Spec == Init /\ [][Next]_sessionVars
=============================================================================
