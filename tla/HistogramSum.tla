---------------------------- MODULE HistogramSum ----------------------------
(***************************************************************************)
(* What a merge promises: the bytes of the histogram of all the inputs'    *)
(* values if they are whole and of one configuration, and otherwise an     *)
(* error and no bytes.  A single input is returned unread.                 *)
(***************************************************************************)
EXTENDS TrieWire

VARIABLES
  tries,     \* the histograms to merge, as the values they hold
  files,     \* the same as they reached the merge
  configs,   \* their configurations
  status,    \* "pending" | "done" | "refused"
  result     \* the bytes returned

given == <<tries, files, configs>>

Single     == Len(files) = 1
Compatible == \A k \in DOMAIN files : configs[k] = configs[1]
Whole      == \A k \in DOMAIN files : files[k] = Wire(tries[k])

Init == status = "pending" /\ result = <<>>

PassOn ==
  /\ status = "pending" /\ status' = "done"
  /\ Single
  /\ result' = files[1]
  /\ UNCHANGED given

Accept ==
  /\ status = "pending" /\ status' = "done"
  /\ Compatible /\ Whole
  /\ result' = Wire(Union(tries))
  /\ UNCHANGED given

Refuse ==
  /\ status = "pending" /\ status' = "refused"
  /\ ~ Single /\ ~ (Compatible /\ Whole)
  /\ UNCHANGED <<given, result>>

Next == PassOn \/ Accept \/ Refuse

Spec == Init /\ [][Next]_<<given, status, result>>

=============================================================================
