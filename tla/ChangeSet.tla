----------------------------- MODULE ChangeSet -----------------------------
(***************************************************************************)
(* What the write gate and the reviewers are promised about the change set *)
(* of a plan: files change one at a time, a file that changes is in the    *)
(* change set from that moment on, only paths the plan names change, and a *)
(* plan that is refused has changed no file.  An error of the file system  *)
(* breaks off with no change set at all, in the middle of one file at most.*)
(***************************************************************************)
CONSTANT Paths

VARIABLES
  content,  \* path -> what the file holds
  planned,  \* the paths the plan names
  changed,  \* the paths of the change set
  phase     \* open | admitted | refused | broken

changeSetVars == <<content, planned, changed, phase>>

Init == changed = {} /\ phase = "open"

\* The file at p may change, and whether or not it does, p may be recorded.
Edit(p) ==
  /\ phase = "open" /\ p \in planned
  /\ \A q \in Paths \ {p} : content'[q] = content[q]
  /\ content'[p] # content[p] => p \in changed'
  /\ changed' \in {changed, changed \cup {p}}
  /\ UNCHANGED <<planned, phase>>

Admit  == phase = "open" /\ phase' = "admitted" /\ UNCHANGED <<content, planned, changed>>
Refuse == /\ phase = "open" /\ changed = {}
          /\ phase' = "refused" /\ UNCHANGED <<content, planned, changed>>

\* What a failing write has done to its file is in no change set.
Break ==
  /\ phase = "open" /\ phase' = "broken" /\ changed' = {}
  /\ \/ UNCHANGED content
     \/ \E p \in planned : \A q \in Paths \ {p} : content'[q] = content[q]
  /\ UNCHANGED planned

Next == (\E p \in Paths : Edit(p)) \/ Admit \/ Refuse \/ Break

Spec == Init /\ [][Next]_changeSetVars
=============================================================================
