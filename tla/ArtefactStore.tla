--------------------------- MODULE ArtefactStore ----------------------------
(* What pack promises of its output path, without files, entries or the     *)
(* steps of writing them: a reader finds a whole artefact or none. From the *)
(* moment pack opens the path there is none, until the call ends; whatever  *)
(* else happens, what is there stays. A call that fails may all the same    *)
(* have left its artefact, with its signature, without or with a part.      *)
EXTENDS Naturals, Sequences

CONSTANTS Artefacts,  \* what pack may be asked to write
          Part        \* a signature that was cut short

VARIABLES stored,     \* what a reader finds: <<>> or <<artefact>>
          last,       \* what the last call was to write: ditto
          status      \* how it ended, "none" before the first

vars == <<stored, last, status>>

Init == last = <<>> /\ status = "none"

Open ==
    /\ status # "open"
    /\ status' = "open"
    /\ last' \in Seq(Artefacts) /\ Len(last') = 1
    /\ stored' = <<>>

Commit ==
    /\ status = "open"
    /\ status' = "ok"
    /\ stored' = last
    /\ UNCHANGED last

Left(a) == {<<>>} \cup {<<[a EXCEPT !.signature = s]>> :
                            s \in {a.signature, <<>>, <<Part>>}}

Abort ==
    /\ status = "open"
    /\ status' = "failed"
    /\ stored' \in Left(last[1])
    /\ UNCHANGED last

Next == Open \/ Commit \/ Abort

Spec == Init /\ [][Next]_vars
=============================================================================
