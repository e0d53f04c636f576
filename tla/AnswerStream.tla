----------------------------- MODULE AnswerStream ----------------------------
(***************************************************************************)
(* What a client may rely on while it reads a streamed answer, in every    *)
(* dialect: a call, a search or a thought is announced once, before        *)
(* anything is said of it, and keeps its name; what was said of a block is *)
(* never taken back; a closed block does not change; nothing follows the   *)
(* end.                                                                    *)
(***************************************************************************)
EXTENDS Naturals

VARIABLES
  blocks,            \* what the client assembled: a function from the blocks' keys
  phase              \* "streaming", "ended", "failed"

Announced(block) == block.opened = 1 \/ block.kind \in {"text", "image"}

\* A block stays as it is or, unless it was closed, grows.
Extends(before, after) ==
  \/ after = before
  \/ /\ ~before.closed /\ after.size >= before.size
     /\ after.kind = before.kind /\ after.id = before.id /\ after.opened = before.opened

Init == DOMAIN blocks = {} /\ phase = "streaming"

Next ==
  /\ phase = "streaming"
  /\ phase' \in {"streaming", "ended", "failed"}
  /\ DOMAIN blocks \subseteq DOMAIN blocks'
  /\ \A key \in DOMAIN blocks' :
       IF key \in DOMAIN blocks THEN Extends(blocks[key], blocks'[key])
       ELSE Announced(blocks'[key])

Spec == Init /\ [][Next]_<<blocks, phase>>
==============================================================================
