------------------------------ MODULE Sessions ------------------------------
(***************************************************************************)
(* What the proxy keeps in memory between the requests of a client: the    *)
(* continuations of the OpenAI endpoints (Conversations) and the replays   *)
(* of Claude sessions (ClaudeMessages).  They share the time, the          *)
(* housekeeping and the process (internal/server/app.go).  An answer to a  *)
(* Claude client leaves a continuation as well, which only a client of the *)
(* other endpoints could use: a behaviour has clients of one kind.         *)
(***************************************************************************)
EXTENDS Conversations, ClaudeMessages

CONSTANTS
    Clients,        \* the kinds of clients there are
    MaxRestarts     \* bound: how often the process ends

ASSUME SessionsAssumption ==
    Clients \subseteq {"openai", "claude"} /\ MaxRestarts \in Nat

VARIABLES
    client,      \* whose requests come
    restarts

Init ==
    /\ now = 0
    /\ ConversationsInit
    /\ ClaudeInit
    /\ client \in Clients
    /\ restarts = 0

\* housekeeping, every 30 s.
Housekeeping ==
    /\ DropExpired
    /\ SweepReplays
    /\ UNCHANGED <<now, requests, socket, asked, client, restarts>>

Restart ==
    /\ restarts < MaxRestarts
    /\ restarts' = restarts + 1
    /\ ForgetContinuations
    /\ ForgetReplays
    /\ UNCHANGED <<now, client>>

Next ==
    \/ client = "openai" /\ ConversationStep /\ UNCHANGED <<claude, client, restarts>>
    \/ client = "claude" /\ ClaudeStep /\ UNCHANGED <<talk, client, restarts>>
    \/ Tick /\ UNCHANGED <<talk, claude, client, restarts>>
    \/ Housekeeping
    \/ Restart

Spec == Init /\ [][Next]_<<now, talk, claude, client, restarts>>
=============================================================================
