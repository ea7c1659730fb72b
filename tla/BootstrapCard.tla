---------------------------- MODULE BootstrapCard ----------------------------
(***************************************************************************)
(* The card of the workspace page that shows the bootstrap command of the  *)
(* cluster agent (agent-bootstrap-command.tsx).  It is drawn from the      *)
(* record the page fetched last; a button has the API make a new token,    *)
(* and the card asks for the record again when that is answered with       *)
(* success.  The API side is reduced to what the card can tell: the token  *)
(* in force, whether it has expired, and the agent's status (ClusterAgent  *)
(* has all of it).                                                         *)
(***************************************************************************)
EXTENDS Naturals

CONSTANT MaxTokens   \* bound on the tokens made

ASSUME MaxTokensAssumption == MaxTokens \in Nat \ {0}

VARIABLES
    bcAgent,      \* the agent in the database: token, lapsed, active
    bcRecord,     \* the record the page holds, and whether the card was
                  \* drawn after the record's token had expired
    bcFetch,      \* the fetch under way: none, asked, or read at the API
    bcRead,       \* the record it read
    bcPost,       \* the POST under way: none, sent, or done at the API
    bcForeign     \* history: since the page's record was read, another client
                  \* made a token, or an answer to this one was lost

bcVars == <<bcAgent, bcRecord, bcFetch, bcRead, bcPost, bcForeign>>

Agents == [token : 1..MaxTokens, lapsed : BOOLEAN, active : BOOLEAN]
FirstToken == [token |-> 1, lapsed |-> FALSE, active |-> FALSE]

(* What the card offers. *)
ShowsCommand == ~ bcRecord.active /\ ~ bcRecord.lapsed
RegenerateOffered == bcPost = "none" /\ (bcRecord.active \/ bcRecord.lapsed)

(* What comparing the record's expiry with the clock may say.  A token that *)
(* was replaced still has, in the record, the expiry it was made with,     *)
(* which is before that of the one in force.                               *)
ExpiredNow(record) ==
    IF record.token = bcAgent.token THEN {bcAgent.lapsed}
    ELSE IF bcAgent.lapsed THEN {TRUE} ELSE {record.lapsed, TRUE}

(* generateBootstrapToken: a new token, the agent to register again. *)
NewToken(agent) == [token |-> agent.token + 1, lapsed |-> FALSE, active |-> FALSE]

BCInit ==
    /\ bcAgent = FirstToken
    /\ bcRecord = FirstToken
    /\ bcFetch = "none"
    /\ bcRead = FirstToken
    /\ bcPost = "none"
    /\ bcForeign = FALSE

-----------------------------------------------------------------------------
(* The page *)

RegenerateToken ==
    /\ RegenerateOffered
    /\ bcPost' = "sent"
    /\ UNCHANGED <<bcAgent, bcRecord, bcFetch, bcRead, bcForeign>>

(* After the POST: success is followed by a refresh, which cancels the     *)
(* fetch under way; a failure by a message, and no more than that.  The    *)
(* button is free again in both cases.                                     *)
AfterPostKept(success) == bcFetch
AfterPost(success) == IF success THEN "asked" ELSE bcFetch

PostAnswered ==
    /\ bcPost = "done"
    /\ bcPost' = "none"
    /\ bcFetch' = AfterPost(TRUE)
    /\ UNCHANGED <<bcAgent, bcRecord, bcRead, bcForeign>>

(* The API refuses, or its answer is lost after the token was made. *)
PostFails ==
    /\ bcPost # "none"
    /\ bcPost' = "none"
    /\ bcFetch' = AfterPost(FALSE)
    /\ bcForeign' = (bcForeign \/ bcPost = "done")
    /\ UNCHANGED <<bcAgent, bcRecord, bcRead>>

(* The window comes to the front: the page fetches its record again. *)
Refocus ==
    /\ bcFetch = "none"
    /\ bcFetch' = "asked"
    /\ UNCHANGED <<bcAgent, bcRecord, bcRead, bcPost, bcForeign>>

FetchAnswered ==
    /\ bcFetch = "read"
    /\ bcFetch' = "none"
    /\ \E l \in ExpiredNow(bcRead) : bcRecord' = [bcRead EXCEPT !.lapsed = l]
    /\ UNCHANGED <<bcAgent, bcRead, bcPost, bcForeign>>

(* What the page holds stays on the screen. *)
FetchFails ==
    /\ bcFetch # "none"
    /\ bcFetch' = "none"
    /\ bcForeign' = TRUE
    /\ UNCHANGED <<bcAgent, bcRecord, bcRead, bcPost>>

(* The card is drawn again: its copy button, the button's label. *)
Redraw ==
    /\ \E l \in ExpiredNow(bcRecord) : bcRecord' = [bcRecord EXCEPT !.lapsed = l]
    /\ UNCHANGED <<bcAgent, bcFetch, bcRead, bcPost, bcForeign>>

-----------------------------------------------------------------------------
(* The API, the cluster and other users *)

GenerateForCard ==
    /\ bcPost = "sent" /\ bcAgent.token < MaxTokens
    /\ bcAgent' = NewToken(bcAgent)
    /\ bcPost' = "done"
    /\ UNCHANGED <<bcRecord, bcFetch, bcRead, bcForeign>>

GenerateForAnother ==
    /\ bcAgent.token < MaxTokens
    /\ bcAgent' = NewToken(bcAgent)
    /\ bcForeign' = TRUE
    /\ UNCHANGED <<bcRecord, bcFetch, bcRead, bcPost>>

(* getWorkspace reads.  What happened before is in the record now.         *)
FetchRead ==
    /\ bcFetch = "asked"
    /\ bcFetch' = "read"
    /\ bcRead' = bcAgent
    /\ bcForeign' = FALSE
    /\ UNCHANGED <<bcAgent, bcRecord, bcPost>>

AgentRegisters ==
    /\ ~ bcAgent.lapsed
    /\ bcAgent' = [bcAgent EXCEPT !.active = TRUE]
    /\ UNCHANGED <<bcRecord, bcFetch, bcRead, bcPost, bcForeign>>

TokenLapses ==
    /\ bcAgent' = [bcAgent EXCEPT !.lapsed = TRUE]
    /\ UNCHANGED <<bcRecord, bcFetch, bcRead, bcPost, bcForeign>>

BCNext ==
    \/ RegenerateToken \/ PostAnswered \/ PostFails
    \/ Refocus \/ FetchRead \/ FetchAnswered \/ FetchFails \/ Redraw
    \/ GenerateForCard \/ GenerateForAnother \/ AgentRegisters \/ TokenLapses

BCSpec == BCInit /\ [][BCNext]_bcVars

-----------------------------------------------------------------------------
(* The agent, the records and the requests are well formed.                *)
BCTypeOK ==
    /\ {bcAgent, bcRecord, bcRead} \subseteq Agents
    /\ bcFetch \in {"none", "asked", "read"}
    /\ bcPost \in {"none", "sent", "done"}
    /\ bcForeign \in BOOLEAN

(* A command that is shown for copying bears the token in force            *)
(* (agent-bootstrap-command.tsx:65), unless another client made a token,   *)
(* an answer was lost, or the card is still waiting for one: a new token   *)
(* made with the card's own button never leaves the old one standing.      *)
ShownTokenInForce ==
    ShowsCommand /\ bcFetch = "none" /\ bcPost = "none" /\ ~ bcForeign
        => bcRecord.token = bcAgent.token

-----------------------------------------------------------------------------
(* The inductive invariant: unless something foreign happened, the record  *)
(* that was read, or is shown with no fetch under way, has the token in    *)
(* force; but for the moment between the API's making of another for this  *)
(* card and its answer.                                                    *)
RecordFollows ==
    ~ bcForeign /\ bcPost # "done" =>
        /\ bcFetch = "read" => bcRead.token = bcAgent.token
        /\ bcFetch = "none" => bcRecord.token = bcAgent.token

BCInv == BCTypeOK /\ RecordFollows
=============================================================================
