----------------------------- MODULE MCServices -----------------------------
(***************************************************************************)
(* The services around the engine that TLC checks side by side: a behaviour*)
(* is one of the service that kind names, and the variables of the others  *)
(* stay as they were initially.                                            *)
(***************************************************************************)
EXTENDS Integers, SequencesExt, TLC

CONSTANTS
    Kinds,                     \* the services of this run
    n1, n2, n3, w,             \* names, of keys or branches, and a word
    c1, c2                     \* clients: agents or connections

VARIABLES
    kind,
    docs, key_to_doc, postings, df, doc_len, total_doc_len, active_docs, symbols,
    records, log, replayed,                                          \* Index
    lists,                                                           \* Planner: ranked lists
    live, state, snapshots, name, agentPhase, writes, base, own, shared,  \* Agents
    payloads, arecs, damaged,                                        \* AgentStore
    phase, issued, nonce, used, proof, asked, handled, sent          \* Daemon

indexVars  == << docs, key_to_doc, postings, df, doc_len, total_doc_len, active_docs, symbols,
                 records, log, replayed >>
agentVars  == << live, state, snapshots, name, agentPhase, writes, base, own, shared >>
storeVars  == << payloads, arecs, damaged >>
daemonVars == << phase, issued, nonce, used, proof, asked, handled, sent >>

-----------------------------------------------------------------------------
I == INSTANCE Index WITH Key <- {n1, n2}, Word <- {w}, MaxLog <- 4, live <- records

A == INSTANCE Agents WITH
        Key <- {w}, Name <- {n1, n2}, Handle <- {c1, c2}, MaxWrites <- 3, phase <- agentPhase

Msg == [step |-> "1", type |-> "msg", id |-> "x"]

Tool == [step |-> "2", type |-> "tool", id |-> "x"]

S == INSTANCE AgentStore WITH
        Session <- {<< "a" >>, << "a", "b" >>, << "a", ":", "1", ":", "msg" >>},
        Record <- {Msg, Tool}, Payload <- {<< >>, << Msg >>, << Msg, Tool >>}, MaxRecords <- 2

D == INSTANCE Daemon WITH
        Connection <- {c1, c2}, Stream <- {1, 2}, SEQ <- 3, MaxFrames <- 2

P == INSTANCE Planner

Lists == BoundedSeq(BoundedSeq({n1, n2, n3}, 3), 2)

-----------------------------------------------------------------------------
Init ==
    /\ kind \in Kinds
    /\ I!Init /\ A!Init /\ S!Init /\ D!Init
    /\ lists \in IF kind = "planner" THEN Lists ELSE {<< >>}

Next ==
    \/ kind = "index" /\ I!Next /\ UNCHANGED << kind, lists, agentVars, storeVars, daemonVars >>
    \/ kind = "agents" /\ A!Next /\ UNCHANGED << kind, lists, indexVars, storeVars, daemonVars >>
    \/ kind = "agent_store" /\ S!Next /\ UNCHANGED << kind, lists, indexVars, agentVars, daemonVars >>
    \/ kind = "daemon" /\ D!Next /\ UNCHANGED << kind, lists, indexVars, agentVars, storeVars >>

vars == << kind, lists, indexVars, agentVars, storeVars, daemonVars >>

Spec == Init /\ [][Next]_vars

(***************************************************************************)
(* Names and clients are only compared with each other.                    *)
(***************************************************************************)
Sym == Permutations({n1, n2}) \cup Permutations({c1, c2})

-----------------------------------------------------------------------------
(***************************************************************************)
(* CountersExact: the counters of the keyword index agree with its         *)
(* documents (Index!CountersExact).                                        *)
(***************************************************************************)
CountersExact == kind = "index" => I!CountersExact

(***************************************************************************)
(* SearchFollowsWrites: searches find what was written, and queries for a  *)
(* name the record of that name (Index!SearchFollowsWrites,                *)
(* Index!QueryFindsName).                                                  *)
(***************************************************************************)
SearchFollowsWrites == kind = "index" => I!SearchFollowsWrites /\ I!QueryFindsName

(***************************************************************************)
(* MergeFair: the merged list of an answer respects the lists it is made   *)
(* from, and an index is asked once if the query has something for it      *)
(* (Planner!MergeFair, Planner!PlanComplete).                              *)
(***************************************************************************)
MergeFair == kind = "planner" => P!MergeFair(lists) /\ P!PlanComplete

(***************************************************************************)
(* AgentReads: an agent reads its own writes on top of the state it started*)
(* from (Agents!AgentReads).                                               *)
(***************************************************************************)
AgentReads == kind = "agents" => A!AgentReads

(***************************************************************************)
(* CommitApplies: a commit changes main by what is in the agent's branch   *)
(* (Agents!CommitApplies).                                                 *)
(***************************************************************************)
CommitApplies == [][A!CommitStep]_vars

(***************************************************************************)
(* RecordsAgree: the record keys of a session are those of its payload     *)
(* (AgentStore!RecordsAgree).                                              *)
(***************************************************************************)
RecordsAgree == kind = "agent_store" => S!RecordsAgree

(***************************************************************************)
(* RepliesInOrder: replies are numbered and ordered as the requests, and   *)
(* only on connections whose own nonce was answered                        *)
(* (Daemon!RepliesInOrder, Daemon!AdmittedOnce).                           *)
(***************************************************************************)
RepliesInOrder == kind = "daemon" => D!RepliesInOrder /\ D!AdmittedOnce

(***************************************************************************)
(* TypeQueryComplete: a query by type finds all records of the type that a *)
(* session has (AgentStore!TypeQueryComplete).                             *)
(***************************************************************************)
TypeQueryComplete == S!TypeQueryComplete
=============================================================================
