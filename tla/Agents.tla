------------------------------- MODULE Agents -------------------------------
(***************************************************************************)
(* The Python classes (python.rs): DB, Client, Workspace and Agent, over   *)
(* one engine.  Every method holds the engine's lock from beginning to end *)
(* and is one action.  An agent works in a branch, which is a snapshot of  *)
(* the engine's persistent map under the agent's name; nothing keeps two   *)
(* agents, or a checkpoint, from using the same name.  Values are the      *)
(* numbers of the writes.  Modules Engine and Store model the engine.      *)
(***************************************************************************)
EXTENDS Integers

CONSTANTS
    Key,
    Name,       \* names of branches and snapshots
    Handle,     \* Agent objects
    MaxWrites   \* bound: writes and deletes, by agents or directly

VARIABLES
    live,       \* what Engine::get answers
    state,      \* the persistent map
    snapshots,  \* name -> map, or NoBranch
    name,       \* the name of each agent, Nobody before it has one
    phase,      \* "new", "active", or how the agent finished: finished is set
    writes,     \* number of the last write
    base,       \* the map when the agent was created
    own,        \* the agent's last write of each key
    shared      \* something else has changed the agent's branch

agentVars == << live, state, snapshots, name, phase, writes, base, own, shared >>

-----------------------------------------------------------------------------
None == 0

NoWrite == 0 - 1

NoBranch == << >>

Empty == [k \in Key |-> None]

NoWrites == [k \in Key |-> NoWrite]

Branch(h) == snapshots[name[h]]

(***************************************************************************)
(* shared marks the agents, but for those of by, whose branch is changed.  *)
(***************************************************************************)
Touch(n, by) ==
    shared' = [h \in Handle |-> shared[h] \/ (phase[h] # "new" /\ name[h] = n /\ h \notin by)]

Nobody == 0

AgentsKeep == UNCHANGED << name, phase, base, own >>

Fresh == writes < MaxWrites /\ writes' = writes + 1

-----------------------------------------------------------------------------
(***************************************************************************)
(* DB.put, load and index, Workspace.put and put_batch, ContextEngine.index*)
(* and ingest: writes of the engine, also from a branch's Workspace.       *)
(***************************************************************************)
put(k) ==
    /\ Fresh
    /\ live' = [live EXCEPT ![k] = writes'] /\ state' = [state EXCEPT ![k] = writes']
    /\ UNCHANGED << snapshots, shared >> /\ AgentsKeep

load ==
    /\ Fresh
    /\ live' = [k \in Key |-> writes'] /\ state' = [k \in Key |-> writes']
    /\ UNCHANGED << snapshots, shared >> /\ AgentsKeep

\* DB.delete, delete_range and Workspace.delete
delete(k) ==
    /\ Fresh
    /\ live' = [live EXCEPT ![k] = None] /\ state' = [state EXCEPT ![k] = None]
    /\ UNCHANGED << snapshots, shared >> /\ AgentsKeep

\* DB.snapshot, Workspace.snapshot and Agent.checkpoint: of the main state
snapshot(n) ==
    /\ snapshots' = [snapshots EXCEPT ![n] = state]
    /\ Touch(n, {})
    /\ UNCHANGED << live, state, writes >> /\ AgentsKeep

\* DB.restore and Workspace.rollback_to
restore(n) ==
    /\ snapshots[n] # NoBranch
    /\ state' = snapshots[n]
    /\ UNCHANGED << live, snapshots, shared, writes >> /\ AgentsKeep

\* Client.branch from another branch
branch(n, from) ==
    /\ snapshots[from] # NoBranch
    /\ snapshots' = [snapshots EXCEPT ![n] = snapshots[from]]
    /\ Touch(n, {})
    /\ UNCHANGED << live, state, writes >> /\ AgentsKeep

-----------------------------------------------------------------------------
\* DB.agent and Client.agent
agent(h, n) ==
    /\ phase[h] = "new"
    /\ snapshots' = [snapshots EXCEPT ![n] = state]
    /\ name' = [name EXCEPT ![h] = n] /\ phase' = [phase EXCEPT ![h] = "active"]
    /\ base' = [base EXCEPT ![h] = state]
    /\ Touch(n, {h})
    /\ UNCHANGED << live, state, writes, own >>

\* Faulty: writes to the engine.
agent_putMain(h, k) ==
    /\ phase[h] = "active" /\ Branch(h) # NoBranch
    /\ Fresh
    /\ live' = [live EXCEPT ![k] = writes'] /\ state' = [state EXCEPT ![k] = writes']
    /\ own' = [own EXCEPT ![h] = [@ EXCEPT ![k] = writes']]
    /\ UNCHANGED << snapshots, name, phase, base, shared >>

agent_put(h, k) ==
    /\ phase[h] = "active" /\ Branch(h) # NoBranch
    /\ Fresh
    /\ snapshots' = [snapshots EXCEPT ![name[h]] = [@ EXCEPT ![k] = writes']]
    /\ own' = [own EXCEPT ![h] = [@ EXCEPT ![k] = writes']]
    /\ Touch(name[h], {h})
    /\ UNCHANGED << live, state, name, phase, base >>

agent_load(h) ==
    /\ phase[h] = "active" /\ Branch(h) # NoBranch
    /\ Fresh
    /\ snapshots' = [snapshots EXCEPT ![name[h]] = [k \in Key |-> writes']]
    /\ own' = [own EXCEPT ![h] = [k \in Key |-> writes']]
    /\ Touch(name[h], {h})
    /\ UNCHANGED << live, state, name, phase, base >>

\* An agent that has finished may still delete, if there is a branch of its name.
agent_delete(h, k) ==
    /\ phase[h] # "new" /\ Branch(h) # NoBranch
    /\ Fresh
    /\ snapshots' = [snapshots EXCEPT ![name[h]] = [@ EXCEPT ![k] = None]]
    /\ own' = IF phase[h] = "active" THEN [own EXCEPT ![h] = [@ EXCEPT ![k] = None]] ELSE own
    /\ Touch(name[h], {h})
    /\ UNCHANGED << live, state, name, phase, base >>

\* The branch first, then the engine.
agent_get(h, k) ==
    IF Branch(h) # NoBranch /\ Branch(h)[k] # None THEN Branch(h)[k] ELSE live[k]

-----------------------------------------------------------------------------
(***************************************************************************)
(* Engine::branch_diff: the keys on which a branch and the main state      *)
(* differ, with both values.                                               *)
(***************************************************************************)
branch_diff(n) ==
    {[key |-> k, main |-> state[k], branch |-> snapshots[n][k]] :
        k \in {x \in Key : snapshots[n][x] # state[x]}}

(***************************************************************************)
(* Engine::branch_merge puts the branch's entries one after the other and  *)
(* removes the branch.  If the log fails, it stops: the entries of done are*)
(* merged, one more only in the persistent map, and the branch stays.      *)
(***************************************************************************)
Merged(b, done, m) == [k \in Key |-> IF k \in done /\ b[k] # None THEN b[k] ELSE m[k]]

branch_merge(n) ==
    /\ snapshots[n] # NoBranch
    /\ live' = Merged(snapshots[n], Key, live)
    /\ state' = Merged(snapshots[n], Key, state)
    /\ snapshots' = [snapshots EXCEPT ![n] = NoBranch]

MergeFails(n) ==
    \/ snapshots[n] = NoBranch /\ UNCHANGED << live, state, snapshots >>
    \/ /\ snapshots[n] # NoBranch
       /\ \E k \in {x \in Key : snapshots[n][x] # None} : \E done \in SUBSET (Key \ {k}) :
            /\ live' = Merged(snapshots[n], done, live)
            /\ state' = Merged(snapshots[n], done \cup {k}, state)
       /\ UNCHANGED snapshots

Finish(h, how) ==
    /\ phase' = [phase EXCEPT ![h] = how]
    /\ base' = [base EXCEPT ![h] = Empty] /\ own' = [own EXCEPT ![h] = NoWrites]
    /\ UNCHANGED << name, writes >>

\* Workspace.merge_to_main of a branch
merge_to_main(n) ==
    \/ branch_merge(n) /\ Touch(n, {}) /\ AgentsKeep /\ UNCHANGED writes
    \/ MergeFails(n) /\ AgentsKeep /\ UNCHANGED << shared, writes >>

\* Faulty: takes the branch's entries for the whole of main.
commitAll(h) ==
    /\ phase[h] = "active"
    /\ Branch(h) # NoBranch
    /\ live' = Branch(h) /\ state' = Branch(h)
    /\ snapshots' = [snapshots EXCEPT ![name[h]] = NoBranch]
    /\ Touch(name[h], {h}) /\ Finish(h, "committed")

commit(h) ==
    /\ phase[h] = "active"
    /\ \/ branch_merge(name[h]) /\ Touch(name[h], {h}) /\ Finish(h, "committed")
       \/ MergeFails(name[h]) /\ AgentsKeep /\ UNCHANGED << shared, writes >>

\* Agent.discard, and __exit__ after an exception
discard(h) ==
    /\ phase[h] = "active"
    /\ snapshots' = [snapshots EXCEPT ![name[h]] = NoBranch]
    /\ Touch(name[h], {h}) /\ Finish(h, "discarded")
    /\ UNCHANGED << live, state >>

\* __exit__ without an exception: an error of the merge is ignored.
exit(h) ==
    /\ phase[h] = "active"
    /\ \/ branch_merge(name[h]) /\ Touch(name[h], {h}) /\ Finish(h, "committed")
       \/ MergeFails(name[h]) /\ Finish(h, "failed") /\ UNCHANGED shared

-----------------------------------------------------------------------------
Init ==
    /\ live = Empty /\ state = Empty /\ snapshots = [n \in Name |-> NoBranch]
    /\ name = [h \in Handle |-> Nobody] /\ phase = [h \in Handle |-> "new"]
    /\ writes = 0
    /\ base = [h \in Handle |-> Empty] /\ own = [h \in Handle |-> NoWrites]
    /\ shared = [h \in Handle |-> FALSE]

Next ==
    \/ \E k \in Key : put(k) \/ delete(k) \/ \E h \in Handle : agent_put(h, k) \/ agent_delete(h, k)
    \/ load
    \/ \E n \in Name : snapshot(n) \/ restore(n) \/ merge_to_main(n) \/ \E from \in Name : branch(n, from)
    \/ \E h \in Handle : \/ agent_load(h) \/ commit(h) \/ discard(h) \/ exit(h)
                         \/ \E n \in Name : agent(h, n)

Spec == Init /\ [][Next]_agentVars

-----------------------------------------------------------------------------
(***************************************************************************)
(* AgentReads: as long as nothing else uses the name of an active agent,   *)
(* its branch is the state it was created from with its own writes on top; *)
(* so a read finds its last write of a key, unless that was a delete, and  *)
(* otherwise the value it started with.  A key it deleted or did not start *)
(* with is read from main.                                                 *)
(***************************************************************************)
Written(h) == [k \in Key |-> IF own[h][k] = NoWrite THEN base[h][k] ELSE own[h][k]]

AgentReads ==
    \A h \in Handle :
        phase[h] = "active" /\ ~shared[h] =>
            /\ Branch(h) = Written(h)
            /\ \A k \in Key : agent_get(h, k) = IF Written(h)[k] # None THEN Written(h)[k] ELSE live[k]

(***************************************************************************)
(* CommitApplies: when such an agent commits, by commit or by leaving its  *)
(* context, main has every value it wrote, and no key that is not in its   *)
(* branch changes; a key that it only started with goes back to that value.*)
(* Before any merge, branch_diff tells what it will change: the keys for   *)
(* which the branch has a value.                                           *)
(***************************************************************************)
CommitStep ==
    /\ \A h \in Handle :
        phase[h] = "active" /\ phase'[h] = "committed" /\ ~shared[h] =>
            \A k \in Key : live'[k] = IF Written(h)[k] # None THEN Written(h)[k] ELSE live[k]
    /\ \A n \in Name :
        branch_merge(n) =>
            {k \in Key : state'[k] # state[k]} = {d.key : d \in {x \in branch_diff(n) : x.branch # None}}

CommitApplies == [][CommitStep]_agentVars
=============================================================================
