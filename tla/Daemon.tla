------------------------------- MODULE Daemon -------------------------------
(***************************************************************************)
(* The server process (bin/uldb.rs): a thread per connection, which        *)
(* challenges the client with a nonce, checks its HELLO, and then answers  *)
(* its frames one after the other.  TLS, the nonce store and the dispatch  *)
(* of a frame to its handler are external: a nonce is never issued twice   *)
(* and is consumed once, and a frame that is dispatched has one of the     *)
(* responses of the protocol, cannot be decoded, or ends its thread with a *)
(* panic (see module Server).  Nothing sets the shutdown flag (the thread  *)
(* that ctrlc_handler starts only reads it), so that it needs no variable. *)
(***************************************************************************)
EXTENDS Integers, Sequences

CONSTANTS
    Connection,
    Stream,      \* stream numbers of frames
    SEQ,         \* sequence numbers are modulo SEQ: 2^32 in the code
    MaxFrames    \* bound: frames that a client sends on a connection

VARIABLES
    phase,       \* "none", "challenged", "ready", "closed"
    issued,      \* how many nonces the store has issued: 1 .. issued
    nonce,       \* the nonce of each connection, 0 if none
    used,        \* nonces that were consumed
    proof,       \* the nonce that an accepted HELLO answered
    asked,       \* frames that the client has sent after WELCOME
    handled,     \* how many of them the thread has taken
    sent         \* the frames sent in reply

daemonVars == << phase, issued, nonce, used, proof, asked, handled, sent >>

-----------------------------------------------------------------------------
Frame == [op : {"PING", "GOODBYE", "request"}, stream : Stream]

Close(c) == phase' = [phase EXCEPT ![c] = "closed"]

\* The thread starts, and TLS and the nonce store have done their part.
accept(c) ==
    /\ phase[c] = "none"
    /\ phase' = [phase EXCEPT ![c] = "challenged"]
    /\ issued' = issued + 1 /\ nonce' = [nonce EXCEPT ![c] = issued']
    /\ UNCHANGED << used, proof, asked, handled, sent >>

refuse(c) ==
    /\ phase[c] = "none"
    /\ Close(c)
    /\ UNCHANGED << issued, nonce, used, proof, asked, handled, sent >>

(***************************************************************************)
(* The client's HELLO has a proof for nonce n (0: none, or no HELLO at all)*)
(* of the right length or only the beginning of one: the bytes that both   *)
(* have are compared, and then the length.                                 *)
(***************************************************************************)
Matches(c, n, whole) == n = nonce[c] /\ whole

hello(c, n, whole) ==
    /\ phase[c] = "challenged"
    /\ IF Matches(c, n, whole) /\ n \notin used
       THEN /\ phase' = [phase EXCEPT ![c] = "ready"]
            /\ used' = used \cup {n}
            /\ proof' = [proof EXCEPT ![c] = n]
       ELSE Close(c) /\ UNCHANGED << used, proof >>
    /\ UNCHANGED << issued, nonce, asked, handled, sent >>

client_send(c, frame) ==
    /\ phase[c] = "ready" /\ Len(asked[c]) < MaxFrames
    /\ asked' = [asked EXCEPT ![c] = Append(@, frame)]
    /\ UNCHANGED << phase, issued, nonce, used, proof, handled, sent >>

-----------------------------------------------------------------------------
(***************************************************************************)
(* One round of the request loop.  A reply has the stream of its frame and *)
(* the next sequence number; the last reply of a connection that the server*)
(* ends leaves the number as it is.                                        *)
(***************************************************************************)
Taken(c) == asked[c][handled[c] + 1]

Reply(c, op, i) ==
    [op |-> op, stream |-> Taken(c).stream, seq |-> (Len(sent[c]) + i) % SEQ, for |-> handled[c] + 1]

\* Faulty: all the frames of a stream have the number of its first.
SendSame(c, op, n) == sent' = [sent EXCEPT ![c] = @ \o [i \in 1 .. n |-> Reply(c, op, 1)]]

Send(c, op, n) == sent' = [sent EXCEPT ![c] = @ \o [i \in 1 .. n |-> Reply(c, op, i)]]

Take(c) ==
    /\ phase[c] = "ready" /\ handled[c] < Len(asked[c])
    /\ handled' = [handled EXCEPT ![c] = @ + 1]
    /\ UNCHANGED << issued, nonce, used, proof, asked >>

ping(c) == Take(c) /\ Taken(c).op = "PING" /\ Send(c, "PONG", 1) /\ UNCHANGED phase

goodbye(c) == Take(c) /\ Taken(c).op = "GOODBYE" /\ Close(c) /\ UNCHANGED sent

\* A single response or an error, no response, or a stream of them.
request(c) ==
    /\ Take(c) /\ Taken(c).op = "request"
    /\ \E n \in 0 .. 2 : Send(c, "response", n)
    /\ UNCHANGED phase

request_ends(c) ==
    /\ Take(c) /\ Taken(c).op = "request"
    /\ \/ Send(c, "response", 1)   \* Response::Disconnect
       \/ UNCHANGED sent           \* a panic
    /\ Close(c)

serve(c) == ping(c) \/ goodbye(c) \/ request(c) \/ request_ends(c)

\* The client has gone, was silent for 120 seconds, or sent what is not a frame.
disconnect(c) ==
    /\ phase[c] \in {"challenged", "ready"}
    /\ Close(c)
    /\ UNCHANGED << issued, nonce, used, proof, asked, handled, sent >>

Init ==
    /\ phase = [c \in Connection |-> "none"]
    /\ issued = 0 /\ nonce = [c \in Connection |-> 0] /\ proof = [c \in Connection |-> 0] /\ used = {}
    /\ asked = [c \in Connection |-> << >>] /\ handled = [c \in Connection |-> 0]
    /\ sent = [c \in Connection |-> << >>]

Next ==
    \E c \in Connection :
        \/ accept(c) \/ refuse(c) \/ serve(c) \/ disconnect(c)
        \/ \E n \in 0 .. issued, whole \in BOOLEAN : hello(c, n, whole)
        \/ \E frame \in Frame : client_send(c, frame)

Spec == Init /\ [][Next]_daemonVars

-----------------------------------------------------------------------------
(***************************************************************************)
(* RepliesInOrder: the replies on a connection are numbered without a gap  *)
(* (modulo SEQ), answer the frames in the order in which they were sent,   *)
(* each on the stream of its frame, and every PING is answered by one PONG.*)
(***************************************************************************)
RepliesInOrder ==
    \A c \in Connection :
        /\ \A i \in DOMAIN sent[c] :
            /\ sent[c][i].seq = i % SEQ
            /\ sent[c][i].for \in 1 .. handled[c]
            /\ sent[c][i].stream = asked[c][sent[c][i].for].stream
            /\ i > 1 => sent[c][i - 1].for <= sent[c][i].for
        /\ \A n \in 1 .. handled[c] :
            asked[c][n].op = "PING" =>
                \E j \in DOMAIN sent[c] : \A i \in DOMAIN sent[c] :
                    sent[c][i].for = n /\ sent[c][i].op = "PONG" <=> i = j

(***************************************************************************)
(* AdmittedOnce: a connection on which frames are answered has proved that *)
(* it knows the token for the nonce of its own challenge, and no proof     *)
(* admits two connections.                                                 *)
(***************************************************************************)
AdmittedOnce ==
    \A c \in Connection :
        /\ phase[c] = "ready" \/ asked[c] # << >> => proof[c] = nonce[c] /\ nonce[c] # 0
        /\ \A d \in Connection \ {c} : proof[c] # 0 => proof[c] # proof[d]
=============================================================================
