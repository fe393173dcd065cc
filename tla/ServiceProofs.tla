--------------------------- MODULE ServiceProofs ----------------------------
(***************************************************************************)
(* Theorems about the services, for any sets of connections, agents and    *)
(* sessions:                                                               *)
(*   Daemon      replies and admission (RepliesOrdered, AdmittedOnceEach); *)
(*   Agents      reads and commits of agents (AgentReadsOwn, CommitsApply);*)
(*   AgentStore  payloads and their record keys (SessionRecords).          *)
(***************************************************************************)
EXTENDS Integers, SequenceTheorems, TLAPS

-----------------------------------------------------------------------------
CONSTANTS Connection, Stream, SEQ, MaxFrames
VARIABLES phase, issued, nonce, used, proof, asked, handled, sent

D == INSTANCE Daemon

-----------------------------------------------------------------------------
(***************************************************************************)
(* The server process.                                                     *)
(*                                                                         *)
(* Answered: what RepliesInOrder says of one connection, for the frames a  *)
(* that were sent on it, of which h are handled, and the replies s.        *)
(***************************************************************************)
Answered(a, h, s) ==
    /\ \A i \in 1 .. Len(s) :
        /\ s[i].seq = i % SEQ /\ s[i].for \in 1 .. h /\ s[i].stream = a[s[i].for].stream
        /\ i > 1 => s[i - 1].for <= s[i].for
    /\ \A n \in 1 .. h : a[n].op = "PING" =>
        \E j \in 1 .. Len(s) : \A i \in 1 .. Len(s) : (s[i].for = n /\ s[i].op = "PONG") <=> i = j

ReplyFrame == [op : {"PONG", "response"}, stream : Stream, seq : {i % SEQ : i \in Nat}, for : Nat]

DaemonTypes ==
    /\ phase \in [Connection -> {"none", "challenged", "ready", "closed"}]
    /\ issued \in Nat /\ nonce \in [Connection -> Nat] /\ proof \in [Connection -> Nat]
    /\ asked \in [Connection -> Seq(D!Frame)] /\ handled \in [Connection -> Nat]
    /\ sent \in [Connection -> Seq(ReplyFrame)]

(***************************************************************************)
(* Challenges: the nonces that were issued are numbered and differ, and a  *)
(* connection's proof is for its own.                                      *)
(***************************************************************************)
Challenges ==
    /\ \A c \in Connection : nonce[c] <= issued
    /\ \A c, d \in Connection : nonce[c] = nonce[d] /\ nonce[c] # 0 => c = d
    /\ \A c \in Connection : /\ phase[c] = "none" => nonce[c] = 0
                             /\ phase[c] \in {"challenged", "ready"} => nonce[c] # 0
                             /\ proof[c] # 0 => proof[c] = nonce[c]
                             /\ phase[c] = "ready" \/ asked[c] # << >> => proof[c] # 0

Replies == \A c \in Connection : handled[c] <= Len(asked[c]) /\ Answered(asked[c], handled[c], sent[c])

DaemonInv == DaemonTypes /\ Challenges /\ Replies

-----------------------------------------------------------------------------
\* The client sends one more frame.
LEMMA AskedMore ==
    ASSUME NEW a \in Seq(D!Frame), NEW f \in D!Frame, NEW h \in Nat, h <= Len(a),
           NEW s \in Seq(ReplyFrame), Answered(a, h, s)
    PROVE  h <= Len(Append(a, f)) /\ Answered(Append(a, f), h, s)
<1>1. Len(a) \in Nat /\ Len(Append(a, f)) = Len(a) + 1 /\ \A n \in 1 .. Len(a) : Append(a, f)[n] = a[n]
  BY LenProperties, AppendProperties
<1>2. \A n \in 1 .. h : Append(a, f)[n] = a[n]
  BY <1>1
<1> QED
  BY <1>1, <1>2 DEF Answered

\* A frame other than PING is taken and has no reply.
LEMMA TakenSilently ==
    ASSUME NEW a \in Seq(D!Frame), NEW h \in Nat, NEW s \in Seq(ReplyFrame), Answered(a, h, s), a[h + 1].op # "PING"
    PROVE  Answered(a, h + 1, s)
<1>1. Len(s) \in Nat
  BY LenProperties
<1>2. \A i \in 1 .. Len(s) : s[i].for \in 1 .. h + 1
  BY DEF Answered
<1>3. \A n \in 1 .. h + 1 : n \in 1 .. h \/ n = h + 1
  OBVIOUS
<1> QED
  BY <1>1, <1>2, <1>3 DEF Answered

(***************************************************************************)
(* A frame is taken and has the replies new.                               *)
(***************************************************************************)
LEMMA TakenReplied ==
    ASSUME NEW a \in Seq(D!Frame), NEW h \in Nat, NEW s \in Seq(ReplyFrame), Answered(a, h, s),
           NEW new \in Seq(ReplyFrame), NEW op,
           \A i \in 1 .. Len(new) : /\ new[i].seq = (Len(s) + i) % SEQ /\ new[i].for = h + 1
                                    /\ new[i].stream = a[h + 1].stream /\ new[i].op = op,
           \/ a[h + 1].op = "PING" /\ op = "PONG" /\ Len(new) = 1
           \/ a[h + 1].op # "PING" /\ op # "PONG"
    PROVE  Answered(a, h + 1, s \o new)
<1> DEFINE t == s \o new
<1>1. Len(s) \in Nat /\ Len(new) \in Nat
  BY LenProperties
<1>2. Len(t) = Len(s) + Len(new) /\ \A i \in 1 .. Len(s) + Len(new) : t[i] = IF i <= Len(s) THEN s[i] ELSE new[i - Len(s)]
  BY ConcatProperties
<1> HIDE DEF t
<1>3. \A i \in 1 .. Len(s) : t[i] = s[i] /\ i \in 1 .. Len(t)
  BY <1>1, <1>2
<1>4. ASSUME NEW i \in 1 .. Len(t), i \notin 1 .. Len(s)
      PROVE  /\ i \in Int /\ i > Len(s)
             /\ t[i].seq = i % SEQ /\ t[i].for = h + 1 /\ t[i].stream = a[h + 1].stream /\ t[i].op = op
  <2>1. i - Len(s) \in 1 .. Len(new) /\ t[i] = new[i - Len(s)] /\ Len(s) + (i - Len(s)) = i /\ i > Len(s)
    BY <1>1, <1>2, <1>4
  <2> QED
    BY <2>1
<1>5. ASSUME NEW i \in 1 .. Len(t)
      PROVE  /\ t[i].seq = i % SEQ /\ t[i].for \in 1 .. h + 1 /\ t[i].stream = a[t[i].for].stream
             /\ i > 1 => t[i - 1].for <= t[i].for
  <2>1. CASE i \in 1 .. Len(s)
    <3>1. t[i] = s[i]
      BY <1>3, <2>1
    <3>2. ASSUME i > 1 PROVE t[i - 1] = s[i - 1]
      <4>1. i - 1 \in 1 .. Len(s)
        BY <1>1, <2>1, <3>2
      <4> QED
        BY <1>3, <4>1
    <3> QED
      BY <2>1, <3>1, <3>2 DEF Answered
  <2>2. CASE i \notin 1 .. Len(s)
    <3>1. t[i].seq = i % SEQ /\ t[i].for = h + 1 /\ t[i].stream = a[h + 1].stream
      BY <1>4, <2>2
    <3>2. ASSUME i > 1 PROVE t[i - 1].for <= h + 1
      <4>1. i - 1 \in 1 .. Len(t)
        BY <1>1, <1>2, <3>2
      <4>2. CASE i - 1 \in 1 .. Len(s)
        BY <1>3, <4>2 DEF Answered
      <4>3. CASE i - 1 \notin 1 .. Len(s)
        BY <1>4, <4>1, <4>3
      <4> QED
        BY <4>2, <4>3
    <3> QED
      BY <3>1, <3>2
  <2> QED
    BY <2>1, <2>2
<1>6. ASSUME NEW n \in 1 .. h + 1, a[n].op = "PING"
      PROVE  \E j \in 1 .. Len(t) : \A i \in 1 .. Len(t) : (t[i].for = n /\ t[i].op = "PONG") <=> i = j
  <2>1. CASE n = h + 1
    <3>1. op = "PONG" /\ Len(new) = 1
      BY <1>6, <2>1
    <3>2. Len(s) + 1 \in 1 .. Len(t) /\ \A i \in 1 .. Len(t) : i \in 1 .. Len(s) \/ i = Len(s) + 1
      BY <1>1, <1>2, <3>1
    <3>3. t[Len(s) + 1].for = n /\ t[Len(s) + 1].op = "PONG"
      BY <1>1, <1>4, <2>1, <3>1, <3>2
    <3>4. \A i \in 1 .. Len(s) : t[i].for # n /\ i # Len(s) + 1
      <4> TAKE i \in 1 .. Len(s)
      <4>1. t[i].for \in 1 .. h
        BY <1>3 DEF Answered
      <4> QED
        BY <1>1, <2>1, <4>1
    <3> QED
      BY <3>2, <3>3, <3>4, Zenon
  <2>2. CASE n # h + 1
    <3>1. n \in 1 .. h
      BY <2>2
    <3>2. PICK j \in 1 .. Len(s) : \A i \in 1 .. Len(s) : (s[i].for = n /\ s[i].op = "PONG") <=> i = j
      BY <1>6, <3>1, Zenon DEF Answered
    <3>3. \A i \in 1 .. Len(t) : i \notin 1 .. Len(s) => t[i].for # n
      BY <1>4, <3>1
    <3>4. \A i \in 1 .. Len(t) : (t[i].for = n /\ t[i].op = "PONG") <=> i = j
      BY <1>3, <3>2, <3>3, Zenon
    <3> QED
      BY <1>3, <3>4
  <2> QED
    BY <2>1, <2>2
<1> QED
  BY <1>5, <1>6, Zenon DEF Answered, t

-----------------------------------------------------------------------------
LEMMA DaemonInit == D!Init => DaemonInv
<1> SUFFICES ASSUME D!Init PROVE DaemonInv
  OBVIOUS
<1>1. << >> \in Seq(D!Frame) /\ << >> \in Seq(ReplyFrame) /\ Len(<< >>) = 0
  BY EmptySeq
<1>2. DaemonTypes
  BY <1>1 DEF D!Init, DaemonTypes
<1>3. Challenges
  BY DEF D!Init, Challenges
<1>4. Replies
  BY <1>1 DEF D!Init, Replies, Answered
<1> QED
  BY <1>2, <1>3, <1>4 DEF DaemonInv

\* A thread starts: its nonce is the next number.
LEMMA Accepted == ASSUME DaemonInv, NEW c \in Connection, D!accept(c) PROVE DaemonInv'
<1>1. /\ phase \in [Connection -> {"none", "challenged", "ready", "closed"}] /\ nonce \in [Connection -> Nat]
      /\ proof \in [Connection -> Nat] /\ issued \in Nat
  BY DEF DaemonInv, DaemonTypes
<1>2. /\ phase[c] = "none" /\ phase' = [phase EXCEPT ![c] = "challenged"]
      /\ issued' = issued + 1 /\ nonce' = [nonce EXCEPT ![c] = issued + 1]
      /\ UNCHANGED << used, proof, asked, handled, sent >>
  BY DEF D!accept
<1>3. /\ \A d \in Connection : nonce[d] <= issued
      /\ \A d, e \in Connection : nonce[d] = nonce[e] /\ nonce[d] # 0 => d = e
  BY DEF DaemonInv, Challenges
<1>4. nonce' \in [Connection -> Nat] /\ nonce'[c] = issued + 1 /\ \A d \in Connection : d # c => nonce'[d] = nonce[d]
  BY <1>1, <1>2
<1>5. ASSUME NEW d \in Connection PROVE nonce[d] \in Nat /\ nonce[d] < issued + 1
  BY <1>1, <1>3
<1>6. \A d \in Connection : nonce'[d] <= issued'
  BY <1>1, <1>2, <1>4, <1>5
<1>7. \A d, e \in Connection : nonce'[d] = nonce'[e] /\ nonce'[d] # 0 => d = e
  BY <1>1, <1>3, <1>4, <1>5
<1>8. DaemonTypes'
  BY <1>1, <1>2, <1>4 DEF DaemonInv, DaemonTypes
<1>9. Replies'
  BY <1>2 DEF DaemonInv, Replies
<1>10. ASSUME NEW d \in Connection
       PROVE  /\ phase'[d] = "none" => nonce'[d] = 0
              /\ phase'[d] \in {"challenged", "ready"} => nonce'[d] # 0
              /\ proof'[d] # 0 => proof'[d] = nonce'[d]
              /\ phase'[d] = "ready" \/ asked'[d] # << >> => proof'[d] # 0
  <2>1. /\ phase[d] = "none" => nonce[d] = 0
        /\ phase[d] \in {"challenged", "ready"} => nonce[d] # 0
        /\ proof[d] # 0 => proof[d] = nonce[d]
        /\ phase[d] = "ready" \/ asked[d] # << >> => proof[d] # 0
    BY DEF DaemonInv, Challenges
  <2>2. CASE d # c
    BY <1>1, <1>2, <1>4, <2>1, <2>2
  <2>3. CASE d = c
    <3>1. proof[c] = 0
      BY <1>1, <1>2, <2>1, <2>3
    <3>2. phase'[c] = "challenged" /\ proof'[c] = 0 /\ asked'[c] = asked[c] /\ nonce'[c] # 0
      BY <1>1, <1>2, <1>4, <3>1
    <3> QED
      BY <2>1, <2>3, <3>1, <3>2
  <2> QED
    BY <2>2, <2>3
<1>11. Challenges'
  BY <1>6, <1>7, <1>10 DEF Challenges
<1> QED
  BY <1>8, <1>9, <1>11 DEF DaemonInv

\* A connection ends, or its HELLO is accepted: no nonce is issued.
LEMMA Moved ==
    ASSUME DaemonInv, NEW c \in Connection,
           \/ phase' = [phase EXCEPT ![c] = "closed"] /\ proof' = proof
           \/ /\ phase[c] = "challenged" /\ phase' = [phase EXCEPT ![c] = "ready"]
              /\ proof' = [proof EXCEPT ![c] = nonce[c]],
           issued' = issued, nonce' = nonce,
           \A d \in Connection : asked'[d] # << >> => asked[d] # << >>
    PROVE  /\ phase' \in [Connection -> {"none", "challenged", "ready", "closed"}]
           /\ proof' \in [Connection -> Nat] /\ Challenges'
<1>1. /\ phase \in [Connection -> {"none", "challenged", "ready", "closed"}] /\ nonce \in [Connection -> Nat]
      /\ proof \in [Connection -> Nat]
  BY DEF DaemonInv, DaemonTypes
<1>3. ASSUME NEW d \in Connection
      PROVE  /\ phase[d] = "none" => nonce[d] = 0
             /\ phase[d] \in {"challenged", "ready"} => nonce[d] # 0
             /\ proof[d] # 0 => proof[d] = nonce[d]
             /\ phase[d] = "ready" \/ asked[d] # << >> => proof[d] # 0
  BY DEF DaemonInv, Challenges
<1>4. CASE phase' = [phase EXCEPT ![c] = "closed"] /\ proof' = proof
  <2>1. ASSUME NEW d \in Connection
        PROVE  /\ phase'[d] = "none" => nonce'[d] = 0
               /\ phase'[d] \in {"challenged", "ready"} => nonce'[d] # 0
               /\ proof'[d] # 0 => proof'[d] = nonce'[d]
               /\ phase'[d] = "ready" \/ asked'[d] # << >> => proof'[d] # 0
    BY <1>1, <1>3, <1>4
  <2>2. Challenges'
    BY <2>1 DEF DaemonInv, Challenges
  <2> QED
    BY <1>1, <1>4, <2>2
<1>5. CASE /\ phase[c] = "challenged" /\ phase' = [phase EXCEPT ![c] = "ready"]
           /\ proof' = [proof EXCEPT ![c] = nonce[c]]
  <2>1. ASSUME NEW d \in Connection
        PROVE  /\ phase'[d] = "none" => nonce'[d] = 0
               /\ phase'[d] \in {"challenged", "ready"} => nonce'[d] # 0
               /\ proof'[d] # 0 => proof'[d] = nonce'[d]
               /\ phase'[d] = "ready" \/ asked'[d] # << >> => proof'[d] # 0
    <3>1. CASE d = c
      BY <1>1, <1>3, <1>5, <3>1
    <3>2. CASE d # c
      BY <1>1, <1>3, <1>5, <3>2
    <3> QED
      BY <3>1, <3>2
  <2>2. Challenges'
    BY <2>1 DEF DaemonInv, Challenges
  <2> QED
    BY <1>1, <1>5, <2>2
<1> QED
  BY <1>4, <1>5

\* A thread takes a frame and sends n replies to it.
LEMMA Taken ==
    ASSUME DaemonInv, NEW c \in Connection, D!Take(c), NEW op \in {"PONG", "response"}, NEW n \in Nat, D!Send(c, op, n),
           \/ D!Taken(c).op = "PING" /\ op = "PONG" /\ n = 1
           \/ D!Taken(c).op # "PING" /\ op # "PONG"
    PROVE  Replies' /\ sent' \in [Connection -> Seq(ReplyFrame)] /\ handled' \in [Connection -> Nat]
<1> DEFINE a   == asked[c]
           h   == handled[c]
           s   == sent[c]
           new == [i \in 1 .. n |-> D!Reply(c, op, i)]
<1>1. /\ asked \in [Connection -> Seq(D!Frame)] /\ handled \in [Connection -> Nat]
      /\ sent \in [Connection -> Seq(ReplyFrame)]
  BY DEF DaemonInv, DaemonTypes
<1>2. /\ a \in Seq(D!Frame) /\ h \in Nat /\ s \in Seq(ReplyFrame)
      /\ h < Len(a) /\ Answered(a, h, s) /\ Len(s) \in Nat /\ Len(a) \in Nat
  <2>1. a \in Seq(D!Frame) /\ h \in Nat /\ s \in Seq(ReplyFrame)
    BY <1>1
  <2>2. h < Len(a) /\ Answered(a, h, s)
    BY DEF D!Take, DaemonInv, Replies
  <2> QED
    BY <2>1, <2>2, LenProperties
<1>3. handled' = [handled EXCEPT ![c] = h + 1] /\ asked' = asked /\ sent' = [sent EXCEPT ![c] = s \o new]
  BY DEF D!Take, D!Send
<1>4. a[h + 1] \in D!Frame /\ D!Taken(c) = a[h + 1]
  BY <1>2, ElementOfSeq DEF D!Taken
<1>5. \A i \in 1 .. n : /\ new[i] \in ReplyFrame
                        /\ new[i].seq = (Len(s) + i) % SEQ /\ new[i].for = h + 1
                        /\ new[i].stream = a[h + 1].stream /\ new[i].op = op
  <2> TAKE i \in 1 .. n
  <2> DEFINE r == [op |-> op, stream |-> a[h + 1].stream, seq |-> (Len(s) + i) % SEQ, for |-> h + 1]
  <2>1. new[i] = r
    BY <1>4 DEF D!Reply
  <2>2. a[h + 1].stream \in Stream
    BY <1>4 DEF D!Frame
  <2>3. Len(s) + i \in Nat
    BY <1>2
  <2>4. (Len(s) + i) % SEQ \in {j % SEQ : j \in Nat}
    BY <2>3
  <2>5. r \in ReplyFrame
    BY <1>2, <2>2, <2>4 DEF ReplyFrame
  <2>6. r.seq = (Len(s) + i) % SEQ /\ r.for = h + 1 /\ r.stream = a[h + 1].stream /\ r.op = op
    OBVIOUS
  <2> HIDE DEF r, new
  <2> QED
    BY <2>1, <2>5, <2>6
<1>6. new \in Seq(ReplyFrame) /\ Len(new) = n
  <2> DEFINE E == ReplyFrame
  <2>1. new \in [1 .. n -> E]
    BY <1>5
  <2> HIDE DEF new, E
  <2>2. new \in Seq(E)
    BY <2>1, SeqDef
  <2>3. Len(new) = n
    BY <2>1, <2>2, LenProperties
  <2> QED
    BY <2>2, <2>3 DEF E
<1> HIDE DEF a, h, s, new
<1>7. s \o new \in Seq(ReplyFrame)
  BY <1>2, <1>6, ConcatProperties
<1>8. Answered(a, h + 1, s \o new)
  BY <1>2, <1>4, <1>5, <1>6, TakenReplied, Zenon
<1>9. ASSUME NEW d \in Connection
      PROVE  handled'[d] <= Len(asked'[d]) /\ Answered(asked'[d], handled'[d], sent'[d])
  <2>1. CASE d = c
    <3>1. handled'[c] = h + 1 /\ asked'[c] = a /\ sent'[c] = s \o new
      BY <1>1, <1>3 DEF a
    <3>2. h + 1 <= Len(a)
      BY <1>2
    <3> QED
      BY <1>8, <2>1, <3>1, <3>2
  <2>2. CASE d # c
    <3>1. handled'[d] = handled[d] /\ asked'[d] = asked[d] /\ sent'[d] = sent[d]
      BY <1>1, <1>3, <2>2
    <3> QED
      BY <3>1 DEF DaemonInv, Replies
  <2> QED
    BY <2>1, <2>2
<1>10. sent' \in [Connection -> Seq(ReplyFrame)] /\ handled' \in [Connection -> Nat]
  BY <1>1, <1>2, <1>3, <1>7
<1> QED
  BY <1>9, <1>10 DEF Replies

\* A thread takes a frame and sends nothing.
LEMMA TakenUnanswered ==
    ASSUME DaemonInv, NEW c \in Connection, D!Take(c), D!Taken(c).op # "PING", sent' = sent
    PROVE  Replies' /\ handled' \in [Connection -> Nat]
<1>1. /\ asked \in [Connection -> Seq(D!Frame)] /\ handled \in [Connection -> Nat]
      /\ sent \in [Connection -> Seq(ReplyFrame)]
  BY DEF DaemonInv, DaemonTypes
<1>2. handled[c] < Len(asked[c]) /\ handled' = [handled EXCEPT ![c] = handled[c] + 1] /\ asked' = asked
  BY DEF D!Take
<1>3. asked[c][handled[c] + 1].op # "PING" /\ Answered(asked[c], handled[c], sent[c])
  BY DEF D!Taken, DaemonInv, Replies
<1>4. Answered(asked[c], handled[c] + 1, sent[c])
  BY <1>1, <1>3, TakenSilently
<1>5. handled[c] + 1 <= Len(asked[c])
  <2>1. Len(asked[c]) \in Nat
    BY <1>1, LenProperties
  <2> QED
    BY <1>1, <1>2, <2>1
<1>6. ASSUME NEW d \in Connection
      PROVE  handled'[d] <= Len(asked'[d]) /\ Answered(asked'[d], handled'[d], sent'[d])
  <2>1. CASE d = c
    BY <1>1, <1>2, <1>4, <1>5, <2>1
  <2>2. CASE d # c
    BY <1>1, <1>2, <2>2 DEF DaemonInv, Replies
  <2> QED
    BY <2>1, <2>2
<1> QED
  BY <1>1, <1>2, <1>6 DEF Replies

LEMMA DaemonNext == DaemonInv /\ [D!Next]_D!daemonVars => DaemonInv'
<1> SUFFICES ASSUME DaemonInv, [D!Next]_D!daemonVars PROVE DaemonInv'
  OBVIOUS
<1>0. DaemonTypes /\ Challenges /\ Replies
  BY DEF DaemonInv
<1>a. ASSUME NEW c \in Connection, D!Close(c), UNCHANGED << issued, nonce, proof, asked >>,
             Replies', sent' \in [Connection -> Seq(ReplyFrame)], handled' \in [Connection -> Nat]
      PROVE  DaemonInv'
  <2>1. phase' = [phase EXCEPT ![c] = "closed"] /\ proof' = proof
    BY <1>a DEF D!Close
  <2>2. phase' \in [Connection -> {"none", "challenged", "ready", "closed"}] /\ Challenges'
    BY <1>a, <2>1, Moved, Zenon
  <2>3. DaemonTypes'
    BY <1>0, <1>a, <2>2 DEF DaemonTypes
  <2> QED
    BY <1>a, <2>2, <2>3 DEF DaemonInv
<1>b. ASSUME UNCHANGED << phase, issued, nonce, proof, asked >>,
             Replies', sent' \in [Connection -> Seq(ReplyFrame)], handled' \in [Connection -> Nat]
      PROVE  DaemonInv'
  <2>2. Challenges'
    BY <1>0, <1>b DEF Challenges
  <2>3. DaemonTypes'
    BY <1>0, <1>b DEF DaemonTypes
  <2> QED
    BY <1>b, <2>2, <2>3 DEF DaemonInv
<1>c. ASSUME UNCHANGED << asked, handled, sent >>
      PROVE  Replies' /\ sent' \in [Connection -> Seq(ReplyFrame)] /\ handled' \in [Connection -> Nat]
  BY <1>0, <1>c DEF Replies, DaemonTypes
<1>1. ASSUME NEW c \in Connection, D!accept(c) PROVE DaemonInv'
  BY <1>1, Accepted
<1>2. ASSUME NEW c \in Connection, D!refuse(c) \/ D!disconnect(c) PROVE DaemonInv'
  <2>1. D!Close(c) /\ UNCHANGED << issued, nonce, proof, asked, handled, sent >>
    BY <1>2 DEF D!refuse, D!disconnect
  <2> QED
    BY <1>a, <1>c, <2>1
<1>3. ASSUME NEW c \in Connection, NEW n, NEW whole, D!hello(c, n, whole) PROVE DaemonInv'
  <2>0. UNCHANGED << issued, nonce, asked, handled, sent >> /\ phase[c] = "challenged"
    BY <1>3 DEF D!hello
  <2>1. CASE D!Matches(c, n, whole) /\ n \notin used
    <3>1. n = nonce[c]
      BY <2>1 DEF D!Matches
    <3>2. phase' = [phase EXCEPT ![c] = "ready"] /\ proof' = [proof EXCEPT ![c] = nonce[c]]
      BY <1>3, <2>1, <3>1 DEF D!hello
    <3>3. /\ phase' \in [Connection -> {"none", "challenged", "ready", "closed"}]
          /\ proof' \in [Connection -> Nat] /\ Challenges'
      BY <2>0, <3>2, Moved, Zenon
    <3>4. DaemonTypes'
      BY <1>0, <2>0, <3>3 DEF DaemonTypes
    <3> QED
      BY <1>c, <2>0, <3>3, <3>4 DEF DaemonInv
  <2>2. CASE ~(D!Matches(c, n, whole) /\ n \notin used)
    <3>1. D!Close(c) /\ proof' = proof
      BY <1>3, <2>2 DEF D!hello
    <3> QED
      BY <1>a, <1>c, <2>0, <3>1
  <2> QED
    BY <2>1, <2>2
<1>4. ASSUME NEW c \in Connection, NEW frame \in D!Frame, D!client_send(c, frame) PROVE DaemonInv'
  <2>1. /\ phase[c] = "ready" /\ asked' = [asked EXCEPT ![c] = Append(asked[c], frame)]
        /\ UNCHANGED << phase, issued, nonce, used, proof, handled, sent >>
    BY <1>4 DEF D!client_send
  <2>2. /\ asked \in [Connection -> Seq(D!Frame)] /\ handled \in [Connection -> Nat]
        /\ sent \in [Connection -> Seq(ReplyFrame)]
    BY <1>0 DEF DaemonTypes
  <2>3. Append(asked[c], frame) \in Seq(D!Frame)
    BY <2>2, AppendProperties
  <2>4. DaemonTypes'
    BY <1>0, <2>1, <2>3 DEF DaemonTypes
  <2>5. \A d \in Connection : d # c => asked'[d] = asked[d]
    BY <2>1, <2>2
  <2>6. Challenges'
    <3>1. \A d \in Connection : phase'[d] = "ready" \/ asked'[d] # << >> => proof'[d] # 0
      BY <1>0, <2>1, <2>5 DEF Challenges
    <3> QED
      BY <1>0, <2>1, <3>1 DEF Challenges
  <2>7. handled[c] <= Len(Append(asked[c], frame)) /\ Answered(Append(asked[c], frame), handled[c], sent[c])
    BY <1>0, <2>2, AskedMore DEF Replies
  <2>8. Replies'
    <3>1. asked'[c] = Append(asked[c], frame)
      BY <2>1, <2>2
    <3> QED
      BY <1>0, <2>1, <2>5, <2>7, <3>1 DEF Replies
  <2> QED
    BY <2>4, <2>6, <2>8 DEF DaemonInv
<1>5. ASSUME NEW c \in Connection, D!ping(c) PROVE DaemonInv'
  <2>1. D!Take(c) /\ D!Taken(c).op = "PING" /\ D!Send(c, "PONG", 1) /\ phase' = phase
    BY <1>5 DEF D!ping
  <2>2. UNCHANGED << issued, nonce, proof, asked >>
    BY <2>1 DEF D!Take
  <2>3. Replies' /\ sent' \in [Connection -> Seq(ReplyFrame)] /\ handled' \in [Connection -> Nat]
    BY <2>1, Taken
  <2> QED
    BY <1>b, <2>1, <2>2, <2>3
<1>6. ASSUME NEW c \in Connection, D!goodbye(c) PROVE DaemonInv'
  <2>1. D!Take(c) /\ D!Taken(c).op # "PING" /\ D!Close(c) /\ sent' = sent
    BY <1>6 DEF D!goodbye
  <2>2. UNCHANGED << issued, nonce, proof, asked >>
    BY <2>1 DEF D!Take
  <2>3. Replies' /\ handled' \in [Connection -> Nat]
    BY <2>1, TakenUnanswered
  <2>4. sent' \in [Connection -> Seq(ReplyFrame)]
    BY <1>0, <2>1 DEF DaemonTypes
  <2> QED
    BY <1>a, <2>1, <2>2, <2>3, <2>4
<1>7. ASSUME NEW c \in Connection, D!request(c) PROVE DaemonInv'
  <2>1. D!Take(c) /\ D!Taken(c).op # "PING" /\ phase' = phase
    BY <1>7 DEF D!request
  <2>2. PICK n \in 0 .. 2 : D!Send(c, "response", n)
    BY <1>7 DEF D!request
  <2>3. UNCHANGED << issued, nonce, proof, asked >>
    BY <2>1 DEF D!Take
  <2>4. Replies' /\ sent' \in [Connection -> Seq(ReplyFrame)] /\ handled' \in [Connection -> Nat]
    BY <2>1, <2>2, Taken
  <2> QED
    BY <1>b, <2>1, <2>3, <2>4
<1>8. ASSUME NEW c \in Connection, D!request_ends(c) PROVE DaemonInv'
  <2>1. D!Take(c) /\ D!Taken(c).op # "PING" /\ D!Close(c)
    BY <1>8 DEF D!request_ends
  <2>2. UNCHANGED << issued, nonce, proof, asked >>
    BY <2>1 DEF D!Take
  <2>3. CASE D!Send(c, "response", 1)
    <3>1. Replies' /\ sent' \in [Connection -> Seq(ReplyFrame)] /\ handled' \in [Connection -> Nat]
      BY <2>1, <2>3, Taken
    <3> QED
      BY <1>a, <2>1, <2>2, <3>1
  <2>4. CASE sent' = sent
    <3>1. Replies' /\ handled' \in [Connection -> Nat]
      BY <2>1, <2>4, TakenUnanswered
    <3>2. sent' \in [Connection -> Seq(ReplyFrame)]
      BY <1>0, <2>4 DEF DaemonTypes
    <3> QED
      BY <1>a, <2>1, <2>2, <3>1, <3>2
  <2> QED
    BY <1>8, <2>3, <2>4 DEF D!request_ends
<1>9. CASE UNCHANGED D!daemonVars
  BY <1>b, <1>c, <1>9 DEF D!daemonVars
<1> QED
  BY <1>1, <1>2, <1>3, <1>4, <1>5, <1>6, <1>7, <1>8, <1>9 DEF D!Next, D!serve

LEMMA DaemonInvariance == D!Spec => []DaemonInv
  BY DaemonInit, DaemonNext, PTL DEF D!Spec

(***************************************************************************)
(* On any number of connections, replies are numbered without a gap, in the*)
(* order of the requests and on their streams, and every PING has one PONG *)
(* (the request loop of bin/uldb.rs).                                      *)
(***************************************************************************)
THEOREM RepliesOrdered == D!Spec => []D!RepliesInOrder
<1>1. DaemonInv => D!RepliesInOrder
  <2> SUFFICES ASSUME DaemonInv, NEW c \in Connection
               PROVE  /\ \A i \in DOMAIN sent[c] :
                            /\ sent[c][i].seq = i % SEQ
                            /\ sent[c][i].for \in 1 .. handled[c]
                            /\ sent[c][i].stream = asked[c][sent[c][i].for].stream
                            /\ i > 1 => sent[c][i - 1].for <= sent[c][i].for
                      /\ \A n \in 1 .. handled[c] :
                            asked[c][n].op = "PING" =>
                                \E j \in DOMAIN sent[c] : \A i \in DOMAIN sent[c] :
                                    sent[c][i].for = n /\ sent[c][i].op = "PONG" <=> i = j
    BY DEF D!RepliesInOrder
  <2>1. sent[c] \in Seq(ReplyFrame) /\ Answered(asked[c], handled[c], sent[c])
    BY DEF DaemonInv, DaemonTypes, Replies
  <2>2. DOMAIN sent[c] = 1 .. Len(sent[c])
    BY <2>1, LenProperties
  <2>3. ASSUME NEW n \in 1 .. handled[c], asked[c][n].op = "PING"
        PROVE  \E j \in DOMAIN sent[c] : \A i \in DOMAIN sent[c] :
                    sent[c][i].for = n /\ sent[c][i].op = "PONG" <=> i = j
    <3>1. PICK j \in 1 .. Len(sent[c]) :
            \A i \in 1 .. Len(sent[c]) : (sent[c][i].for = n /\ sent[c][i].op = "PONG") <=> i = j
      BY <2>1, <2>3 DEF Answered
    <3>2. j \in DOMAIN sent[c] /\ \A i \in DOMAIN sent[c] : sent[c][i].for = n /\ sent[c][i].op = "PONG" <=> i = j
      BY <2>2, <3>1, Zenon
    <3> QED
      BY <3>2, Zenon
  <2> QED
    BY <2>1, <2>2, <2>3, Zenon DEF Answered
<1> QED
  BY <1>1, DaemonInvariance, PTL

(***************************************************************************)
(* Frames are answered only on a connection whose HELLO proved the token   *)
(* for the connection's own nonce, and no proof admits two connections.    *)
(***************************************************************************)
THEOREM AdmittedOnceEach == D!Spec => []D!AdmittedOnce
<1>1. DaemonInv => D!AdmittedOnce
  BY DEF DaemonInv, Challenges, D!AdmittedOnce
<1> QED
  BY <1>1, DaemonInvariance, PTL

-----------------------------------------------------------------------------
CONSTANTS Key, Name, Handle, MaxWrites
VARIABLES live, state, snapshots, name, agentPhase, writes, base, own, shared

A == INSTANCE Agents WITH phase <- agentPhase

-----------------------------------------------------------------------------
(***************************************************************************)
(* The agents of the Python classes.                                       *)
(*                                                                         *)
(* Apart: the branch of an active agent that is shared with nobody is what *)
(* the agent started from with its own writes on top.                      *)
(***************************************************************************)
Map == [Key -> Nat]

AgentTypes ==
    /\ live \in Map /\ state \in Map /\ snapshots \in [Name -> Map \cup {A!NoBranch}]
    /\ agentPhase \in [Handle -> {"new", "active", "committed", "discarded", "failed"}]
    /\ name \in [Handle -> Name \cup {A!Nobody}] /\ writes \in Nat
    /\ base \in [Handle -> Map] /\ own \in [Handle -> [Key -> Int]]
    /\ shared \in [Handle -> BOOLEAN]

Named ==
    \A h \in Handle : /\ agentPhase[h] # "new" => name[h] \in Name
                      /\ agentPhase[h] = "new" => own[h] = A!NoWrites

Apart(h) == agentPhase[h] = "active" /\ ~shared[h] => A!Branch(h) = A!Written(h)

AgentInv == AgentTypes /\ Named /\ \A h \in Handle : Apart(h)

-----------------------------------------------------------------------------
LEMMA AgentInit == A!Init => AgentInv
<1> SUFFICES ASSUME A!Init PROVE AgentInv
  OBVIOUS
<1>1. A!Empty \in Map /\ A!NoWrites \in [Key -> Int]
  BY DEF A!Empty, A!NoWrites, A!None, A!NoWrite, Map
<1>2. AgentTypes
  BY <1>1 DEF A!Init, AgentTypes
<1>3. Named /\ \A h \in Handle : Apart(h)
  BY DEF A!Init, Named, Apart
<1> QED
  BY <1>2, <1>3 DEF AgentInv

(***************************************************************************)
(* Whatever happens to the branch of one name, the agents of other names,  *)
(* and the ones that Touch marks, stay apart.                              *)
(***************************************************************************)
LEMMA OthersApart ==
    ASSUME AgentInv, NEW n \in Name, NEW by, A!Touch(n, by),
           \A m \in Name : m # n => snapshots'[m] = snapshots[m],
           NEW h \in Handle, h \notin by,
           agentPhase'[h] = agentPhase[h], name'[h] = name[h], base'[h] = base[h], own'[h] = own[h]
    PROVE  Apart(h)'
<1> SUFFICES ASSUME agentPhase'[h] = "active", ~shared'[h] PROVE A!Branch(h)' = A!Written(h)'
  BY DEF Apart
<1>1. shared'[h] = (shared[h] \/ (agentPhase[h] # "new" /\ name[h] = n /\ h \notin by))
  BY Zenon DEF A!Touch
<1>2. agentPhase[h] = "active" /\ ~shared[h] /\ name[h] # n /\ name[h] \in Name
  BY <1>1, Zenon DEF AgentInv, Named
<1>3. A!Branch(h) = A!Written(h)
  BY <1>2 DEF AgentInv, Apart
<1>4. A!Branch(h)' = A!Branch(h)
  BY <1>2 DEF A!Branch
<1>5. A!Written(h)' = A!Written(h)
  BY DEF A!Written
<1> QED
  BY <1>3, <1>4, <1>5

\* A step that changes no branch.
LEMMA SameBranches ==
    ASSUME AgentInv, snapshots' = snapshots, shared' = shared, NEW h \in Handle,
           agentPhase'[h] = agentPhase[h], name'[h] = name[h], base'[h] = base[h], own'[h] = own[h]
    PROVE  Apart(h)'
<1>1. A!Written(h)' = A!Written(h) /\ A!Branch(h)' = A!Branch(h)
  BY DEF A!Written, A!Branch
<1> QED
  BY <1>1, Zenon DEF AgentInv, Apart

LEMMA TouchType ==
    ASSUME AgentTypes, NEW n, NEW by, A!Touch(n, by)
    PROVE  shared' \in [Handle -> BOOLEAN]
  BY DEF AgentTypes, A!Touch

LEMMA MergedType ==
    ASSUME NEW b \in Map, NEW m \in Map, NEW done
    PROVE  A!Merged(b, done, m) \in Map
  BY DEF A!Merged, Map

-----------------------------------------------------------------------------
\* The agents keep their names and what they wrote.
LEMMA KeepAgents ==
    ASSUME AgentInv, A!AgentsKeep
    PROVE  /\ Named'
           /\ \A h \in Handle : /\ agentPhase'[h] = agentPhase[h] /\ name'[h] = name[h]
                                /\ base'[h] = base[h] /\ own'[h] = own[h]
           /\ agentPhase' = agentPhase /\ name' = name /\ base' = base /\ own' = own
<1>1. agentPhase' = agentPhase /\ name' = name /\ base' = base /\ own' = own
  BY DEF A!AgentsKeep
<1>2. Named'
  BY <1>1 DEF AgentInv, Named, A!NoWrites
<1> QED
  BY <1>1, <1>2

\* The engine is written, or its state restored.
LEMMA MainWritten ==
    ASSUME AgentInv, A!AgentsKeep, snapshots' = snapshots, shared' = shared,
           live' \in Map, state' \in Map, writes' \in Nat
    PROVE  AgentInv'
<1>1. Named' /\ \A h \in Handle : Apart(h)'
  BY KeepAgents, SameBranches
<1>2. AgentTypes'
  BY KeepAgents DEF AgentInv, AgentTypes
<1> QED
  BY <1>1, <1>2 DEF AgentInv

\* A branch or snapshot is made, or merged and removed, by no agent.
LEMMA BranchReplaced ==
    ASSUME AgentInv, A!AgentsKeep, NEW n \in Name, A!Touch(n, {}),
           NEW b \in Map \cup {A!NoBranch}, snapshots' = [snapshots EXCEPT ![n] = b],
           live' \in Map, state' \in Map, writes' \in Nat
    PROVE  AgentInv'
<1>1. \A m \in Name : m # n => snapshots'[m] = snapshots[m]
  BY DEF AgentInv, AgentTypes
<1>2. Named' /\ \A h \in Handle : Apart(h)'
  BY <1>1, KeepAgents, OthersApart
<1>3. AgentTypes'
  BY KeepAgents, TouchType DEF AgentInv, AgentTypes
<1> QED
  BY <1>2, <1>3 DEF AgentInv

-----------------------------------------------------------------------------
(***************************************************************************)
(* An agent changes its branch to b, and w are then its own writes.        *)
(***************************************************************************)
LEMMA AgentWrites ==
    ASSUME AgentInv, NEW h \in Handle, agentPhase[h] # "new",
           NEW b \in Map, snapshots' = [snapshots EXCEPT ![name[h]] = b],
           NEW w \in [Key -> Int], own' = [own EXCEPT ![h] = w],
           A!Touch(name[h], {h}), writes' \in Nat,
           UNCHANGED << live, state, name, agentPhase, base >>,
           agentPhase[h] = "active" /\ ~shared[h] =>
               b = [k \in Key |-> IF w[k] = A!NoWrite THEN base[h][k] ELSE w[k]]
    PROVE  AgentInv'
<1>1. /\ name[h] \in Name /\ snapshots \in [Name -> Map \cup {A!NoBranch}]
      /\ own \in [Handle -> [Key -> Int]] /\ shared \in [Handle -> BOOLEAN]
  BY DEF AgentInv, AgentTypes, Named
<1>2. /\ snapshots'[name[h]] = b /\ \A m \in Name : m # name[h] => snapshots'[m] = snapshots[m]
      /\ own'[h] = w /\ \A g \in Handle : g # h => own'[g] = own[g]
  BY <1>1
<1>3. AgentTypes'
  BY <1>1, TouchType DEF AgentInv, AgentTypes
<1>4. Named'
  BY <1>2 DEF AgentInv, Named, A!NoWrites
<1>5. Apart(h)'
  <2>1. shared'[h] = shared[h]
    BY <1>1 DEF A!Touch
  <2>2. A!Branch(h)' = b /\ A!Written(h)' = [k \in Key |-> IF w[k] = A!NoWrite THEN base[h][k] ELSE w[k]]
    BY <1>2 DEF A!Branch, A!Written
  <2> QED
    BY <2>1, <2>2 DEF Apart
<1>6. ASSUME NEW g \in Handle, g # h PROVE Apart(g)'
  BY <1>1, <1>2, <1>6, OthersApart
<1> QED
  BY <1>3, <1>4, <1>5, <1>6 DEF AgentInv

\* A write, or a delete by an active agent, of one key: v is what the branch has then.
LEMMA AgentWritesKey ==
    ASSUME AgentInv, NEW h \in Handle, agentPhase[h] = "active", A!Branch(h) # A!NoBranch,
           NEW k \in Key, NEW v \in Nat,
           snapshots' = [snapshots EXCEPT ![name[h]] = [@ EXCEPT ![k] = v]],
           own' = [own EXCEPT ![h] = [@ EXCEPT ![k] = v]],
           A!Touch(name[h], {h}), writes' \in Nat,
           UNCHANGED << live, state, name, agentPhase, base >>
    PROVE  AgentInv'
<1> DEFINE b == [snapshots[name[h]] EXCEPT ![k] = v]
           w == [own[h] EXCEPT ![k] = v]
<1>1. /\ name[h] \in Name /\ snapshots[name[h]] \in Map /\ own[h] \in [Key -> Int] /\ base[h] \in Map
      /\ snapshots' = [snapshots EXCEPT ![name[h]] = b] /\ own' = [own EXCEPT ![h] = w]
  BY DEF AgentInv, AgentTypes, Named, A!Branch
<1>2. b \in Map /\ w \in [Key -> Int]
  BY <1>1 DEF Map
<1>3. agentPhase[h] = "active" /\ ~shared[h] =>
        b = [x \in Key |-> IF w[x] = A!NoWrite THEN base[h][x] ELSE w[x]]
  <2> HAVE agentPhase[h] = "active" /\ ~shared[h]
  <2>1. snapshots[name[h]] = [x \in Key |-> IF own[h][x] = A!NoWrite THEN base[h][x] ELSE own[h][x]]
    BY DEF AgentInv, Apart, A!Branch, A!Written
  <2>2. v # A!NoWrite
    BY DEF A!NoWrite
  <2>3. \A x \in Key : b[x] = IF w[x] = A!NoWrite THEN base[h][x] ELSE w[x]
    BY <1>1, <2>1, <2>2 DEF Map
  <2>4. b = [x \in Key |-> b[x]]
    BY <1>2 DEF Map
  <2> HIDE DEF b, w
  <2> QED
    BY <2>3, <2>4
<1> HIDE DEF b, w
<1> QED
  BY <1>1, <1>2, <1>3, AgentWrites, Zenon

\* Agent.commit, discard or the end of the context: the branch of its name, if it
\* changes, has gone.
LEMMA Finished ==
    ASSUME AgentInv, NEW h \in Handle, agentPhase[h] = "active",
           NEW how \in {"committed", "discarded", "failed"}, A!Finish(h, how),
           live' \in Map, state' \in Map,
           \/ snapshots' = [snapshots EXCEPT ![name[h]] = A!NoBranch] /\ A!Touch(name[h], {h})
           \/ snapshots' = snapshots /\ shared' = shared
    PROVE  AgentInv'
<1>1. /\ name[h] \in Name /\ snapshots \in [Name -> Map \cup {A!NoBranch}]
      /\ own \in [Handle -> [Key -> Int]] /\ base \in [Handle -> Map]
      /\ agentPhase \in [Handle -> {"new", "active", "committed", "discarded", "failed"}]
  BY DEF AgentInv, AgentTypes, Named
<1>2. /\ agentPhase' = [agentPhase EXCEPT ![h] = how] /\ base' = [base EXCEPT ![h] = A!Empty]
      /\ own' = [own EXCEPT ![h] = A!NoWrites] /\ name' = name /\ writes' = writes
  BY DEF A!Finish
<1>3. A!Empty \in Map /\ A!NoWrites \in [Key -> Int]
  BY DEF A!Empty, A!NoWrites, A!None, A!NoWrite, Map
<1>4. shared' \in [Handle -> BOOLEAN] /\ snapshots' \in [Name -> Map \cup {A!NoBranch}]
  <2>1. CASE snapshots' = [snapshots EXCEPT ![name[h]] = A!NoBranch] /\ A!Touch(name[h], {h})
    BY <1>1, <2>1, TouchType DEF AgentInv
  <2>2. CASE snapshots' = snapshots /\ shared' = shared
    BY <2>2 DEF AgentInv, AgentTypes
  <2> QED
    BY <2>1, <2>2
<1>5. AgentTypes'
  BY <1>1, <1>2, <1>3, <1>4, Zenon DEF AgentInv, AgentTypes
<1>6. \A g \in Handle : g # h => /\ agentPhase'[g] = agentPhase[g] /\ name'[g] = name[g]
                                 /\ base'[g] = base[g] /\ own'[g] = own[g]
  BY <1>1, <1>2
<1>7. agentPhase'[h] = how
  BY <1>1, <1>2
<1>8. Named'
  BY <1>1, <1>2, <1>6, <1>7 DEF AgentInv, Named, A!NoWrites
<1>9. Apart(h)'
  BY <1>7 DEF Apart
<1>10. ASSUME NEW g \in Handle, g # h PROVE Apart(g)'
  <2>1. CASE snapshots' = [snapshots EXCEPT ![name[h]] = A!NoBranch] /\ A!Touch(name[h], {h})
    <3>1. \A m \in Name : m # name[h] => snapshots'[m] = snapshots[m]
      BY <1>1, <2>1
    <3> QED
      BY <1>1, <1>6, <1>10, <2>1, <3>1, OthersApart
  <2>2. CASE snapshots' = snapshots /\ shared' = shared
    BY <1>6, <1>10, <2>2, SameBranches
  <2> QED
    BY <2>1, <2>2
<1> QED
  BY <1>5, <1>8, <1>9, <1>10 DEF AgentInv

\* DB.agent and Client.agent
LEMMA AgentStarts ==
    ASSUME AgentInv, NEW h \in Handle, NEW n \in Name, A!agent(h, n)
    PROVE  AgentInv'
<1>1. /\ agentPhase[h] = "new" /\ snapshots' = [snapshots EXCEPT ![n] = state]
      /\ name' = [name EXCEPT ![h] = n] /\ agentPhase' = [agentPhase EXCEPT ![h] = "active"]
      /\ base' = [base EXCEPT ![h] = state] /\ A!Touch(n, {h})
      /\ UNCHANGED << live, state, writes, own >>
  BY DEF A!agent
<1>2. AgentTypes /\ own[h] = A!NoWrites
  BY <1>1 DEF AgentInv, Named
<1>3. AgentTypes'
  BY <1>1, <1>2, TouchType DEF AgentTypes
<1>4. /\ agentPhase'[h] = "active" /\ name'[h] = n /\ base'[h] = state /\ own'[h] = A!NoWrites
      /\ snapshots'[n] = state /\ \A m \in Name : m # n => snapshots'[m] = snapshots[m]
      /\ \A g \in Handle : g # h => /\ agentPhase'[g] = agentPhase[g] /\ name'[g] = name[g]
                                    /\ base'[g] = base[g] /\ own'[g] = own[g]
  BY <1>1, <1>2 DEF AgentTypes
<1>5. Named'
  BY <1>4 DEF AgentInv, Named, A!NoWrites
<1>6. Apart(h)'
  <2>1. A!Branch(h)' = state
    BY <1>4 DEF A!Branch
  <2>2. A!Written(h)' = [k \in Key |-> state[k]]
    BY <1>4 DEF A!Written, A!NoWrites
  <2>3. state = [k \in Key |-> state[k]]
    BY <1>2 DEF AgentTypes, Map
  <2> QED
    BY <2>1, <2>2, <2>3 DEF Apart
<1>7. ASSUME NEW g \in Handle, g # h PROVE Apart(g)'
  BY <1>1, <1>4, <1>7, OthersApart
<1> QED
  BY <1>3, <1>5, <1>6, <1>7 DEF AgentInv

\* What branch_merge and MergeFails leave behind.
LEMMA MergeTypes ==
    ASSUME AgentInv, NEW n \in Name
    PROVE  /\ A!branch_merge(n) => /\ live' \in Map /\ state' \in Map
                                   /\ snapshots' = [snapshots EXCEPT ![n] = A!NoBranch]
           /\ A!MergeFails(n) => live' \in Map /\ state' \in Map /\ snapshots' = snapshots
<1>1. live \in Map /\ state \in Map /\ snapshots[n] \in Map \cup {A!NoBranch}
  BY DEF AgentInv, AgentTypes
<1>2. ASSUME A!branch_merge(n)
      PROVE  live' \in Map /\ state' \in Map /\ snapshots' = [snapshots EXCEPT ![n] = A!NoBranch]
  BY <1>1, <1>2, MergedType DEF A!branch_merge
<1>3. ASSUME A!MergeFails(n) PROVE live' \in Map /\ state' \in Map /\ snapshots' = snapshots
  <2>1. CASE snapshots[n] = A!NoBranch /\ UNCHANGED << live, state, snapshots >>
    BY <1>1, <2>1
  <2>2. CASE /\ snapshots[n] # A!NoBranch /\ snapshots' = snapshots
             /\ \E k \in {x \in Key : snapshots[n][x] # A!None} : \E done \in SUBSET (Key \ {k}) :
                  /\ live' = A!Merged(snapshots[n], done, live)
                  /\ state' = A!Merged(snapshots[n], done \cup {k}, state)
    BY <1>1, <2>2, MergedType
  <2> QED
    BY <1>3, <2>1, <2>2 DEF A!MergeFails
<1> QED
  BY <1>2, <1>3

LEMMA AgentNext == AgentInv /\ [A!Next]_A!agentVars => AgentInv'
<1> SUFFICES ASSUME AgentInv, [A!Next]_A!agentVars PROVE AgentInv'
  OBVIOUS
<1>0. AgentTypes /\ live \in Map /\ state \in Map /\ writes \in Nat
  BY DEF AgentInv, AgentTypes
<1>a. ASSUME A!Fresh PROVE writes' \in Nat /\ writes' = writes + 1
  BY <1>0, <1>a DEF A!Fresh
<1>1. ASSUME NEW k \in Key, A!put(k) \/ A!delete(k) PROVE AgentInv'
  <2>1. /\ A!Fresh /\ snapshots' = snapshots /\ shared' = shared /\ A!AgentsKeep
        /\ \E v \in {writes', A!None} : live' = [live EXCEPT ![k] = v] /\ state' = [state EXCEPT ![k] = v]
    BY <1>1 DEF A!put, A!delete
  <2>2. writes' \in Nat /\ A!None \in Nat
    BY <1>a, <2>1 DEF A!None
  <2>3. live' \in Map /\ state' \in Map
    BY <1>0, <2>1, <2>2 DEF Map
  <2> QED
    BY <2>1, <2>2, <2>3, MainWritten
<1>2. ASSUME A!load PROVE AgentInv'
  <2>1. A!Fresh /\ snapshots' = snapshots /\ shared' = shared /\ A!AgentsKeep
    BY <1>2 DEF A!load
  <2>2. live' \in Map /\ state' \in Map
    BY <1>2, <1>a, <2>1 DEF A!load, Map
  <2> QED
    BY <1>a, <2>1, <2>2, MainWritten
<1>3. ASSUME NEW n \in Name, A!snapshot(n) PROVE AgentInv'
  <2>1. /\ snapshots' = [snapshots EXCEPT ![n] = state] /\ A!Touch(n, {}) /\ A!AgentsKeep
        /\ live' = live /\ state' = state /\ writes' = writes
    BY <1>3 DEF A!snapshot
  <2> QED
    BY <1>0, <2>1, BranchReplaced, Zenon
<1>4. ASSUME NEW n \in Name, A!restore(n) PROVE AgentInv'
  <2>1. /\ snapshots[n] # A!NoBranch /\ state' = snapshots[n] /\ live' = live /\ writes' = writes
        /\ snapshots' = snapshots /\ shared' = shared /\ A!AgentsKeep
    BY <1>4 DEF A!restore
  <2>2. state' \in Map
    BY <1>0, <2>1 DEF AgentTypes
  <2> QED
    BY <1>0, <2>1, <2>2, MainWritten
<1>5. ASSUME NEW n \in Name, NEW from \in Name, A!branch(n, from) PROVE AgentInv'
  <2>1. /\ snapshots' = [snapshots EXCEPT ![n] = snapshots[from]] /\ A!Touch(n, {}) /\ A!AgentsKeep
        /\ live' = live /\ state' = state /\ writes' = writes
    BY <1>5 DEF A!branch
  <2>2. snapshots[from] \in Map \cup {A!NoBranch}
    BY <1>0 DEF AgentTypes
  <2> QED
    BY <1>0, <2>1, <2>2, BranchReplaced, Zenon
<1>6. ASSUME NEW n \in Name, A!merge_to_main(n) PROVE AgentInv'
  <2>1. CASE A!branch_merge(n) /\ A!Touch(n, {}) /\ A!AgentsKeep /\ writes' = writes
    <3>1. live' \in Map /\ state' \in Map /\ snapshots' = [snapshots EXCEPT ![n] = A!NoBranch]
      BY <2>1, MergeTypes
    <3> QED
      BY <1>0, <2>1, <3>1, BranchReplaced, Zenon
  <2>2. CASE A!MergeFails(n) /\ A!AgentsKeep /\ shared' = shared /\ writes' = writes
    <3>1. live' \in Map /\ state' \in Map /\ snapshots' = snapshots
      BY <2>2, MergeTypes
    <3> QED
      BY <1>0, <2>2, <3>1, MainWritten
  <2> QED
    BY <1>6, <2>1, <2>2 DEF A!merge_to_main
<1>7. ASSUME NEW h \in Handle, NEW n \in Name, A!agent(h, n) PROVE AgentInv'
  BY <1>7, AgentStarts
<1>8. ASSUME NEW h \in Handle, NEW k \in Key, A!agent_put(h, k) PROVE AgentInv'
  <2>1. /\ agentPhase[h] = "active" /\ A!Branch(h) # A!NoBranch /\ A!Fresh /\ A!Touch(name[h], {h})
        /\ snapshots' = [snapshots EXCEPT ![name[h]] = [@ EXCEPT ![k] = writes']]
        /\ own' = [own EXCEPT ![h] = [@ EXCEPT ![k] = writes']]
        /\ UNCHANGED << live, state, name, agentPhase, base >>
    BY <1>8 DEF A!agent_put
  <2>2. PICK v \in Nat : v = writes'
    BY <1>a, <2>1
  <2> QED
    BY <1>a, <2>1, <2>2, AgentWritesKey, Zenon
<1>9. ASSUME NEW h \in Handle, A!agent_load(h) PROVE AgentInv'
  <2> DEFINE b == [k \in Key |-> writes']
  <2>1. /\ agentPhase[h] = "active" /\ A!Fresh /\ A!Touch(name[h], {h})
        /\ snapshots' = [snapshots EXCEPT ![name[h]] = b] /\ own' = [own EXCEPT ![h] = b]
        /\ UNCHANGED << live, state, name, agentPhase, base >>
    BY <1>9 DEF A!agent_load
  <2>2. b \in Map /\ b \in [Key -> Int]
    BY <1>a, <2>1 DEF Map
  <2>3. b = [k \in Key |-> IF b[k] = A!NoWrite THEN base[h][k] ELSE b[k]]
    BY <1>a, <2>1 DEF A!NoWrite
  <2> HIDE DEF b
  <2> QED
    BY <1>a, <2>1, <2>2, <2>3, AgentWrites, Zenon
<1>10. ASSUME NEW h \in Handle, NEW k \in Key, A!agent_delete(h, k) PROVE AgentInv'
  <2>1. /\ agentPhase[h] # "new" /\ A!Branch(h) # A!NoBranch /\ A!Fresh /\ A!Touch(name[h], {h})
        /\ snapshots' = [snapshots EXCEPT ![name[h]] = [@ EXCEPT ![k] = A!None]]
        /\ own' = IF agentPhase[h] = "active" THEN [own EXCEPT ![h] = [@ EXCEPT ![k] = A!None]] ELSE own
        /\ UNCHANGED << live, state, name, agentPhase, base >>
    BY <1>10 DEF A!agent_delete
  <2>2. A!None \in Nat
    BY DEF A!None
  <2>3. CASE agentPhase[h] = "active"
    <3>1. own' = [own EXCEPT ![h] = [@ EXCEPT ![k] = A!None]]
      BY <2>1, <2>3
    <3> QED
      BY <1>a, <2>1, <2>2, <2>3, <3>1, AgentWritesKey, Zenon
  <2>4. CASE agentPhase[h] # "active"
    <3> DEFINE b == [snapshots[name[h]] EXCEPT ![k] = A!None]
    <3>1. name[h] \in Name /\ snapshots[name[h]] \in Map /\ own[h] \in [Key -> Int]
      BY <1>0, <2>1 DEF AgentInv, AgentTypes, Named, A!Branch
    <3>2. b \in Map /\ snapshots' = [snapshots EXCEPT ![name[h]] = b]
      BY <2>1, <2>2, <3>1 DEF Map
    <3>3. own' = [own EXCEPT ![h] = own[h]]
      BY <1>0, <2>1, <2>4 DEF AgentTypes
    <3> HIDE DEF b
    <3> QED
      BY <1>a, <2>1, <2>4, <3>1, <3>2, <3>3, AgentWrites, Zenon
  <2> QED
    BY <2>3, <2>4
<1>11. ASSUME NEW h \in Handle, A!commit(h) \/ A!exit(h) PROVE AgentInv'
  <2>0. agentPhase[h] = "active" /\ name[h] \in Name
    BY <1>11 DEF A!commit, A!exit, AgentInv, Named
  <2>1. CASE A!branch_merge(name[h]) /\ A!Touch(name[h], {h}) /\ A!Finish(h, "committed")
    <3>1. live' \in Map /\ state' \in Map /\ snapshots' = [snapshots EXCEPT ![name[h]] = A!NoBranch]
      BY <2>0, <2>1, MergeTypes
    <3> QED
      BY <2>0, <2>1, <3>1, Finished, Zenon
  <2>2. CASE A!MergeFails(name[h]) /\ A!AgentsKeep /\ shared' = shared /\ writes' = writes
    <3>1. live' \in Map /\ state' \in Map /\ snapshots' = snapshots
      BY <2>0, <2>2, MergeTypes
    <3> QED
      BY <1>0, <2>2, <3>1, MainWritten
  <2>3. CASE A!MergeFails(name[h]) /\ A!Finish(h, "failed") /\ shared' = shared
    <3>1. live' \in Map /\ state' \in Map /\ snapshots' = snapshots
      BY <2>0, <2>3, MergeTypes
    <3> QED
      BY <2>0, <2>3, <3>1, Finished
  <2> QED
    BY <1>11, <2>1, <2>2, <2>3 DEF A!commit, A!exit
<1>12. ASSUME NEW h \in Handle, A!discard(h) PROVE AgentInv'
  <2>1. /\ agentPhase[h] = "active" /\ snapshots' = [snapshots EXCEPT ![name[h]] = A!NoBranch]
        /\ A!Touch(name[h], {h}) /\ A!Finish(h, "discarded") /\ live' = live /\ state' = state
    BY <1>12 DEF A!discard
  <2> QED
    BY <1>0, <2>1, Finished, Zenon
<1>13. CASE UNCHANGED A!agentVars
  <2>1. A!AgentsKeep /\ snapshots' = snapshots /\ shared' = shared /\ live' = live /\ state' = state /\ writes' = writes
    BY <1>13 DEF A!agentVars, A!AgentsKeep
  <2> QED
    BY <1>0, <2>1, MainWritten
<1> QED
  BY <1>1, <1>2, <1>3, <1>4, <1>5, <1>6, <1>7, <1>8, <1>9, <1>10, <1>11, <1>12, <1>13 DEF A!Next

LEMMA AgentInvariance == A!Spec => []AgentInv
  BY AgentInit, AgentNext, PTL DEF A!Spec

(***************************************************************************)
(* For any number of agents, names and keys: an agent whose name nothing   *)
(* else uses reads its own writes on top of the state it started from, and *)
(* what is in neither from main (Agent.get over Engine::branch).           *)
(***************************************************************************)
THEOREM AgentReadsOwn == A!Spec => []A!AgentReads
<1>1. AgentInv => A!AgentReads
  <2> SUFFICES ASSUME AgentInv, NEW h \in Handle, agentPhase[h] = "active", ~shared[h]
               PROVE  /\ A!Branch(h) = A!Written(h)
                      /\ \A k \in Key : A!agent_get(h, k) = IF A!Written(h)[k] # A!None THEN A!Written(h)[k] ELSE live[k]
    BY DEF A!AgentReads
  <2>1. A!Branch(h) = A!Written(h)
    BY DEF AgentInv, Apart
  <2>2. ASSUME NEW k \in Key PROVE A!Branch(h) # A!NoBranch
    <3>1. DOMAIN A!Branch(h) = Key
      BY <2>1 DEF A!Written
    <3>2. DOMAIN A!NoBranch = {}
      BY DEF A!NoBranch
    <3> QED
      BY <3>1, <3>2
  <2> QED
    BY <2>1, <2>2 DEF A!agent_get
<1> QED
  BY <1>1, AgentInvariance, PTL

(***************************************************************************)
(* When such an agent commits, by commit or at the end of its context,     *)
(* main has every value of its branch and no other key changes; and a merge*)
(* changes the keys that branch_diff lists with a value of the branch      *)
(* (Engine::branch_merge, Engine::branch_diff).                            *)
(***************************************************************************)
THEOREM CommitsApply == A!Spec => A!CommitApplies
<1>1. AgentInv /\ [A!Next]_A!agentVars => A!CommitStep
  <2> SUFFICES ASSUME AgentInv, [A!Next]_A!agentVars PROVE A!CommitStep
    OBVIOUS
  <2>0. AgentTypes
    BY DEF AgentInv
  <2>1. ASSUME NEW h \in Handle, agentPhase[h] = "active", agentPhase'[h] = "committed", ~shared[h], NEW k \in Key
        PROVE  live'[k] = IF A!Written(h)[k] # A!None THEN A!Written(h)[k] ELSE live[k]
    <3>1. A!Branch(h) = A!Written(h)
      BY <2>1 DEF AgentInv, Apart
    <3>2. agentPhase' # agentPhase
      BY <2>1
    <3>3. \E g \in Handle, how \in {"active", "committed", "discarded", "failed"} :
            /\ agentPhase' = [agentPhase EXCEPT ![g] = how]
            /\ how = "committed" => A!branch_merge(name[g])
      BY <3>2, Zenon DEF A!Next, A!agentVars, A!put, A!delete, A!load, A!snapshot, A!restore, A!branch, A!merge_to_main,
                  A!agent, A!agent_put, A!agent_load, A!agent_delete, A!commit, A!discard, A!exit, A!Finish, A!AgentsKeep
    <3>4. A!branch_merge(name[h])
      BY <2>0, <2>1, <3>3 DEF AgentTypes
    <3>5. live' = A!Merged(A!Branch(h), Key, live)
      BY <3>4 DEF A!branch_merge, A!Branch
    <3> QED
      BY <3>1, <3>5 DEF A!Merged
  <2>2. ASSUME NEW n \in Name, A!branch_merge(n)
        PROVE  {k \in Key : state'[k] # state[k]} = {d.key : d \in {x \in A!branch_diff(n) : x.branch # A!None}}
    <3> DEFINE b    == snapshots[n]
               R(k) == [key |-> k, main |-> state[k], branch |-> b[k]]
    <3>1. state' = A!Merged(b, Key, state)
      BY <2>2 DEF A!branch_merge
    <3>2. \A k \in Key : state'[k] # state[k] <=> b[k] # A!None /\ b[k] # state[k]
      BY <3>1 DEF A!Merged
    <3>3. A!branch_diff(n) = {R(k) : k \in {x \in Key : b[x] # state[x]}}
      BY DEF A!branch_diff
    <3>4. \A k \in Key : R(k).key = k /\ R(k).branch = b[k]
      OBVIOUS
    <3> HIDE DEF b, R
    <3> QED
      BY <3>2, <3>3, <3>4
  <2> QED
    BY <2>1, <2>2 DEF A!CommitStep
<1> QED
  BY <1>1, AgentInvariance, PTL DEF A!Spec, A!CommitApplies

-----------------------------------------------------------------------------
CONSTANTS Session, Record, Payload, MaxRecords, Letter
VARIABLES payloads, arecs, damaged

S == INSTANCE AgentStore

-----------------------------------------------------------------------------
(***************************************************************************)
(* The agent payloads.                                                     *)
(*                                                                         *)
(* Session keys are any strings.  A step is a number and a type one of the *)
(* names of RecordType, so neither is a separator.                         *)
(***************************************************************************)
StoreConstants ==
    /\ S!Separator \in Letter
    /\ Session \subseteq Seq(Letter)
    /\ Record \subseteq [step : Letter \ {S!Separator}, type : Letter \ {S!Separator}, id : Letter]
    /\ Payload \subseteq Seq(Record)
    /\ MaxRecords \in Nat

(***************************************************************************)
(* The record keys are those of some session, and those of a session that  *)
(* is not damaged are the ones of its payload.                             *)
(***************************************************************************)
StoreTypes ==
    /\ DOMAIN payloads \subseteq Session /\ \A s \in DOMAIN payloads : payloads[s] \in Seq(Record)
    /\ \A k \in arecs : \E s \in Session, r \in Record : k = S!rec_key(s, r)

Due(s) == IF S!Stored(s) THEN S!RecKeys(s, payloads[s]) ELSE {}

StoreInv == StoreTypes /\ \A s \in Session : s \notin damaged => S!OwnKeys(s) = Due(s)

-----------------------------------------------------------------------------
\* The letters of a record key.
LEMMA KeyLetters ==
    ASSUME StoreConstants, NEW s \in Session, NEW r \in Record
    PROVE  LET k == S!rec_key(s, r)
           IN  /\ s \in Seq(Letter) /\ Len(s) \in Nat
               /\ k \in Seq(Letter) /\ Len(k) = Len(s) + 6
               /\ \A i \in 1 .. Len(s) : k[i] = s[i]
               /\ k[Len(s) + 1] = S!Separator /\ k[Len(s) + 3] = S!Separator /\ k[Len(s) + 5] = S!Separator
               /\ k[Len(s) + 2] = r.step /\ k[Len(s) + 4] = r.type /\ k[Len(s) + 6] = r.id
<1> DEFINE tail == << S!Separator, r.step, S!Separator, r.type, S!Separator, r.id >>
           k    == s \o tail
<1>1. s \in Seq(Letter) /\ r.step \in Letter /\ r.type \in Letter /\ r.id \in Letter /\ S!Separator \in Letter
  BY DEF StoreConstants
<1>2. /\ tail \in Seq(Letter) /\ Len(tail) = 6
      /\ tail[1] = S!Separator /\ tail[2] = r.step /\ tail[3] = S!Separator
      /\ tail[4] = r.type /\ tail[5] = S!Separator /\ tail[6] = r.id
  BY <1>1
<1> HIDE DEF tail
<1>3. /\ k \in Seq(Letter) /\ Len(s) \in Nat /\ Len(k) = Len(s) + 6
      /\ \A i \in 1 .. Len(k) : k[i] = IF i <= Len(s) THEN s[i] ELSE tail[i - Len(s)]
  <2>1. s \in Seq(Letter) /\ tail \in Seq(Letter) /\ Len(tail) = 6 /\ Len(s) \in Nat
    BY <1>1, <1>2, LenProperties
  <2>2. /\ k \in Seq(Letter) /\ Len(k) = Len(s) + Len(tail)
        /\ \A i \in 1 .. Len(s) + Len(tail) : k[i] = IF i <= Len(s) THEN s[i] ELSE tail[i - Len(s)]
    BY <2>1, ConcatProperties, Zenon
  <2> HIDE DEF k
  <2> QED
    BY <2>1, <2>2
<1> HIDE DEF k
<1>4. \A i \in 1 .. Len(s) : k[i] = s[i]
  BY <1>3
<1>5. \A i \in 1 .. 6 : k[Len(s) + i] = tail[i]
  <2> TAKE i \in 1 .. 6
  <2>1. Len(s) + i \in 1 .. Len(k) /\ ~(Len(s) + i <= Len(s)) /\ (Len(s) + i) - Len(s) = i
    BY <1>3
  <2> QED
    BY <1>3, <2>1
<1>6. S!rec_key(s, r) = k
  BY DEF S!rec_key, k, tail
<1>7. /\ k[Len(s) + 1] = tail[1] /\ k[Len(s) + 2] = tail[2] /\ k[Len(s) + 3] = tail[3]
      /\ k[Len(s) + 4] = tail[4] /\ k[Len(s) + 5] = tail[5] /\ k[Len(s) + 6] = tail[6]
  BY <1>5
<1> QED
  BY <1>1, <1>2, <1>3, <1>4, <1>6, <1>7, Zenon

\* What it is for a string to start with another, letter by letter.
LEMMA StartsLetters ==
    ASSUME NEW p \in Seq(Letter), NEW k \in Seq(Letter)
    PROVE  S!StartsWith(p, k) <=> Len(p) <= Len(k) /\ \A i \in 1 .. Len(p) : k[i] = p[i]
<1>1. Len(p) \in Nat /\ Len(k) \in Nat
  BY LenProperties
<1>2. ASSUME Len(p) <= Len(k)
      PROVE  /\ SubSeq(k, 1, Len(p)) \in Seq(Letter) /\ Len(SubSeq(k, 1, Len(p))) = Len(p)
             /\ \A i \in 1 .. Len(p) : SubSeq(k, 1, Len(p))[i] = k[i]
  BY <1>1, <1>2
<1>3. ASSUME Len(p) <= Len(k)
      PROVE  SubSeq(k, 1, Len(p)) = p <=> \A i \in 1 .. Len(p) : k[i] = p[i]
  <2> DEFINE q == SubSeq(k, 1, Len(p))
  <2>1. q \in Seq(Letter) /\ Len(q) = Len(p) /\ \A i \in 1 .. Len(p) : q[i] = k[i]
    BY <1>2, <1>3
  <2> HIDE DEF q
  <2>2. q = p <=> \A i \in 1 .. Len(p) : q[i] = p[i]
    BY <1>1, <2>1, SeqEqual
  <2> QED
    BY <2>1, <2>2 DEF q
<1> QED
  BY <1>3 DEF S!StartsWith

\* A record key tells its session and its record's fields.
LEMMA KeysDiffer ==
    ASSUME StoreConstants, NEW s \in Session, NEW t \in Session, NEW r \in Record, NEW q \in Record,
           S!rec_key(s, r) = S!rec_key(t, q)
    PROVE  s = t /\ r.type = q.type
<1>1. Len(s) = Len(t) /\ Len(s) \in Nat
  BY KeyLetters
<1>2. s \in Seq(Letter) /\ t \in Seq(Letter) /\ \A i \in 1 .. Len(s) : s[i] = t[i]
  <2>1. \A i \in 1 .. Len(s) : S!rec_key(s, r)[i] = s[i]
    BY KeyLetters
  <2>2. \A i \in 1 .. Len(t) : S!rec_key(t, q)[i] = t[i]
    BY KeyLetters
  <2> QED
    BY <1>1, <2>1, <2>2, KeyLetters
<1>3. s = t
  BY <1>1, <1>2, SeqEqual
<1>4. r.type = S!rec_key(s, r)[Len(s) + 4] /\ q.type = S!rec_key(t, q)[Len(t) + 4]
  BY KeyLetters
<1> QED
  BY <1>1, <1>3, <1>4

\* A record key starts with another session's key only if one of the two keys
\* starts with the other, the shorter one continued with a separator if it is the record's.
LEMMA KeyStarts ==
    ASSUME StoreConstants, NEW s \in Session, NEW t \in Session, NEW r \in Record,
           S!StartsWith(s, S!rec_key(t, r))
    PROVE  S!StartsWith(s, t) \/ S!Continues(s, t)
<1> DEFINE k == S!rec_key(t, r)
<1>1. /\ s \in Seq(Letter) /\ t \in Seq(Letter) /\ k \in Seq(Letter)
      /\ Len(s) \in Nat /\ Len(t) \in Nat /\ k[Len(t) + 1] = S!Separator
      /\ \A i \in 1 .. Len(t) : k[i] = t[i]
  BY KeyLetters
<1>2. \A i \in 1 .. Len(s) : k[i] = s[i]
  BY <1>1, StartsLetters
<1> HIDE DEF k
<1>3. CASE Len(s) <= Len(t)
  <2>1. \A i \in 1 .. Len(s) : t[i] = s[i]
    BY <1>1, <1>2, <1>3
  <2> QED
    BY <1>1, <1>3, <2>1, StartsLetters
<1>4. CASE Len(t) < Len(s)
  <2> DEFINE p == Append(t, S!Separator)
  <2>1. /\ p \in Seq(Letter) /\ Len(p) = Len(t) + 1 /\ p[Len(t) + 1] = S!Separator
        /\ \A i \in 1 .. Len(t) : p[i] = t[i]
    BY <1>1, AppendProperties DEF StoreConstants
  <2> HIDE DEF p
  <2>2. \A i \in 1 .. Len(p) : s[i] = p[i]
    <3> TAKE i \in 1 .. Len(p)
    <3>1. i \in 1 .. Len(t) \/ i = Len(t) + 1
      BY <1>1, <2>1
    <3>2. i \in 1 .. Len(s)
      BY <1>1, <1>4, <2>1
    <3> QED
      BY <1>1, <1>2, <2>1, <3>1, <3>2
  <2>3. S!StartsWith(p, s)
    BY <1>1, <1>4, <2>1, <2>2, StartsLetters
  <2> QED
    BY <1>1, <1>4, <2>3 DEF S!Continues, p
<1> QED
  BY <1>1, <1>3, <1>4

\* A record key starts with its session's key.
LEMMA KeyStartsOwn ==
    ASSUME StoreConstants, NEW s \in Session, NEW r \in Record
    PROVE  S!StartsWith(s, S!rec_key(s, r)) /\ S!StartsWith(Append(s, S!Separator), S!rec_key(s, r))
<1> DEFINE k == S!rec_key(s, r)
           p == Append(s, S!Separator)
<1>1. /\ s \in Seq(Letter) /\ k \in Seq(Letter) /\ Len(s) \in Nat /\ Len(k) = Len(s) + 6
      /\ k[Len(s) + 1] = S!Separator /\ \A i \in 1 .. Len(s) : k[i] = s[i]
  BY KeyLetters
<1>2. /\ p \in Seq(Letter) /\ Len(p) = Len(s) + 1 /\ p[Len(s) + 1] = S!Separator
      /\ \A i \in 1 .. Len(s) : p[i] = s[i]
  BY <1>1, AppendProperties DEF StoreConstants
<1> HIDE DEF k, p
<1>3. \A i \in 1 .. Len(p) : k[i] = p[i]
  <2> TAKE i \in 1 .. Len(p)
  <2>1. i \in 1 .. Len(s) \/ i = Len(s) + 1
    BY <1>1, <1>2
  <2> QED
    BY <1>1, <1>2, <2>1
<1>4. S!StartsWith(s, k) /\ S!StartsWith(p, k)
  BY <1>1, <1>2, <1>3, StartsLetters
<1> QED
  BY <1>4 DEF k, p

\* The part of a string that is one letter.
LEMMA OneLetter ==
    ASSUME NEW k \in Seq(Letter), NEW m \in 1 .. Len(k)
    PROVE  SubSeq(k, m, m) = << k[m] >>
<1>1. Len(k) \in Nat /\ m \in Nat /\ m >= 1 /\ m <= Len(k) /\ m \in 1 .. Len(k) + 1
  BY LenProperties
<1>2. /\ SubSeq(k, m, m) \in Seq(Letter) /\ Len(SubSeq(k, m, m)) = 1
      /\ SubSeq(k, m, m)[1] = k[m]
  BY <1>1
<1>3. ASSUME NEW q \in Seq(Letter), Len(q) = 1 PROVE q = << q[1] >>
  BY <1>3
<1> QED
  BY <1>2, <1>3, Zenon

\* The type segment of a record key whose session key has no separator is the record's type.
LEMMA SegmentIsType ==
    ASSUME StoreConstants, NEW s \in Session, NEW r \in Record, NEW x,
           \A i \in 1 .. Len(s) : s[i] # S!Separator
    PROVE  S!TypeSegment(S!rec_key(s, r), << x >>) <=> x = r.type
<1> DEFINE k == S!rec_key(s, r)
           n == Len(s)
<1>1. /\ k \in Seq(Letter) /\ n \in Nat /\ Len(k) = n + 6 /\ \A i \in 1 .. n : k[i] # S!Separator
      /\ k[n + 1] = S!Separator /\ k[n + 3] = S!Separator /\ k[n + 5] = S!Separator /\ k[n + 4] = r.type
  BY KeyLetters, Zenon
<1>2. k[n + 2] # S!Separator /\ k[n + 4] # S!Separator
  BY KeyLetters DEF StoreConstants
<1> HIDE DEF k, n
<1>3. S!SecondSeparator(k, n + 3)
  <2>1. \A l \in 1 .. (n + 3) - 1 : k[l] = S!Separator <=> l = n + 1
    <3> TAKE l \in 1 .. (n + 3) - 1
    <3>1. l \in 1 .. n \/ l = n + 1 \/ l = n + 2
      BY <1>1
    <3>2. l \in 1 .. n => l # n + 1
      BY <1>1
    <3>3. n + 2 # n + 1
      BY <1>1
    <3> QED
      BY <1>1, <1>2, <3>1, <3>2, <3>3
  <2>2. n + 1 \in 1 .. (n + 3) - 1
    BY <1>1
  <2>3. {l \in 1 .. (n + 3) - 1 : k[l] = S!Separator} = {n + 1}
    BY <2>1, <2>2
  <2> QED
    BY <1>1, <2>2, <2>3 DEF S!SecondSeparator
<1>4. ASSUME NEW i \in 1 .. n + 6, S!SecondSeparator(k, i) PROVE i = n + 3
  <2>1. PICK j \in 1 .. i - 1 : {l \in 1 .. i - 1 : k[l] = S!Separator} = {j}
    BY <1>4 DEF S!SecondSeparator
  <2>2. k[i] = S!Separator /\ k[j] = S!Separator /\ \A l \in 1 .. i - 1 : k[l] = S!Separator => l = j
    BY <1>4, <2>1 DEF S!SecondSeparator
  <2>3. ~(i \in 1 .. n) /\ i # n + 2 /\ i # n + 4
    BY <1>1, <1>2, <2>2
  <2>4. i # n + 1
    <3>1. ASSUME i = n + 1 PROVE j \in 1 .. n
      BY <1>1, <3>1
    <3> QED
      BY <1>1, <2>2, <3>1
  <2>5. ~(n + 3 < i)
    <3>1. ASSUME n + 3 < i PROVE n + 1 \in 1 .. i - 1 /\ n + 3 \in 1 .. i - 1 /\ n + 1 # n + 3
      BY <1>1, <3>1
    <3> QED
      BY <1>1, <2>2, <3>1
  <2> QED
    BY <1>1, <2>3, <2>4, <2>5
<1>5. SubSeq(k, (n + 3) + 1, (n + 5) - 1) = << r.type >>
  <2>1. n + 4 \in 1 .. Len(k) /\ (n + 3) + 1 = n + 4 /\ (n + 5) - 1 = n + 4
    BY <1>1
  <2>2. SubSeq(k, n + 4, n + 4) = << k[n + 4] >>
    BY <1>1, <2>1, OneLetter
  <2> QED
    BY <1>1, <2>1, <2>2
<1>6. ASSUME NEW end \in 1 .. (n + 6) + 1, n + 3 < end, end <= n + 6 => k[end] = S!Separator,
             \A l \in (n + 3) + 1 .. end - 1 : k[l] # S!Separator
      PROVE  end = n + 5
  <2>1. end # n + 4
    <3>1. n + 4 <= n + 6
      BY <1>1
    <3> QED
      BY <1>2, <1>6, <3>1
  <2>2. ~(n + 5 < end)
    <3>1. ASSUME n + 5 < end PROVE n + 5 \in (n + 3) + 1 .. end - 1
      BY <1>1, <3>1
    <3> QED
      BY <1>1, <1>6, <3>1
  <2> QED
    BY <1>1, <1>6, <2>1, <2>2
<1>7. ASSUME S!TypeSegment(k, << x >>) PROVE x = r.type
  <2>1. PICK i \in 1 .. n + 6, end \in 1 .. (n + 6) + 1 :
          /\ S!SecondSeparator(k, i) /\ i < end
          /\ end <= n + 6 => k[end] = S!Separator
          /\ \A l \in i + 1 .. end - 1 : k[l] # S!Separator
          /\ << x >> = SubSeq(k, i + 1, end - 1)
    BY <1>1, <1>7 DEF S!TypeSegment
  <2>2. i = n + 3
    BY <1>4, <2>1
  <2>3. end = n + 5
    BY <1>6, <2>1, <2>2
  <2>4. << x >> = << r.type >>
    BY <1>5, <2>1, <2>2, <2>3, Zenon
  <2> QED
    BY <2>4
<1>8. S!TypeSegment(k, << r.type >>)
  <2>1. /\ n + 3 \in 1 .. n + 6 /\ n + 5 \in 1 .. (n + 6) + 1 /\ n + 3 < n + 5
        /\ \A l \in (n + 3) + 1 .. (n + 5) - 1 : l = n + 4
    BY <1>1
  <2>2. \A l \in (n + 3) + 1 .. (n + 5) - 1 : k[l] # S!Separator
    BY <1>2, <2>1
  <2> QED
    BY <1>1, <1>3, <1>5, <2>1, <2>2 DEF S!TypeSegment
<1> QED
  BY <1>7, <1>8 DEF k

-----------------------------------------------------------------------------
LEMMA StoreInit == S!Init => StoreInv
<1> SUFFICES ASSUME S!Init PROVE StoreInv
  OBVIOUS
<1>1. DOMAIN payloads = {} /\ arecs = {}
  BY DEF S!Init
<1> QED
  BY <1>1 DEF StoreInv, StoreTypes, Due, S!OwnKeys, S!Stored

\* The keys of records that belong to a session.
LEMMA RecKeysOwn ==
    ASSUME StoreConstants, NEW s \in Session, NEW records \in Seq(Record)
    PROVE  /\ \A k \in S!RecKeys(s, records) : \E r \in Record : k = S!rec_key(s, r)
           /\ \A t \in Session, r \in Record : t # s => S!rec_key(t, r) \notin S!RecKeys(s, records)
<1>1. \A i \in DOMAIN records : records[i] \in Record
  OBVIOUS
<1> QED
  BY <1>1, KeysDiffer DEF S!RecKeys

\* A call for a session that writes its payload and some of its record keys.
LEMMA Written ==
    ASSUME StoreConstants, StoreInv, NEW s \in Session, NEW records \in Seq(Record), NEW keys,
           keys \subseteq S!RecKeys(s, records),
           payloads' = S!With(s, records), arecs' = arecs \cup keys, damaged \subseteq damaged',
           s \notin damaged' =>
             /\ keys = S!RecKeys(s, records)
             /\ S!Stored(s) => S!RecKeys(s, payloads[s]) \subseteq S!RecKeys(s, records)
    PROVE  StoreInv'
<1>1. StoreTypes'
  <2>1. DOMAIN payloads' = DOMAIN payloads \cup {s} /\ payloads'[s] = records
        /\ \A t \in DOMAIN payloads : t # s => payloads'[t] = payloads[t]
    BY DEF S!With
  <2>2. \A k \in keys : \E r \in Record : k = S!rec_key(s, r)
    BY RecKeysOwn
  <2> QED
    BY <2>1, <2>2 DEF StoreInv, StoreTypes
<1>2. ASSUME NEW t \in Session, t \notin damaged' PROVE (S!OwnKeys(t) = Due(t))'
  <2>0. S!OwnKeys(t) = Due(t)
    BY <1>2 DEF StoreInv
  <2>1. CASE t # s
    <3>1. S!OwnKeys(t)' = S!OwnKeys(t)
      BY <2>1, RecKeysOwn DEF S!OwnKeys
    <3>2. Due(t)' = Due(t)
      BY <2>1 DEF Due, S!Stored, S!With
    <3> QED
      BY <2>0, <3>1, <3>2
  <2>2. CASE t = s
    <3>1. S!OwnKeys(s) \subseteq S!RecKeys(s, records)
      BY <1>2, <2>0, <2>2 DEF Due
    <3>2. S!OwnKeys(s)' = S!RecKeys(s, records)
      BY <1>2, <2>2, <3>1, RecKeysOwn DEF S!OwnKeys
    <3>3. Due(s)' = S!RecKeys(s, records)
      BY DEF Due, S!Stored, S!With, S!RecKeys
    <3> QED
      BY <2>2, <3>2, <3>3
  <2> QED
    BY <2>1, <2>2
<1> QED
  BY <1>1, <1>2 DEF StoreInv

\* A call that deletes a session's payload and record keys that start with its key.
LEMMA Deleted ==
    ASSUME StoreConstants, StoreInv, NEW s \in Session, NEW gone,
           gone \subseteq S!scan(s),
           payloads' = S!Without(s), arecs' = arecs \ gone,
           damaged \cup S!Sharing(s) \subseteq damaged' \cup {s},
           s \notin damaged' => gone = S!scan(s)
    PROVE  StoreInv'
<1>0. DOMAIN payloads' = DOMAIN payloads \ {s} /\ \A t \in DOMAIN payloads \ {s} : payloads'[t] = payloads[t]
  BY DEF S!Without
<1>1. StoreTypes'
  BY <1>0 DEF StoreInv, StoreTypes
<1>2. ASSUME NEW t \in Session, t \notin damaged' PROVE (S!OwnKeys(t) = Due(t))'
  <2>1. CASE t # s
    <3>1. t \notin damaged /\ t \notin S!Sharing(s)
      BY <1>2, <2>1
    <3>2. S!OwnKeys(t) = Due(t)
      BY <3>1 DEF StoreInv
    <3>3. Due(t)' = Due(t)
      BY <1>0, <2>1, Zenon DEF Due, S!Stored, S!RecKeys
    <3>4. S!OwnKeys(t) \cap gone = {}
      <4> SUFFICES ASSUME NEW k \in S!OwnKeys(t), k \in gone PROVE FALSE
        OBVIOUS
      <4>1. PICK r \in Record : k = S!rec_key(t, r)
        BY DEF S!OwnKeys
      <4>2. S!StartsWith(s, t) \/ S!Continues(s, t)
        BY <4>1, KeyStarts DEF S!scan
      <4>3. S!Stored(t)
        BY <3>2 DEF Due
      <4> QED
        BY <2>1, <3>1, <4>2, <4>3 DEF S!Sharing, S!Stored
    <3>5. S!OwnKeys(t)' = S!OwnKeys(t)
      BY <3>4 DEF S!OwnKeys
    <3> QED
      BY <3>2, <3>3, <3>5
  <2>2. CASE t = s
    <3>1. gone = S!scan(s)
      BY <1>2, <2>2
    <3>2. S!OwnKeys(s)' = {}
      BY <3>1, KeyStartsOwn DEF S!OwnKeys, S!scan
    <3>3. Due(s)' = {}
      BY <1>0 DEF Due, S!Stored
    <3> QED
      BY <2>2, <3>2, <3>3
  <2> QED
    BY <2>1, <2>2
<1> QED
  BY <1>1, <1>2 DEF StoreInv

LEMMA StoreNext ==
    ASSUME StoreConstants, StoreInv, [S!Next]_S!storeVars
    PROVE  StoreInv'
<1>1. ASSUME NEW s \in Session, NEW records \in Seq(Record), S!store_payload(s, records) PROVE StoreInv'
  <2>1. /\ payloads' = S!With(s, records) /\ arecs' = arecs \cup S!RecKeys(s, records)
        /\ damaged' = IF S!Stored(s) /\ ~(S!RecKeys(s, payloads[s]) \subseteq S!RecKeys(s, records))
                      THEN damaged \cup {s} ELSE damaged
    BY <1>1 DEF S!store_payload
  <2>2. damaged \subseteq damaged'
        /\ (s \notin damaged' /\ S!Stored(s) => S!RecKeys(s, payloads[s]) \subseteq S!RecKeys(s, records))
    BY <2>1
  <2> QED
    BY <2>1, <2>2, Written
<1>2. ASSUME NEW s \in Session, NEW records \in Seq(Record), NEW n \in 0 .. MaxRecords,
             S!store_payload_fails(s, records, n)
      PROVE  StoreInv'
  <2> DEFINE keys == S!RecKeys(s, SubSeq(records, 1, n))
  <2>1. /\ n < Len(records) /\ payloads' = S!With(s, records) /\ arecs' = arecs \cup keys
        /\ damaged' = damaged \cup {s}
    BY <1>2 DEF S!store_payload_fails
  <2>2. keys \subseteq S!RecKeys(s, records)
    <3>1. n \in Nat /\ Len(records) \in Nat
      BY LenProperties DEF StoreConstants
    <3>2. \A i \in DOMAIN SubSeq(records, 1, n) : i \in DOMAIN records /\ SubSeq(records, 1, n)[i] = records[i]
      BY <2>1, <3>1
    <3> QED
      BY <3>2 DEF S!RecKeys
  <2> HIDE DEF keys
  <2> QED
    BY <2>1, <2>2, Written
<1>3. ASSUME NEW s \in Session, NEW r \in Record, S!append_records(s, r) PROVE StoreInv'
  <2> DEFINE records == Append(IF S!Stored(s) THEN S!load_payload(s) ELSE << >>, r)
  <2>1. records \in Seq(Record)
    <3>1. (IF S!Stored(s) THEN S!load_payload(s) ELSE << >>) \in Seq(Record)
      BY DEF StoreInv, StoreTypes, S!Stored, S!load_payload
    <3> QED
      BY <3>1, AppendProperties
  <2>2. S!store_payload(s, records) \/ \E n \in 0 .. MaxRecords : S!store_payload_fails(s, records, n)
    BY <1>3 DEF S!append_records
  <2> HIDE DEF records
  <2> QED
    BY <1>1, <1>2, <2>1, <2>2
<1>4. ASSUME NEW s \in Session, S!delete_payload(s) PROVE StoreInv'
  <2>1. /\ payloads' = S!Without(s) /\ arecs' = arecs \ S!scan(s)
        /\ damaged' = (damaged \ {s}) \cup S!Sharing(s)
    BY <1>4 DEF S!delete_payload
  <2>2. damaged \cup S!Sharing(s) \subseteq damaged' \cup {s}
    BY <2>1
  <2> QED
    BY <2>1, <2>2, Deleted
<1>5. ASSUME NEW s \in Session, S!delete_payload_fails(s) PROVE StoreInv'
  <2>1. PICK gone \in SUBSET S!scan(s) :
          /\ payloads' = S!Without(s) /\ arecs' = arecs \ gone
          /\ damaged' = damaged \cup {s} \cup S!Sharing(s)
    BY <1>5 DEF S!delete_payload_fails
  <2>2. damaged \cup S!Sharing(s) \subseteq damaged' \cup {s} /\ s \in damaged'
    BY <2>1
  <2> QED
    BY <2>1, <2>2, Deleted
<1>6. CASE UNCHANGED S!storeVars
  BY <1>6 DEF StoreInv, StoreTypes, Due, S!storeVars, S!OwnKeys, S!Stored, S!RecKeys
<1>7. Payload \subseteq Seq(Record)
  BY DEF StoreConstants
<1> QED
  BY <1>1, <1>2, <1>3, <1>4, <1>5, <1>6, <1>7 DEF S!Next

\* What a query by type finds for a session whose key has no separator.
LEMMA QueryExact ==
    ASSUME StoreConstants, StoreInv, NEW s \in Session, s \notin damaged, NEW type,
           \A i \in 1 .. Len(s) : s[i] # S!Separator
    PROVE  S!QueryFinds(s, type)
<1>0. S!OwnKeys(s) = Due(s)
  BY DEF StoreInv
<1>1. S!TypeKeys(s, type) \subseteq S!get_records_by_type(s, type)
  <2> SUFFICES ASSUME NEW k \in S!TypeKeys(s, type) PROVE k \in S!get_records_by_type(s, type)
    OBVIOUS
  <2>1. S!Stored(s) /\ \E i \in DOMAIN payloads[s] : payloads[s][i].type = type /\ k = S!rec_key(s, payloads[s][i])
    BY DEF S!TypeKeys
  <2>2. PICK i \in DOMAIN payloads[s] : payloads[s][i].type = type /\ k = S!rec_key(s, payloads[s][i])
    BY <2>1
  <2>3. payloads[s][i] \in Record
    BY <2>1 DEF StoreInv, StoreTypes, S!Stored
  <2>4. k \in arecs
    BY <1>0, <2>1, <2>2 DEF Due, S!RecKeys, S!OwnKeys
  <2>5. S!StartsWith(Append(s, S!Separator), k) /\ S!TypeSegment(k, << type >>)
    BY <2>2, <2>3, KeyStartsOwn, SegmentIsType
  <2> QED
    BY <2>4, <2>5 DEF S!get_records_by_type, S!scan
<1>2. ASSUME NEW k \in S!get_records_by_type(s, type), k \notin S!TypeKeys(s, type)
      PROVE  \E t \in Session, r \in Record : S!Continues(t, s) /\ k = S!rec_key(t, r)
  <2>1. k \in arecs /\ S!StartsWith(Append(s, S!Separator), k) /\ S!TypeSegment(k, << type >>)
    BY <1>2 DEF S!get_records_by_type, S!scan
  <2>2. PICK t \in Session, r \in Record : k = S!rec_key(t, r)
    BY <2>1, Zenon DEF StoreInv, StoreTypes
  <2>3. t # s
    <3> SUFFICES ASSUME t = s PROVE FALSE
      OBVIOUS
    <3>1. r.type = type
      BY <2>1, <2>2, SegmentIsType
    <3>2. k \in Due(s)
      BY <1>0, <2>1, <2>2 DEF S!OwnKeys
    <3>3. S!Stored(s) /\ \E i \in DOMAIN payloads[s] : k = S!rec_key(s, payloads[s][i])
      BY <3>2 DEF Due, S!RecKeys
    <3>4. PICK i \in DOMAIN payloads[s] : k = S!rec_key(s, payloads[s][i])
      BY <3>3
    <3>5. payloads[s][i] \in Record
      BY <3>3 DEF StoreInv, StoreTypes, S!Stored
    <3>6. payloads[s][i].type = type
      <4>1. PICK q \in Record : q = payloads[s][i]
        BY <3>5
      <4>2. S!rec_key(s, r) = S!rec_key(s, q)
        BY <2>2, <3>4, <4>1
      <4>3. r.type = q.type
        BY <4>2, KeysDiffer
      <4> QED
        BY <3>1, <4>1, <4>3
    <3> QED
      BY <1>2, <3>3, <3>4, <3>6 DEF S!TypeKeys
  <2>4. S!StartsWith(Append(s, S!Separator), t)
    <3> DEFINE p == Append(s, S!Separator)
    <3>1. /\ s \in Seq(Letter) /\ t \in Seq(Letter) /\ k \in Seq(Letter) /\ Len(s) \in Nat /\ Len(t) \in Nat
          /\ k[Len(t) + 1] = S!Separator /\ \A i \in 1 .. Len(t) : k[i] = t[i]
      BY <2>2, KeyLetters
    <3>2. /\ p \in Seq(Letter) /\ Len(p) = Len(s) + 1 /\ \A i \in 1 .. Len(s) : p[i] = s[i]
      <4>1. s \in Seq(Letter) /\ S!Separator \in Letter
        BY <3>1 DEF StoreConstants
      <4> QED
        BY <4>1, AppendProperties
    <3>3. \A i \in 1 .. Len(p) : k[i] = p[i]
      BY <2>1, <3>1, <3>2, StartsLetters, Zenon
    <3> HIDE DEF p
    <3>4. ~(Len(t) < Len(s))
      <4>1. ASSUME Len(t) < Len(s) PROVE Len(t) + 1 \in 1 .. Len(s) /\ Len(t) + 1 \in 1 .. Len(p)
        BY <3>1, <3>2, <4>1
      <4> QED
        BY <3>1, <3>2, <3>3, <4>1
    <3>5. Len(t) # Len(s)
      <4> SUFFICES ASSUME Len(t) = Len(s) PROVE FALSE
        OBVIOUS
      <4>1. \A i \in 1 .. Len(s) : i \in 1 .. Len(p)
        BY <3>1, <3>2
      <4>2. \A i \in 1 .. Len(s) : t[i] = s[i]
        BY <3>1, <3>2, <3>3, <4>1
      <4> QED
        BY <2>3, <3>1, <4>2, SeqEqual
    <3>6. Len(p) <= Len(t)
      BY <3>1, <3>2, <3>4, <3>5
    <3>7. \A i \in 1 .. Len(p) : t[i] = p[i]
      BY <3>1, <3>2, <3>3, <3>6
    <3> QED
      BY <3>1, <3>2, <3>6, <3>7, StartsLetters, Zenon DEF p
  <2> QED
    BY <2>2, <2>3, <2>4 DEF S!Continues
<1> QED
  BY <1>1, <1>2 DEF S!QueryFinds

\* The recent records are the last ones.
LEMMA RecentExact ==
    ASSUME StoreInv, NEW s \in Session, S!Stored(s), NEW limit \in Nat
    PROVE  S!RecentFinds(s, limit)
<1> DEFINE p == payloads[s]
           n == Len(p)
<1>1. p \in Seq(Record) /\ n \in Nat
  BY LenProperties DEF StoreInv, StoreTypes, S!Stored
<1>2. CASE n <= limit
  <2>1. S!get_recent_records(s, limit) = p
    BY <1>2 DEF S!get_recent_records
  <2>2. \A i \in 1 .. n : (n - n) + i = i
    BY <1>1
  <2> QED
    BY <1>1, <2>1, <2>2 DEF S!RecentFinds
<1>3. CASE limit < n
  <2> DEFINE q == SubSeq(p, n - limit + 1, n)
  <2>1. S!get_recent_records(s, limit) = q
    BY <1>1, <1>3 DEF S!get_recent_records
  <2>2. Len(q) = limit /\ \A i \in 1 .. limit : q[i] = p[(n - limit) + i]
    BY <1>1, <1>3
  <2> HIDE DEF q, n
  <2>3. n - Len(q) >= 0 /\ \A i \in 1 .. Len(q) : q[i] = p[(n - Len(q)) + i]
    BY <1>1, <1>3, <2>2
  <2> QED
    BY <2>1, <2>2, <2>3 DEF S!RecentFinds, n
<1> QED
  BY <1>1, <1>2, <1>3

(***************************************************************************)
(* For any sessions and records: the record keys of a session that no      *)
(* failure and no delete of a session with a related key has touched are   *)
(* those of its payload, a query by type finds all records of the type, and*)
(* what it finds besides are records of sessions that continue the key with*)
(* a separator (store_payload, append_records, delete_payload and          *)
(* get_records_by_type).                                                   *)
(***************************************************************************)
THEOREM SessionRecords ==
    ASSUME StoreConstants
    PROVE  S!Spec => []S!RecordsAgree
<1>1. StoreInv /\ [S!Next]_S!storeVars => StoreInv'
  BY StoreNext
<1>2. StoreInv => S!RecordsAgree
  <2> SUFFICES ASSUME StoreInv PROVE S!RecordsAgree
    OBVIOUS
  <2>1. \A limit \in 1 .. MaxRecords : limit \in Nat
    BY DEF StoreConstants
  <2> QED
    BY <2>1, QueryExact, RecentExact DEF S!RecordsAgree, StoreInv, Due
<1> QED
  BY <1>1, <1>2, StoreInit, PTL DEF S!Spec
=============================================================================
