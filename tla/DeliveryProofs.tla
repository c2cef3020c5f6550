--------------------------- MODULE DeliveryProofs ---------------------------
(***************************************************************************)
(* Proofs about Delivery for every number of connections and requests and  *)
(* every capacity of the send channels.                                    *)
(***************************************************************************)
EXTENDS Delivery, FiniteSetTheorems, SequenceTheorems, TLAPS

(* What the writer has in hand, and what it has counted is still queued:   *)
(* nobody else receives.  A peer that reads one value per frame     *)
(* loses the others, so that it is sent all is said of one that does not.  *)
WritersOK ==
  \A c \in Clients :
    /\ writer[c] = "select" => frame[c] = <<>>
    /\ writer[c] \in {"count", "drain"} => frame[c] # <<>>
    /\ writer[c] = "drain" => left[c] <= Len(queue[c])
    /\ ~OnePerFrame => /\ writer[c] # "ended" => Stream(c) = made[c]
                       /\ IsPrefix(got[c], made[c])

(* A reader has one frame in hand, its last.                               *)
OffersOK ==
  /\ \A o \in offers : o.n = asked[o.client] /\ o.client \notin refusing
  /\ \A o, p \in offers : o.client = p.client => o = p
  /\ hub # Idle =>
       /\ hub.n <= asked[hub.client]
       /\ hub.n = asked[hub.client] => hub.client \notin refusing
       /\ \A o \in offers : o.client = hub.client => hub.n < o.n

(* Frames are answered in made, or under way.                              *)
Replied(s, k) == \E i \in DOMAIN s : s[i].type # "push" /\ s[i].n = k
FramesOK ==
  \A c \in Clients : \A k \in 1 .. asked[c] :
    \/ Replied(made[c], k)
    \/ c \in refusing /\ k = asked[c]
    \/ \E o \in offers : o.client = c /\ o.n = k
    \/ hub.at = "reply" /\ hub.client = c /\ hub.n = k

(* Whatever was made is older than the frames that wait for an answer; a   *)
(* refusal may be newer than the request the hub is busy with.             *)
Older(x, c) == /\ x.n <= asked[c]
               /\ c \in refusing => x.n < asked[c]
               /\ \A o \in offers : o.client = c => x.n < o.n
MadeOK ==
  \A c \in Clients : \A i \in DOMAIN made[c] :
    LET x == made[c][i] IN
    /\ x.type # "push" =>
         Older(x, c) /\ (hub.at = "reply" /\ hub.client = c => x.n # hub.n)
    /\ x.type = "response" =>
         (hub.at = "reply" /\ hub.client = c => x.n < hub.n)
    /\ x.type = "push" =>
         Older(x, x.client) /\ (hub # Idle /\ hub.client = x.client => x.n < hub.n)

(* The hub pushes after it replied; what is said of the members is what    *)
(* they have been told, but for the reply that is on its way.              *)
HubOK ==
  /\ hub.at = "push" => \E i \in DOMAIN made[hub.client] :
                          made[hub.client][i].type = "response" /\ made[hub.client][i].n = hub.n
  /\ hub.at = "reply" => members = Changed(told, hub.what, user[hub.client])
  /\ hub.at # "reply" => members = told

(* What is under way was stamped, and the pushes made are from before.     *)
Earlier(x) == /\ x.createdAt <= clock
              /\ \A o \in offers : o.client = x.client => x.createdAt < o.createdAt
              /\ hub # Idle /\ hub.client = x.client => x.createdAt < hub.createdAt
StampsOK ==
  /\ \A o \in offers : o.createdAt \in 1 .. clock
  /\ hub # Idle => /\ hub.createdAt \in 1 .. clock
                   /\ \A o \in offers : o.client = hub.client => hub.createdAt < o.createdAt
  /\ \A c \in Clients : \A i \in DOMAIN made[c] : made[c][i].type = "push" => Earlier(made[c][i])

IInv == /\ TypeOK /\ WritersOK /\ OffersOK /\ FramesOK /\ MadeOK /\ HubOK /\ StampsOK
        /\ ReplyOrder /\ ReplyBeforePush /\ PushOrder

USE SendCapAssumption, MaxRequestsAssumption, OnePerFrameAssumption

-----------------------------------------------------------------------------
(* Sequences.                                                              *)

(* A message moves from the queue into the frame.                          *)
LEMMA MoveHead ==
  ASSUME NEW S, NEW s \in Seq(S), NEW q \in Seq(S), q # <<>>
  PROVE  Append(s, Head(q)) \o Tail(q) = s \o q
<1>1. Head(q) \in S /\ Tail(q) \in Seq(S) /\ <<Head(q)>> \in Seq(S)
  BY HeadTailProperties
<1>2. <<Head(q)>> \o Tail(q) = q
  BY SubSeqRecursiveFirst, TailIsSubSeq, SubSeqFull, HeadTailProperties, EmptySeq, LenProperties
<1>3. Append(s, Head(q)) = s \o <<Head(q)>>
  BY <1>1, AppendIsConcat
<1> QED BY <1>1, <1>2, <1>3, ConcatAssociative

LEMMA AppendConcat ==
  ASSUME NEW S, NEW s \in Seq(S), NEW q \in Seq(S), NEW x \in S
  PROVE  s \o Append(q, x) = Append(s \o q, x)
<1>1. <<x>> \in Seq(S) /\ s \o q \in Seq(S)
  BY ConcatProperties
<1>2. s \o Append(q, x) = s \o (q \o <<x>>)
  BY AppendIsConcat
<1>3. (s \o q) \o <<x>> = s \o (q \o <<x>>)
  BY <1>1, ConcatAssociative
<1>4. Append(s \o q, x) = (s \o q) \o <<x>>
  BY <1>1, AppendIsConcat
<1> QED BY <1>2, <1>3, <1>4

LEMMA PrefixElements ==
  ASSUME NEW S, NEW s \in Seq(S), NEW t \in Seq(S)
  PROVE  IsPrefix(s, t) <=> Len(s) <= Len(t) /\ \A i \in 1 .. Len(s) : s[i] = t[i]
<1>1. Len(s) \in Nat /\ Len(t) \in Nat /\ SubSeq(s, 1, Len(s)) = s
  BY LenProperties, SubSeqFull
<1>2. ASSUME Len(s) <= Len(t)
      PROVE  /\ SubSeq(t, 1, Len(s)) \in Seq(S) /\ Len(SubSeq(t, 1, Len(s))) = Len(s)
             /\ \A i \in 1 .. Len(s) : SubSeq(t, 1, Len(s))[i] = t[i]
  <2>1. \A i \in 1 .. Len(s) : t[i] \in S
    BY <1>1, <1>2, ElementOfSeq
  <2> QED BY <1>1, <2>1, SubSeqProperties
<1>3. ASSUME Len(s) <= Len(t), \A i \in 1 .. Len(s) : s[i] = t[i]
      PROVE  s = SubSeq(t, 1, Len(s))
  BY <1>1, <1>2, <1>3, SeqEqual
<1> QED BY <1>1, <1>2, <1>3 DEF IsPrefix

LEMMA PrefixOfConcat ==
  ASSUME NEW S, NEW s \in Seq(S), NEW t \in Seq(S)
  PROVE  IsPrefix(s, s \o t)
<1>1. /\ s \o t \in Seq(S) /\ Len(s \o t) = Len(s) + Len(t) /\ Len(s) \in Nat /\ Len(t) \in Nat
      /\ \A i \in 1 .. Len(s) + Len(t) : (s \o t)[i] = IF i <= Len(s) THEN s[i] ELSE t[i - Len(s)]
  BY ConcatProperties, LenProperties
<1>2. Len(s) <= Len(s \o t) /\ \A i \in 1 .. Len(s) : s[i] = (s \o t)[i]
  BY <1>1
<1> QED BY <1>1, <1>2, PrefixElements

LEMMA PrefixAppend ==
  ASSUME NEW S, NEW s \in Seq(S), NEW t \in Seq(S), NEW x \in S, IsPrefix(s, t)
  PROVE  IsPrefix(s, Append(t, x))
<1>1. /\ Append(t, x) \in Seq(S) /\ Len(Append(t, x)) = Len(t) + 1
      /\ Len(s) \in Nat /\ Len(t) \in Nat
      /\ \A i \in 1 .. Len(t) : Append(t, x)[i] = t[i]
  BY AppendProperties, LenProperties
<1>2. Len(s) <= Len(t) /\ \A i \in 1 .. Len(s) : s[i] = t[i]
  BY PrefixElements
<1>3. Len(s) <= Len(Append(t, x)) /\ \A i \in 1 .. Len(s) : s[i] = Append(t, x)[i]
  BY <1>1, <1>2
<1> QED BY <1>1, <1>3, PrefixElements

-----------------------------------------------------------------------------
(* What is put into send channels: x, into those of "to".                  *)

Added(q, to, x) == [c \in Clients |-> IF c \in to THEN Append(q[c], x) ELSE q[c]]
Put(to, x) == /\ \A c \in to : HasRoom(c)
              /\ queue' = Added(queue, to, x)
              /\ made' = Added(made, to, x)
              /\ UNCHANGED writers

LEMMA SendIsPut ==
  ASSUME TypeOK, NEW c \in Clients, NEW x, Send(c, x), UNCHANGED writers
  PROVE  Put({c}, x)
BY DEF Send, Put, Added, TypeOK

LEMMA PutType ==
  ASSUME TypeOK, NEW to \in SUBSET Clients, NEW x \in Item, Put(to, x)
  PROVE  /\ queue' \in [Clients -> Seq(Item)] /\ \A c \in Clients : Len(queue'[c]) <= SendCap
         /\ made' \in [Clients -> Seq(Item)]
<1>1. \A c \in Clients : /\ Append(queue[c], x) \in Seq(Item)
                         /\ Len(Append(queue[c], x)) = Len(queue[c]) + 1
                         /\ Append(made[c], x) \in Seq(Item) /\ Len(queue[c]) \in Nat
  BY AppendProperties, LenProperties DEF TypeOK
<1>2. \A c \in to : Len(queue[c]) + 1 <= SendCap
  BY <1>1 DEF Put, HasRoom
<1> QED BY <1>1, <1>2 DEF Put, Added, TypeOK

(* What was made, message by message.                                      *)
Grown(to, x) ==
  \A c \in Clients :
    /\ Len(made[c]) \in Nat
    /\ DOMAIN made[c] = 1 .. Len(made[c])
    /\ DOMAIN made'[c] = 1 .. Len(made'[c])
    /\ \A i \in 1 .. Len(made[c]) : made'[c][i] = made[c][i] /\ made[c][i] \in Item
    /\ c \notin to => Len(made'[c]) = Len(made[c])
    /\ c \in to => Len(made'[c]) = Len(made[c]) + 1 /\ made'[c][Len(made[c]) + 1] = x

(* A send channel it went into got one message longer, the others did not. *)
LEMMA GrownAt ==
  ASSUME NEW to, NEW x, Grown(to, x), NEW d \in Clients
  PROVE  \/ Len(made'[d]) = Len(made[d])
         \/ Len(made'[d]) = Len(made[d]) + 1 /\ made'[d][Len(made[d]) + 1] = x
<1>1. d \in to => Len(made'[d]) = Len(made[d]) + 1
  BY DEF Grown
<1>2. d \in to => made'[d][Len(made[d]) + 1] = x
  BY DEF Grown
<1>3. d \notin to => Len(made'[d]) = Len(made[d])
  BY DEF Grown
<1> QED BY <1>1, <1>2, <1>3

LEMMA PutGrows ==
  ASSUME TypeOK, NEW to \in SUBSET Clients, NEW x \in Item, Put(to, x)
  PROVE  Grown(to, x)
<1> SUFFICES ASSUME NEW c \in Clients
             PROVE  /\ Len(made[c]) \in Nat
                    /\ DOMAIN made[c] = 1 .. Len(made[c])
                    /\ DOMAIN made'[c] = 1 .. Len(made'[c])
                    /\ \A i \in 1 .. Len(made[c]) : made'[c][i] = made[c][i] /\ made[c][i] \in Item
                    /\ c \notin to => Len(made'[c]) = Len(made[c])
                    /\ c \in to => Len(made'[c]) = Len(made[c]) + 1 /\ made'[c][Len(made[c]) + 1] = x
  BY DEF Grown
<1>1. made'[c] = IF c \in to THEN Append(made[c], x) ELSE made[c]
  BY DEF Put, Added
<1>2. made'[c] \in Seq(Item) /\ made[c] \in Seq(Item)
  BY PutType DEF TypeOK
<1> QED BY <1>1, <1>2, AppendProperties, LenProperties, ElementOfSeq

LEMMA PutWriters ==
  ASSUME TypeOK, WritersOK, NEW to \in SUBSET Clients, NEW x \in Item, Put(to, x)
  PROVE  WritersOK'
<1> SUFFICES ASSUME NEW c \in Clients
             PROVE  /\ writer'[c] = "select" => frame'[c] = <<>>
                    /\ writer'[c] \in {"count", "drain"} => frame'[c] # <<>>
                    /\ writer'[c] = "drain" => left'[c] <= Len(queue'[c])
                    /\ ~OnePerFrame => /\ writer'[c] # "ended" => Stream(c)' = made'[c]
                                       /\ IsPrefix(got'[c], made'[c])
  BY DEF WritersOK
<1>1. UNCHANGED <<frame, left, writer, got>>
  BY DEF Put, writers
<1>2. got[c] \o frame[c] \in Seq(Item) /\ queue[c] \in Seq(Item) /\ got[c] \in Seq(Item) /\ made[c] \in Seq(Item)
  BY ConcatProperties DEF TypeOK
<1>3. CASE c \in to
  <2>1. queue'[c] = Append(queue[c], x) /\ made'[c] = Append(made[c], x)
    BY <1>3 DEF Put, Added
  <2>2. Stream(c)' = Append(Stream(c), x)
    <3>1. (got[c] \o frame[c]) \o Append(queue[c], x) = Append((got[c] \o frame[c]) \o queue[c], x)
      <4> DEFINE s == got[c] \o frame[c]
                 q == queue[c]
      <4>1. s \in Seq(Item) /\ q \in Seq(Item)
        BY <1>2
      <4> HIDE DEF s, q
      <4>2. s \o Append(q, x) = Append(s \o q, x)
        BY <4>1, AppendConcat
      <4> QED BY <4>2 DEF s, q
    <3> QED BY <1>1, <2>1, <3>1 DEF Stream
  <2>3. left[c] <= Len(queue[c]) => left'[c] <= Len(queue'[c])
    BY <1>1, <1>2, <2>1, AppendProperties, LenProperties DEF TypeOK
  <2> QED BY <1>1, <1>2, <2>1, <2>2, <2>3, PrefixAppend DEF WritersOK
<1>4. CASE c \notin to
  <2>1. queue'[c] = queue[c] /\ made'[c] = made[c]
    BY <1>4 DEF Put, Added
  <2> QED BY <1>1, <2>1 DEF WritersOK, Stream
<1> QED BY <1>3, <1>4

-----------------------------------------------------------------------------
(* The writer.                                                             *)

(* What a writer's step is, for the others and for the rest.               *)
LEMMA WriterStep ==
  ASSUME TypeOK, WritersOK, NEW c \in Clients, Write(c) \/ WriterFail(c)
  PROVE  TypeOK' /\ WritersOK'
<1> DEFINE OK(d) == /\ writer'[d] = "select" => frame'[d] = <<>>
                    /\ writer'[d] \in {"count", "drain"} => frame'[d] # <<>>
                    /\ writer'[d] = "drain" => left'[d] <= Len(queue'[d])
                    /\ ~OnePerFrame => /\ writer'[d] # "ended" => Stream(d)' = made'[d]
                                       /\ IsPrefix(got'[d], made'[d])
<1>1. UNCHANGED <<user, members, told, clock, asked, refusing, offers, hub, made>>
  BY DEF Write, WriterReceive, WriterCount, WriterDrain, WriterFlush, WriterFail
<1>2. \A d \in Clients : d # c => /\ queue'[d] = queue[d] /\ frame'[d] = frame[d] /\ left'[d] = left[d]
                                  /\ writer'[d] = writer[d] /\ got'[d] = got[d]
  BY DEF Write, WriterReceive, WriterCount, WriterDrain, WriterFlush, WriterFail, TypeOK
<1>3. ASSUME NEW d \in Clients, d # c PROVE OK(d)
  <2>1. Stream(d)' = Stream(d)
    BY <1>2, <1>3 DEF Stream
  <2> QED BY <1>1, <1>2, <1>3, <2>1 DEF WritersOK
<1>4. /\ queue[c] \in Seq(Item) /\ frame[c] \in Seq(Item) /\ got[c] \in Seq(Item) /\ made[c] \in Seq(Item)
      /\ got[c] \o frame[c] \in Seq(Item) /\ Len(queue[c]) \in Nat /\ Len(queue[c]) <= SendCap
  BY ConcatProperties, LenProperties DEF TypeOK
<1>5. CASE WriterReceive(c)
  <2>1. /\ frame'[c] = <<Head(queue[c])>> /\ queue'[c] = Tail(queue[c]) /\ writer'[c] = "count"
        /\ frame[c] = <<>> /\ queue[c] # <<>> /\ got'[c] = got[c] /\ writer[c] = "select"
    BY <1>5 DEF WriterReceive, TypeOK, WritersOK
  <2>2. /\ Head(queue[c]) \in Item /\ Tail(queue[c]) \in Seq(Item) /\ Len(Tail(queue[c])) = Len(queue[c]) - 1
    BY <1>4, <2>1, HeadTailProperties
  <2>3. Stream(c)' = Stream(c)
    <3>1. Append(got[c], Head(queue[c])) \o Tail(queue[c]) = got[c] \o queue[c]
      BY <1>4, <2>1, MoveHead
    <3>2. got[c] \o <<Head(queue[c])>> = Append(got[c], Head(queue[c]))
      BY <1>4, <2>2, AppendIsConcat
    <3>3. got[c] \o <<>> = got[c]
      BY <1>4, ConcatEmptySeq
    <3> QED BY <2>1, <3>1, <3>2, <3>3 DEF Stream
  <2>4. TypeOK'
    BY <1>1, <1>4, <1>5, <2>2 DEF WriterReceive, TypeOK
  <2>5. OK(c)
    <3>1. <<Head(queue[c])>> # <<>>
      OBVIOUS
    <3> QED BY <1>1, <2>1, <2>3, <3>1 DEF WritersOK
  <2> QED BY <1>3, <2>4, <2>5 DEF WritersOK
<1>6. CASE WriterCount(c)
  <2>1. /\ writer'[c] = "drain" /\ writer[c] = "count" /\ UNCHANGED <<frame, queue, got>>
        /\ left'[c] = Len(queue[c])
    BY <1>6 DEF WriterCount, Queued, TypeOK
  <2>2. TypeOK'
    BY <1>1, <1>4, <1>6 DEF WriterCount, Queued, TypeOK
  <2>3. left'[c] <= Len(queue'[c])
    BY <1>4, <2>1
  <2>4. Stream(c)' = Stream(c) /\ queue'[c] = queue[c]
    BY <2>1 DEF Stream
  <2>5. OK(c)
    BY <1>1, <2>1, <2>3, <2>4 DEF WritersOK
  <2> QED BY <1>3, <2>2, <2>5 DEF WritersOK
<1>7. CASE WriterDrain(c)
  <2>1. /\ frame'[c] = Append(frame[c], Head(queue[c])) /\ queue'[c] = Tail(queue[c])
        /\ queue[c] # <<>> /\ writer'[c] = "drain" /\ writer[c] = "drain" /\ got'[c] = got[c]
    BY <1>7 DEF WriterDrain, AddToFrame, TypeOK
  <2>2. /\ Head(queue[c]) \in Item /\ Tail(queue[c]) \in Seq(Item) /\ Len(Tail(queue[c])) = Len(queue[c]) - 1
        /\ frame'[c] \in Seq(Item) /\ frame'[c] # <<>>
    <3>1. /\ Head(queue[c]) \in Item /\ Tail(queue[c]) \in Seq(Item)
          /\ Len(Tail(queue[c])) = Len(queue[c]) - 1
      BY <1>4, <2>1, HeadTailProperties
    <3>2. frame'[c] \in Seq(Item) /\ frame'[c] # <<>>
      <4> DEFINE q == frame[c]
                 h == Head(queue[c])
      <4>1. q \in Seq(Item) /\ h \in Item /\ frame'[c] = Append(q, h)
        BY <1>4, <2>1, <3>1
      <4> HIDE DEF q, h
      <4> QED BY <4>1, AppendProperties
    <3> QED BY <3>1, <3>2
  <2>3. Stream(c)' = Stream(c)
    <3>1. got[c] \o Append(frame[c], Head(queue[c])) = Append(got[c] \o frame[c], Head(queue[c]))
      <4> DEFINE s == got[c]
                 q == frame[c]
                 h == Head(queue[c])
      <4>1. s \in Seq(Item) /\ q \in Seq(Item) /\ h \in Item
        BY <1>4, <2>2
      <4> HIDE DEF s, q, h
      <4>2. s \o Append(q, h) = Append(s \o q, h)
        BY <4>1, AppendConcat
      <4> QED BY <4>2 DEF s, q, h
    <3>2. Append(got[c] \o frame[c], Head(queue[c])) \o Tail(queue[c]) = (got[c] \o frame[c]) \o queue[c]
      BY <1>4, <2>1, MoveHead
    <3> QED BY <2>1, <3>1, <3>2 DEF Stream
  <2>4. TypeOK'
    <3>1. left' = [left EXCEPT ![c] = left[c] - 1] /\ left[c] > 0
      BY <1>7 DEF WriterDrain
    <3>2. left' \in [Clients -> 0 .. SendCap]
      BY <3>1 DEF TypeOK
    <3>3. queue' \in [Clients -> Seq(Item)] /\ frame' \in [Clients -> Seq(Item)]
      BY <1>7, <2>1, <2>2 DEF WriterDrain, TypeOK
    <3>4. \A d \in Clients : Len(queue'[d]) <= SendCap
      <4> SUFFICES ASSUME NEW d \in Clients PROVE Len(queue'[d]) <= SendCap
        OBVIOUS
      <4>1. CASE d = c
        <5> DEFINE n == Len(queue[c])
                   m == Len(queue'[c])
        <5>1. n \in Nat /\ n <= SendCap /\ m = n - 1
          BY <1>4, <2>1, <2>2
        <5> HIDE DEF n, m
        <5>2. m <= SendCap
          BY <5>1, SendCapAssumption
        <5> QED BY <4>1, <5>2 DEF m
      <4>2. CASE d # c
        BY <1>2, <4>2 DEF TypeOK
      <4> QED BY <4>1, <4>2
    <3>5. writer' \in [Clients -> {"select", "count", "drain", "ended"}] /\ got' \in [Clients -> Seq(Item)]
      BY <1>7 DEF WriterDrain, TypeOK
    <3> QED BY <1>1, <3>2, <3>3, <3>4, <3>5 DEF TypeOK
  <2>5. left'[c] <= Len(queue'[c])
    <3>1. left'[c] = left[c] - 1 /\ left[c] <= Len(queue[c]) /\ left[c] \in Nat
      BY <1>7, <2>1 DEF WriterDrain, WritersOK, TypeOK
    <3> QED BY <1>4, <2>1, <2>2, <3>1
  <2>6. OK(c)
    BY <1>1, <2>1, <2>2, <2>3, <2>5 DEF WritersOK
  <2> QED BY <1>3, <2>4, <2>6 DEF WritersOK
<1>8. CASE WriterFlush(c)
  <2>1. /\ got'[c] = got[c] \o Taken(frame[c]) /\ frame'[c] = <<>> /\ queue'[c] = queue[c]
        /\ writer'[c] = "select" /\ writer[c] = "drain" /\ frame[c] # <<>>
    BY <1>8 DEF WriterFlush, WritersOK, TypeOK
  <2>2. Taken(frame[c]) \in Seq(Item)
    BY <1>4, <2>1, HeadTailProperties DEF Taken
  <2>3. got'[c] \in Seq(Item) /\ <<>> \in Seq(Item)
    BY <1>4, <2>1, <2>2, ConcatProperties, EmptySeq
  <2>4. TypeOK'
    BY <1>1, <1>8, <2>1, <2>3 DEF WriterFlush, TypeOK
  <2>5. ~OnePerFrame => Stream(c)' = made[c] /\ IsPrefix(got'[c], made[c])
    <3> SUFFICES ASSUME ~OnePerFrame PROVE Stream(c)' = made[c] /\ IsPrefix(got'[c], made[c])
      OBVIOUS
    <3>1. got'[c] = got[c] \o frame[c]
      BY <2>1 DEF Taken
    <3>2. made[c] = (got[c] \o frame[c]) \o queue[c]
      BY <2>1 DEF WritersOK, Stream
    <3>3. got'[c] \o <<>> = got'[c]
      BY <2>3, ConcatEmptySeq
    <3>4. Stream(c)' = made[c]
      BY <2>1, <3>1, <3>2, <3>3 DEF Stream
    <3> QED BY <1>4, <3>1, <3>2, <3>4, PrefixOfConcat
  <2>6. OK(c)
    BY <1>1, <2>1, <2>5
  <2> QED BY <1>3, <2>4, <2>6 DEF WritersOK
<1>9. CASE WriterFail(c)
  <2>1. writer'[c] = "ended" /\ got'[c] = got[c]
    BY <1>9 DEF WriterFail, TypeOK
  <2>2. TypeOK'
    BY <1>1, <1>9, EmptySeq DEF WriterFail, TypeOK
  <2>3. OK(c)
    BY <1>1, <2>1 DEF WritersOK
  <2> QED BY <1>3, <2>2, <2>3 DEF WritersOK
<1> QED BY <1>5, <1>6, <1>7, <1>8, <1>9 DEF Write

-----------------------------------------------------------------------------
(* What is said of made, when nothing or one message is added.             *)

(* ReplyOrder, message by message.                                         *)
Unseen(s, j, n) == {k \in 1 .. n - 1 : \A i \in 1 .. j - 1 : s[i].type = "push" \/ s[i].n # k}
OrderedAt(c, s, j) ==
  /\ s[j].type # "push" => /\ s[j].client = c
                           /\ \A i \in 1 .. j - 1 : s[i].type = "push" \/ s[i].n # s[j].n
  /\ s[j].type = "response" => \A i \in 1 .. j - 1 : s[i].type = "response" => s[i].n < s[j].n
  /\ s[j].type = "refusal" => Cardinality(Unseen(s, j, s[j].n)) <= 1

LEMMA ReplyOrderAt ==
  ReplyOrder <=> \A c \in Clients : \A j \in DOMAIN made[c] : OrderedAt(c, made[c], j)
BY DEF ReplyOrder, OrderedAt, Unseen

LEMMA MadeKept ==
  ASSUME UNCHANGED made, ReplyOrder, ReplyBeforePush, PushOrder
  PROVE  ReplyOrder' /\ ReplyBeforePush' /\ PushOrder'
<1>1. ReplyOrder'
  <2>1. SUFFICES ASSUME NEW c \in Clients, NEW j \in DOMAIN made'[c]
                 PROVE  OrderedAt(c, made'[c], j)
    BY DEF ReplyOrder, OrderedAt, Unseen
  <2>2. OrderedAt(c, made[c], j)
    BY DEF ReplyOrder, OrderedAt, Unseen
  <2> QED BY <2>2
<1>2. ReplyBeforePush'
  BY DEF ReplyBeforePush
<1>3. PushOrder'
  BY DEF PushOrder, Before
<1> QED BY <1>1, <1>2, <1>3

LEMMA PutReplyOrder ==
  ASSUME ReplyOrder, NEW to \in SUBSET Clients, NEW x \in Item, Grown(to, x),
         \A c \in to : OrderedAt(c, made'[c], Len(made[c]) + 1)
  PROVE  ReplyOrder'
<1>1. SUFFICES ASSUME NEW c \in Clients, NEW j \in DOMAIN made'[c]
               PROVE  OrderedAt(c, made'[c], j)
  BY DEF ReplyOrder, OrderedAt, Unseen
<1>2. CASE j \in 1 .. Len(made[c])
  <2>1. OrderedAt(c, made[c], j)
    BY <1>2, ReplyOrderAt DEF Grown
  <2>2. \A i \in 1 .. j : made'[c][i] = made[c][i]
    BY <1>2 DEF Grown
  <2>3. Unseen(made'[c], j, made'[c][j].n) = Unseen(made[c], j, made[c][j].n)
    <3>1. \A i \in 1 .. j - 1 : made'[c][i] = made[c][i]
      BY <1>2, <2>2 DEF Grown
    <3>2. made'[c][j] = made[c][j]
      BY <1>2, <2>2 DEF Grown
    <3> QED BY <3>1, <3>2 DEF Unseen
  <2>4. made'[c][j] = made[c][j] /\ \A i \in 1 .. j - 1 : made'[c][i] = made[c][i]
    BY <1>2, <2>2 DEF Grown
  <2> QED BY <2>1, <2>3, <2>4 DEF OrderedAt
<1>3. CASE j \notin 1 .. Len(made[c])
  <2>1. c \in to /\ j = Len(made[c]) + 1
    BY <1>3 DEF Grown
  <2> QED BY <2>1
<1> QED BY <1>2, <1>3

LEMMA PutReplyBeforePush ==
  ASSUME ReplyBeforePush, NEW to \in SUBSET Clients, NEW x \in Item, Grown(to, x),
         x.type = "push" /\ x.client \in to =>
           \E i \in DOMAIN made[x.client] :
             made[x.client][i].type = "response" /\ made[x.client][i].n = x.n
  PROVE  ReplyBeforePush'
<1> SUFFICES ASSUME NEW c \in Clients, NEW j \in DOMAIN made'[c],
                    made'[c][j].type = "push", made'[c][j].client = c
             PROVE  \E i \in 1 .. j - 1 : made'[c][i].type = "response" /\ made'[c][i].n = made'[c][j].n
  BY DEF ReplyBeforePush
<1>1. CASE j \in 1 .. Len(made[c])
  <2>1. PICK i \in 1 .. j - 1 : made[c][i].type = "response" /\ made[c][i].n = made[c][j].n
    <3>1. j \in DOMAIN made[c] /\ made'[c][j] = made[c][j]
      BY <1>1 DEF Grown
    <3> QED BY <3>1 DEF ReplyBeforePush
  <2>2. Len(made[c]) \in Nat /\ made'[c][j] = made[c][j] /\ made'[c][i] = made[c][i]
    BY <1>1, <2>1 DEF Grown
  <2> QED BY <2>1, <2>2
<1>2. CASE j \notin 1 .. Len(made[c])
  <2>1. c \in to /\ j = Len(made[c]) + 1 /\ made'[c][j] = x
    BY <1>2 DEF Grown
  <2>2. PICK i \in DOMAIN made[c] : made[c][i].type = "response" /\ made[c][i].n = x.n
    BY <2>1
  <2>3. i \in 1 .. j - 1 /\ made'[c][i] = made[c][i]
    BY <2>1, <2>2 DEF Grown
  <2> QED BY <2>1, <2>2, <2>3
<1> QED BY <1>1, <1>2

(* A push that nobody has seen yet goes behind all others.                 *)
LEMMA PutPushOrder ==
  ASSUME PushOrder, NEW to \in SUBSET Clients, NEW x \in Item, Grown(to, x),
         x.type = "push" =>
           \A c \in Clients : \A i \in DOMAIN made[c] :
             made[c][i].type = "push" /\ made[c][i].client = x.client =>
               made[c][i].n < x.n /\ (x.createdAt # 0 => made[c][i].createdAt < x.createdAt)
  PROVE  PushOrder'
<1> SUFFICES ASSUME NEW c \in Clients, NEW d \in Clients,
                    NEW i \in DOMAIN made'[c], NEW j \in DOMAIN made'[c], i < j,
                    made'[c][i].type = "push", made'[c][j].type = "push"
             PROVE  /\ ~Before(made'[d], made'[c][j], made'[c][i])
                    /\ made'[c][i].client = made'[c][j].client =>
                         /\ made'[c][i].n < made'[c][j].n
                         /\ made'[c][j].createdAt # 0 => made'[c][i].createdAt < made'[c][j].createdAt
  BY DEF PushOrder, Before
<1> DEFINE y == made'[c][i]
           z == made'[c][j]
<1>1. i \in 1 .. Len(made[c]) /\ y = made[c][i] /\ y \in Item
  <2>1. i \in Nat /\ 1 <= i /\ i < Len(made'[c]) /\ Len(made[c]) \in Nat
    BY DEF Grown
  <2>2. Len(made'[c]) <= Len(made[c]) + 1
    BY <2>1 DEF Grown
  <2>3. i \in 1 .. Len(made[c])
    BY <2>1, <2>2 DEF Grown
  <2> QED BY <2>3 DEF Grown
<1>2. x.type = "push" => \A e \in Clients : \A k \in DOMAIN made[e] : made[e][k] # x
  BY DEF Item
<1>3. y # x
  BY <1>1, <1>2 DEF Grown
<1>4. CASE j \in 1 .. Len(made[c])
  <2>1. /\ z = made[c][j] /\ ~Before(made[d], z, y)
        /\ y.client = z.client => y.n < z.n /\ (z.createdAt # 0 => y.createdAt < z.createdAt)
    BY <1>1, <1>4 DEF PushOrder, Grown
  <2>2. ASSUME Before(made'[d], z, y) PROVE FALSE
    <3>1. PICK k \in DOMAIN made'[d], l \in DOMAIN made'[d] : k < l /\ made'[d][k] = z /\ made'[d][l] = y
      BY <2>2 DEF Before
    <3>2. l \in 1 .. Len(made[d]) /\ k \in 1 .. Len(made[d])
      <4> HIDE DEF y, z
      <4>1. /\ Len(made[d]) \in Nat /\ DOMAIN made'[d] = 1 .. Len(made'[d])
            /\ \/ Len(made'[d]) = Len(made[d])
               \/ Len(made'[d]) = Len(made[d]) + 1 /\ made'[d][Len(made[d]) + 1] = x
        <5>1. Len(made[d]) \in Nat /\ DOMAIN made'[d] = 1 .. Len(made'[d])
          BY DEF Grown
        <5>2. \/ Len(made'[d]) = Len(made[d])
              \/ Len(made'[d]) = Len(made[d]) + 1 /\ made'[d][Len(made[d]) + 1] = x
          BY GrownAt
        <5> QED BY <5>1, <5>2
      <4>2. l # Len(made[d]) + 1 \/ Len(made'[d]) = Len(made[d])
        BY <1>3, <3>1, <4>1
      <4>3. k \in Nat /\ l \in Nat /\ 1 <= k /\ k < l /\ l <= Len(made'[d])
        BY <3>1, <4>1
      <4>4. l <= Len(made[d])
        BY <4>1, <4>2, <4>3
      <4> QED BY <4>1, <4>3, <4>4
    <3>3. /\ k \in DOMAIN made[d] /\ l \in DOMAIN made[d]
          /\ made[d][k] = made'[d][k] /\ made[d][l] = made'[d][l]
      BY <3>2 DEF Grown
    <3> QED BY <2>1, <3>1, <3>3 DEF Before
  <2> QED BY <2>1, <2>2
<1>5. CASE j \notin 1 .. Len(made[c])
  <2>1. z = x /\ x.type = "push"
    BY <1>5 DEF Grown
  <2>2. ASSUME Before(made'[d], z, y) PROVE FALSE
    <3>1. PICK k \in DOMAIN made'[d], l \in DOMAIN made'[d] : k < l /\ made'[d][k] = z /\ made'[d][l] = y
      BY <2>2 DEF Before
    <3>2. k \in 1 .. Len(made[d])
      BY <3>1 DEF Grown
    <3> QED BY <1>2, <2>1, <3>1, <3>2 DEF Grown
  <2> QED BY <1>1, <2>1, <2>2 DEF Grown
<1> QED BY <1>4, <1>5

LEMMA PutReplied ==
  ASSUME NEW to \in SUBSET Clients, NEW x \in Item, Grown(to, x), NEW c \in Clients
  PROVE  /\ \A k : Replied(made[c], k) => Replied(made'[c], k)
         /\ c \in to /\ x.type # "push" => Replied(made'[c], x.n)
<1>1. \A k : Replied(made[c], k) => Replied(made'[c], k)
  BY DEF Replied, Grown
<1>2. c \in to /\ x.type # "push" => Replied(made'[c], x.n)
  BY DEF Replied, Grown
<1> QED BY <1>1, <1>2

(* What is stamped in the future of all pushes, and of x.                  *)
LEMMA PutStamps ==
  ASSUME NEW to \in SUBSET Clients, NEW x \in Item, Grown(to, x), StampsOK,
         UNCHANGED <<clock, offers>>,
         hub' # Idle => hub # Idle /\ hub'.client = hub.client /\ hub'.createdAt = hub.createdAt,
         x.type = "push" => /\ hub' = Idle /\ x.createdAt <= clock
                            /\ \A o \in offers : o.client = x.client => x.createdAt < o.createdAt
  PROVE  StampsOK'
<1>1. hub' # Idle => hub # Idle /\ hub'.client = hub.client /\ hub'.createdAt = hub.createdAt
  OBVIOUS
<1>2. \A y : Earlier(y) => Earlier(y)'
  BY <1>1 DEF Earlier
<1>3. ASSUME NEW c \in Clients, NEW i \in DOMAIN made'[c], NEW y, y = made'[c][i], y.type = "push"
      PROVE  Earlier(y)'
  <2>1. CASE i \in DOMAIN made[c] /\ y = made[c][i]
    BY <1>2, <1>3, <2>1 DEF StampsOK
  <2>2. CASE y = x
    BY <1>3, <2>2 DEF Earlier
  <2>3. (i \in DOMAIN made[c] /\ y = made[c][i]) \/ y = x
    BY <1>3 DEF Grown
  <2> QED BY <2>1, <2>2, <2>3
<1>4. /\ \A o \in offers' : o.createdAt \in 1 .. clock'
      /\ hub' # Idle => /\ hub'.createdAt \in 1 .. clock'
                        /\ \A o \in offers' : o.client = hub'.client => hub'.createdAt < o.createdAt
  BY <1>1 DEF StampsOK
<1> QED BY <1>3, <1>4 DEF StampsOK, Earlier

-----------------------------------------------------------------------------
(* Every step keeps the invariant.                                         *)

(* hub, where it has a request.                                            *)
LEMMA HubType ==
  ASSUME TypeOK
  PROVE  /\ hub = Idle <=> hub.at = "idle"
         /\ hub # Idle => hub.client \in Clients /\ hub.n \in Nat /\ hub \in Hub
         /\ hub.at = "reply" \/ hub.at = "push" => hub # Idle
BY DEF TypeOK, Hub, Idle

LEMMA WriteKeeps ==
  ASSUME IInv, NEW c \in Clients, Write(c) \/ WriterFail(c)
  PROVE  IInv'
<1>1. UNCHANGED <<user, members, told, clock, asked, refusing, offers, hub, made>>
  BY DEF Write, WriterReceive, WriterCount, WriterDrain, WriterFlush, WriterFail
<1>2. TypeOK' /\ WritersOK'
  BY WriterStep DEF IInv
<1>3. OffersOK' /\ HubOK' /\ StampsOK'
  BY <1>1 DEF IInv, OffersOK, HubOK, StampsOK, Earlier
<1>4. FramesOK'
  BY <1>1 DEF IInv, FramesOK, Replied
<1>5. MadeOK'
  BY <1>1 DEF IInv, MadeOK, Older
<1>6. ReplyOrder' /\ ReplyBeforePush' /\ PushOrder'
  BY <1>1, MadeKept DEF IInv
<1> QED BY <1>2, <1>3, <1>4, <1>5, <1>6 DEF IInv

LEMMA ReadKeeps ==
  ASSUME IInv, NEW c \in Clients, Read(c)
  PROVE  IInv'
<1>1. /\ c \notin refusing /\ \A o \in offers : o.client # c
      /\ asked' = [asked EXCEPT ![c] = asked[c] + 1] /\ clock' = clock + 1
      /\ UNCHANGED <<user, members, told, hub, queue, frame, left, writer, got, made>>
  BY DEF Read, Dispatching, writers
<1>2. \/ refusing' = refusing \cup {c} /\ offers' = offers
      \/ /\ \E o \in Offer : /\ o.client = c /\ o.n = asked[c] + 1 /\ o.createdAt = clock + 1
                           /\ offers' = offers \cup {o}
         /\ refusing' = refusing
  <2>1. \/ refusing' = refusing \cup {c} /\ offers' = offers
        \/ /\ \E k \in Requests :
                offers' = offers \cup
                            {[client |-> c, n |-> asked[c] + 1, kind |-> k, createdAt |-> clock + 1]}
           /\ refusing' = refusing
    BY DEF Read, Now
  <2>2. \A k \in Requests :
          [client |-> c, n |-> asked[c] + 1, kind |-> k, createdAt |-> clock + 1] \in Offer
    BY DEF Offer, IInv, TypeOK
  <2> QED BY <2>1, <2>2
<1>3. /\ asked \in [Clients -> Nat] /\ asked'[c] = asked[c] + 1
      /\ \A e \in Clients : e # c => asked'[e] = asked[e]
      /\ \A o \in offers : o.client \in Clients /\ o.n \in Nat
  BY <1>1 DEF IInv, TypeOK, Offer
<1>4. /\ offers \subseteq offers' /\ refusing \subseteq refusing' /\ refusing' \subseteq refusing \cup {c}
      /\ \A o \in offers' : o \in offers \/ (o.client = c /\ o.n = asked[c] + 1 /\ o.createdAt = clock + 1)
      /\ \A o, p \in offers' : o \notin offers /\ p \notin offers => o = p
      /\ c \in refusing' \/ \E o \in offers' : o.client = c /\ o.n = asked[c] + 1
      /\ c \in refusing' => offers' = offers
  <2>1. CASE refusing' = refusing \cup {c} /\ offers' = offers
    BY <1>1, <2>1
  <2>2. ASSUME NEW o \in Offer, o.client = c, o.n = asked[c] + 1, o.createdAt = clock + 1,
               refusing' = refusing, offers' = offers \cup {o}
        PROVE  <1>4!:
    BY <1>1, <2>2
  <2> QED BY <1>2, <2>1, <2>2
<1>5. TypeOK'
  <2>1. clock' \in Nat /\ asked' \in [Clients -> Nat] /\ refusing' \subseteq Clients
    BY <1>1, <1>2 DEF IInv, TypeOK
  <2>2. offers' \subseteq Offer
    BY <1>2 DEF IInv, TypeOK
  <2> QED BY <1>1, <2>1, <2>2 DEF IInv, TypeOK
<1>6. WritersOK'
  BY <1>1 DEF IInv, WritersOK, Stream
<1>7. OffersOK'
  <2>1. \A o \in offers' : o.n = asked'[o.client] /\ o.client \notin refusing'
    BY <1>1, <1>3, <1>4 DEF IInv, OffersOK
  <2>2. \A o, p \in offers' : o.client = p.client => o = p
    BY <1>1, <1>4 DEF IInv, OffersOK
  <2>3. ASSUME hub # Idle
        PROVE  /\ hub.n <= asked'[hub.client]
               /\ hub.n = asked'[hub.client] => hub.client \notin refusing'
               /\ \A o \in offers' : o.client = hub.client => hub.n < o.n
    <3>1. /\ hub.client \in Clients /\ hub.n \in Nat /\ hub.n <= asked[hub.client]
          /\ hub.n = asked[hub.client] => hub.client \notin refusing
          /\ \A o \in offers : o.client = hub.client => hub.n < o.n
      BY <2>3, HubType DEF IInv, OffersOK
    <3> QED BY <1>1, <1>3, <1>4, <3>1
  <2> QED BY <1>1, <2>1, <2>2, <2>3 DEF OffersOK
<1>8. FramesOK'
  <2> SUFFICES ASSUME NEW e \in Clients, NEW k \in 1 .. asked'[e]
               PROVE  \/ Replied(made[e], k)
                      \/ e \in refusing' /\ k = asked'[e]
                      \/ \E o \in offers' : o.client = e /\ o.n = k
                      \/ hub.at = "reply" /\ hub.client = e /\ hub.n = k
    BY <1>1 DEF FramesOK, Replied
  <2>1. CASE e = c /\ k = asked[c] + 1
    BY <1>3, <1>4, <2>1
  <2>2. CASE ~(e = c /\ k = asked[c] + 1)
    <3>1. k \in 1 .. asked[e]
      BY <1>3, <2>2
    <3>2. \/ Replied(made[e], k)
          \/ e \in refusing /\ k = asked[e]
          \/ \E o \in offers : o.client = e /\ o.n = k
          \/ hub.at = "reply" /\ hub.client = e /\ hub.n = k
      BY <3>1 DEF IInv, FramesOK
    <3> QED BY <1>1, <1>3, <1>4, <3>2
  <2> QED BY <2>1, <2>2
<1>9. MadeOK'
  <2>1. ASSUME NEW x \in Item, NEW e \in Clients, Older(x, e) PROVE Older(x, e)'
    <3>1. /\ x.n \in Nat /\ x.n <= asked[e] /\ \A o \in offers : o.client = e => x.n < o.n
          /\ e \in refusing => x.n < asked[e]
      BY <2>1 DEF Older, Item
    <3>2. /\ x.n <= asked'[e] /\ \A o \in offers' : o.client = e => x.n < o.n
          /\ e \in refusing' => x.n < asked'[e]
      BY <1>3, <1>4, <3>1
    <3> QED BY <3>2 DEF Older
  <2>2. \A e \in Clients : \A i \in DOMAIN made[e] : made[e][i] \in Item /\ made[e][i].client \in Clients
    <3> SUFFICES ASSUME NEW e \in Clients, NEW i \in DOMAIN made[e] PROVE made[e][i] \in Item
      BY DEF Item
    <3>1. made[e] \in Seq(Item)
      BY DEF IInv, TypeOK
    <3> QED BY <3>1, ElementOfSeq, LenProperties
  <2> QED BY <1>1, <2>1, <2>2 DEF IInv, MadeOK
<1>10. HubOK'
  BY <1>1 DEF IInv, HubOK
<1>11. ReplyOrder' /\ ReplyBeforePush' /\ PushOrder'
  BY <1>1, MadeKept DEF IInv
<1>12. StampsOK'
  <2>1. clock \in Nat /\ \A o \in offers' : o \in offers \/ (o.client = c /\ o.createdAt = clock + 1)
    BY <1>4 DEF IInv, TypeOK
  <2>2. \A o \in offers' : o.createdAt \in 1 .. clock'
    BY <1>1, <2>1 DEF IInv, StampsOK
  <2>3. ASSUME hub # Idle
        PROVE  /\ hub.createdAt \in 1 .. clock'
               /\ \A o \in offers' : o.client = hub.client => hub.createdAt < o.createdAt
    BY <1>1, <2>1, <2>3 DEF IInv, StampsOK
  <2>4. ASSUME NEW x \in Item, Earlier(x) PROVE Earlier(x)'
    <3>1. x.createdAt \in Nat /\ x.createdAt <= clock
      BY <2>4 DEF Earlier, Item
    <3> QED BY <1>1, <2>1, <2>4, <3>1 DEF Earlier
  <2>5. ASSUME NEW e \in Clients, NEW i \in DOMAIN made[e], NEW x, x = made[e][i], x.type = "push"
        PROVE  Earlier(x)'
    <3>1. made[e] \in Seq(Item) /\ x \in Item
      BY <2>5, ElementOfSeq, LenProperties DEF IInv, TypeOK
    <3> QED BY <2>4, <2>5, <3>1 DEF IInv, StampsOK
  <2> QED BY <1>1, <2>2, <2>3, <2>5 DEF StampsOK, Earlier
<1> QED BY <1>5, <1>6, <1>7, <1>8, <1>9, <1>10, <1>11, <1>12 DEF IInv

LEMMA TakeKeeps ==
  ASSUME IInv, NEW c \in Clients, Take(c)
  PROVE  IInv'
<1>0. PICK o \in offers :
        /\ o.client = c /\ offers' = offers \ {o}
        /\ \E w \in Outcomes(o) :
             /\ hub' = [at |-> Following("idle", w), client |-> c, n |-> o.n, what |-> w,
                         createdAt |-> o.createdAt]
             /\ members' = Changed(members, w, user[c])
  BY DEF Take
<1>1. PICK w \in Outcomes(o) :
        /\ o.client = c /\ offers' = offers \ {o}
        /\ hub' = [at |-> Following("idle", w), client |-> c, n |-> o.n, what |-> w,
                    createdAt |-> o.createdAt]
        /\ members' = Changed(members, w, user[c])
  BY <1>0
<1>2. /\ hub = Idle
      /\ UNCHANGED <<user, told, clock, asked, refusing, queue, frame, left, writer, got, made>>
      /\ hub' = [at |-> "reply", client |-> c, n |-> o.n, what |-> w, createdAt |-> o.createdAt]
  BY <1>1 DEF Take, Following, writers
<1>3. w \in Whats /\ o \in Offer /\ o.n \in Nat /\ o.createdAt \in Nat /\ o.n = asked[c] /\ c \notin refusing
  BY <1>1 DEF IInv, TypeOK, Outcomes, Whats, Offer, OffersOK
<1>4. /\ hub'.at = "reply" /\ hub'.client = c /\ hub'.n = o.n /\ hub'.what = w /\ hub' # Idle
      /\ hub.at = "idle"
  BY <1>2 DEF Idle
<1>5. members' \subseteq members \cup {user[c]}
  BY <1>1 DEF Changed
<1>6. TypeOK'
  <2>1. hub' \in Hub
    BY <1>2, <1>3 DEF Hub
  <2> QED BY <1>1, <1>2, <1>5, <2>1 DEF IInv, TypeOK
<1>7. WritersOK'
  BY <1>2 DEF IInv, WritersOK, Stream
<1>8. OffersOK'
  <2>1. \A p \in offers' : p.client # c
    BY <1>1 DEF IInv, OffersOK
  <2> QED BY <1>1, <1>2, <1>3, <1>4, <2>1 DEF IInv, OffersOK
<1>9. FramesOK'
  <2> SUFFICES ASSUME NEW e \in Clients, NEW k \in 1 .. asked[e]
               PROVE  \/ Replied(made[e], k)
                      \/ e \in refusing /\ k = asked[e]
                      \/ \E p \in offers' : p.client = e /\ p.n = k
                      \/ hub'.at = "reply" /\ hub'.client = e /\ hub'.n = k
    BY <1>2 DEF FramesOK, Replied
  <2>1. \/ Replied(made[e], k)
        \/ e \in refusing /\ k = asked[e]
        \/ \E p \in offers : p.client = e /\ p.n = k
    BY <1>4 DEF IInv, FramesOK
  <2> QED BY <1>1, <1>4, <2>1
<1>10. MadeOK'
  <2> SUFFICES ASSUME NEW e \in Clients, NEW i \in DOMAIN made[e], NEW y, y = made[e][i]
               PROVE  /\ y.type # "push" => Older(y, e)' /\ (e = c => y.n # o.n)
                      /\ y.type = "response" => (e = c => y.n < o.n)
                      /\ y.type = "push" => Older(y, y.client)' /\ (y.client = c => y.n < o.n)
    BY <1>2, <1>4 DEF MadeOK
  <2>1. \A d : Older(y, d) => Older(y, d)' /\ (d = c => y.n < o.n)
    BY <1>1, <1>2 DEF Older
  <2>2. /\ y.type # "push" => Older(y, e)
        /\ y.type = "push" => Older(y, y.client)
    BY DEF IInv, MadeOK
  <2>3. y.n \in Nat
    <3>1. made[e] \in Seq(Item) /\ made[e][i] \in Item
      BY ElementOfSeq, LenProperties DEF IInv, TypeOK
    <3> QED BY <3>1 DEF Item
  <2> QED BY <1>3, <2>1, <2>2, <2>3
<1>11. HubOK'
  <2>1. members = told
    BY <1>4 DEF IInv, HubOK
  <2>2. members' = Changed(told', hub'.what, user'[hub'.client])
    BY <1>1, <1>2, <1>4, <2>1
  <2> QED BY <1>4, <2>2 DEF HubOK, Changed
<1>12. ReplyOrder' /\ ReplyBeforePush' /\ PushOrder'
  BY <1>2, MadeKept DEF IInv
<1>13. StampsOK'
  <2>1. \A p \in offers' : p.client # c /\ p \in offers
    BY <1>1 DEF IInv, OffersOK
  <2>2. o.createdAt \in 1 .. clock /\ hub'.createdAt = o.createdAt
    BY <1>2 DEF IInv, StampsOK
  <2>3. \A x : Earlier(x) => Earlier(x)'
    BY <1>1, <1>2, <1>4, <2>1, <2>2 DEF Earlier
  <2>4. ASSUME NEW e \in Clients, NEW i \in DOMAIN made[e], NEW x, x = made[e][i], x.type = "push"
        PROVE  Earlier(x)'
    BY <2>3, <2>4 DEF IInv, StampsOK
  <2>5. \A p \in offers' : p.createdAt \in 1 .. clock
    BY <2>1 DEF IInv, StampsOK
  <2> QED BY <1>2, <1>4, <2>1, <2>2, <2>4, <2>5 DEF StampsOK, Earlier
<1> QED BY <1>6, <1>7, <1>8, <1>9, <1>10, <1>11, <1>12, <1>13 DEF IInv

(* At most the hub's request is still without an answer when a refusal of  *)
(* the latest frame goes out.                                              *)
LEMMA RefusalOvertakesOne ==
  ASSUME IInv, NEW c \in refusing, NEW to \in SUBSET Clients, NEW x \in Item, Grown(to, x)
  PROVE  Cardinality(Unseen(made'[c], Len(made[c]) + 1, asked[c])) <= 1
<1> DEFINE late == Unseen(made'[c], Len(made[c]) + 1, asked[c])
<1>1. c \in Clients /\ asked[c] \in Nat
  BY DEF IInv, TypeOK
<1>2. \A k \in late : k \in 1 .. asked[c] - 1 /\ ~Replied(made[c], k)
  <2>1. /\ Len(made[c]) \in Nat /\ DOMAIN made[c] = 1 .. Len(made[c])
        /\ \A i \in 1 .. Len(made[c]) : made'[c][i] = made[c][i]
    BY <1>1 DEF Grown
  <2>2. ASSUME NEW k \in late
        PROVE  /\ k \in 1 .. asked[c] - 1
               /\ \A i \in 1 .. Len(made[c]) : made'[c][i].type = "push" \/ made'[c][i].n # k
    BY <2>1, <2>2 DEF Unseen
  <2>3. ASSUME NEW k \in late PROVE ~Replied(made[c], k)
    BY <2>1, <2>2 DEF Replied
  <2> QED BY <2>2, <2>3
<1>3. \A k \in late : hub.at = "reply" /\ k = hub.n
  BY <1>1, <1>2 DEF IInv, FramesOK, OffersOK
<1>4. late \subseteq {hub.n}
  BY <1>3
<1>5. IsFiniteSet({hub.n}) /\ Cardinality({hub.n}) = 1
  BY FS_Singleton
<1>6. Cardinality(late) <= Cardinality({hub.n})
  BY <1>4, <1>5, FS_Subset
<1> QED BY <1>5, <1>6

LEMMA RefusalKeeps ==
  ASSUME IInv, NEW c \in Clients, SendRefusal(c)
  PROVE  IInv'
<1> DEFINE x == Refusal(c, asked[c])
           to == {c}
<1>1. /\ x \in Item /\ x.type = "refusal" /\ x.client = c /\ x.n = asked[c] /\ x.what = "none"
      /\ to \in SUBSET Clients /\ c \in to
  BY DEF Refusal, Item, IInv, TypeOK
<1>2. /\ UNCHANGED <<user, members, told, clock, asked, offers, hub>> /\ UNCHANGED writers
      /\ refusing' = refusing \ {c} /\ c \in refusing
  BY DEF SendRefusal
<1>3. Put(to, x)
  BY <1>2, SendIsPut DEF SendRefusal, IInv
<1> HIDE DEF x, to
<1>4. Grown(to, x)
  BY <1>1, <1>3, PutGrows DEF IInv
<1>5. TypeOK'
  BY <1>1, <1>2, <1>3, PutType DEF IInv, TypeOK, writers
<1>6. WritersOK'
  BY <1>1, <1>3, PutWriters DEF IInv
<1>7. OffersOK'
  BY <1>2 DEF IInv, OffersOK
<1>8. FramesOK'
  <2> SUFFICES ASSUME NEW e \in Clients, NEW k \in 1 .. asked[e]
               PROVE  \/ Replied(made'[e], k)
                      \/ e \in refusing' /\ k = asked[e]
                      \/ \E o \in offers : o.client = e /\ o.n = k
                      \/ hub.at = "reply" /\ hub.client = e /\ hub.n = k
    BY <1>2 DEF FramesOK, Replied
  <2>1. \/ Replied(made[e], k)
        \/ e \in refusing /\ k = asked[e]
        \/ \E o \in offers : o.client = e /\ o.n = k
        \/ hub.at = "reply" /\ hub.client = e /\ hub.n = k
    BY DEF IInv, FramesOK
  <2>2. Replied(made[e], k) => Replied(made'[e], k)
    BY <1>1, <1>4, PutReplied
  <2>3. Replied(made'[c], asked[c])
    BY <1>1, <1>4, PutReplied
  <2> QED BY <1>2, <2>1, <2>2, <2>3
<1>9. MadeOK'
  <2> SUFFICES ASSUME NEW e \in Clients, NEW i \in DOMAIN made'[e], NEW y, y = made'[e][i]
               PROVE  /\ y.type # "push" =>
                           Older(y, e)' /\ (hub.at = "reply" /\ hub.client = e => y.n # hub.n)
                      /\ y.type = "response" =>
                           (hub.at = "reply" /\ hub.client = e => y.n < hub.n)
                      /\ y.type = "push" =>
                           /\ Older(y, y.client)'
                           /\ hub # Idle /\ hub.client = y.client => y.n < hub.n
    BY <1>2 DEF MadeOK
  <2>1. \A z, d : Older(z, d) => Older(z, d)'
    BY <1>2 DEF Older
  <2>2. CASE i \in DOMAIN made[e] /\ y = made[e][i]
    BY <2>1, <2>2 DEF IInv, MadeOK
  <2>3. CASE e = c /\ y = x
    <3>1. /\ hub # Idle /\ hub.client = c => hub.n # asked[c]
          /\ \A o \in offers : o.client # c
      BY <1>2 DEF IInv, OffersOK
    <3>2. Older(y, c)'
      BY <1>1, <1>2, <2>3, <3>1 DEF Older, IInv, TypeOK
    <3> QED BY <1>1, <2>3, <3>1, <3>2, HubType DEF IInv
  <2>4. \/ i \in DOMAIN made[e] /\ made'[e][i] = made[e][i]
        \/ e \in to /\ made'[e][i] = x
    BY <1>4 DEF Grown
  <2> QED BY <1>1, <2>2, <2>3, <2>4 DEF to
<1>10. HubOK'
  <2>1. \A e \in Clients : \A i \in DOMAIN made[e] : i \in DOMAIN made'[e] /\ made'[e][i] = made[e][i]
    BY <1>4 DEF Grown
  <2> QED BY <1>2, <2>1, HubType DEF IInv, HubOK, TypeOK
<1>11. ReplyOrder'
  <2>1. made'[c][Len(made[c]) + 1] = x
    BY <1>1, <1>4 DEF Grown
  <2>2. Cardinality(Unseen(made'[c], Len(made[c]) + 1, x.n)) <= 1
    BY <1>1, <1>2, <1>4, RefusalOvertakesOne
  <2>3. \A i \in 1 .. Len(made[c]) : made'[c][i].type = "push" \/ made'[c][i].n # x.n
    <3> SUFFICES ASSUME NEW i \in 1 .. Len(made[c]), NEW y, y = made[c][i], y.type # "push"
                 PROVE  y.n # x.n
      BY <1>4 DEF Grown
    <3>1. y.n < asked[c]
      BY <1>2, <1>4 DEF IInv, MadeOK, Older, Grown
    <3>2. y.n \in Nat /\ asked[c] \in Nat
      BY <1>4 DEF Grown, Item, IInv, TypeOK
    <3> QED BY <1>1, <3>1, <3>2
  <2>4. Len(made[c]) \in Nat
    BY <1>4 DEF Grown
  <2>5. OrderedAt(c, made'[c], Len(made[c]) + 1)
    BY <1>1, <2>1, <2>2, <2>3, <2>4 DEF OrderedAt
  <2> QED BY <1>1, <1>4, <2>5, PutReplyOrder DEF IInv, to
<1>12. ReplyBeforePush' /\ PushOrder'
  BY <1>1, <1>4, PutReplyBeforePush, PutPushOrder DEF IInv
<1>13. StampsOK'
  BY <1>1, <1>2, <1>4, PutStamps DEF IInv
<1> QED BY <1>5, <1>6, <1>7, <1>8, <1>9, <1>10, <1>11, <1>12, <1>13 DEF IInv

(* What the hub answers or pushes is older than what waits for it.         *)
LEMMA HubIsOlder ==
  ASSUME IInv, hub # Idle, NEW x, x.n = hub.n
  PROVE  Older(x, hub.client)
<1>1. /\ hub.n \in Nat /\ asked[hub.client] \in Nat
      /\ hub.n <= asked[hub.client]
      /\ hub.n = asked[hub.client] => hub.client \notin refusing
      /\ \A o \in offers : o.client = hub.client => hub.n < o.n
  BY HubType DEF IInv, OffersOK, TypeOK
<1> QED BY <1>1 DEF Older

LEMMA ReplyKeeps ==
  ASSUME IInv, Reply
  PROVE  IInv'
<1> DEFINE c == hub.client
           x == Response(hub.client, hub.n, hub.what)
           to == {hub.client}
<1>1. /\ hub.at = "reply" /\ UNCHANGED <<user, members, clock, asked, refusing, offers>> /\ UNCHANGED writers
      /\ told' = Changed(told, hub.what, user[hub.client])
      /\ hub' = IF hub.what = "error" THEN Idle ELSE [hub EXCEPT !.at = "push"]
  BY DEF Reply, GoOn, Following
<1>2. hub # Idle /\ c \in Clients /\ hub.n \in Nat /\ hub \in Hub
  BY <1>1, HubType DEF IInv
<1>3. /\ x \in Item /\ x.type = "response" /\ x.client = c /\ x.n = hub.n /\ x.what = hub.what
      /\ to \in SUBSET Clients /\ c \in to /\ \A e \in to : e = c
  BY <1>2 DEF Response, Item, Hub
<1>4. \/ hub' = Idle /\ hub'.at = "idle" /\ hub.what = "error"
      \/ /\ hub' \in Hub /\ hub'.at = "push" /\ hub'.client = c /\ hub'.n = hub.n /\ hub'.what = hub.what
         /\ hub'.createdAt = hub.createdAt /\ hub' # Idle
  BY <1>1, <1>2 DEF Hub, Idle
<1>5. Put(to, x)
  BY <1>1, <1>2, SendIsPut DEF Reply, SendReply, IInv
<1>6. x.what # "push" /\ hub.what \in Whats
  BY <1>2, <1>3 DEF Hub, Whats
<1>7. told' = members /\ members \subseteq {user[e] : e \in Clients}
  BY <1>1 DEF IInv, HubOK, TypeOK
<1> HIDE DEF x, to, c
<1>9. Grown(to, x)
  BY <1>3, <1>5, PutGrows DEF IInv
<1>10. TypeOK'
  <2>1. told' \subseteq {user'[e] : e \in Clients} /\ members' \subseteq {user'[e] : e \in Clients}
    BY <1>1, <1>7
  <2>2. hub' \in Hub \cup {Idle}
    BY <1>4
  <2>3. /\ queue' \in [Clients -> Seq(Item)] /\ made' \in [Clients -> Seq(Item)]
        /\ \A e \in Clients : Len(queue'[e]) <= SendCap
    BY <1>3, <1>5, PutType DEF IInv
  <2> QED BY <1>1, <2>1, <2>2, <2>3 DEF IInv, TypeOK, writers
<1>11. WritersOK'
  BY <1>3, <1>5, PutWriters DEF IInv
<1>12. OffersOK'
  BY <1>1, <1>2, <1>4 DEF IInv, OffersOK, c
<1>13. FramesOK'
  <2> SUFFICES ASSUME NEW e \in Clients, NEW k \in 1 .. asked[e]
               PROVE  \/ Replied(made'[e], k)
                      \/ e \in refusing /\ k = asked[e]
                      \/ \E o \in offers : o.client = e /\ o.n = k
    BY <1>1 DEF FramesOK, Replied
  <2>1. \/ Replied(made[e], k)
        \/ e \in refusing /\ k = asked[e]
        \/ \E o \in offers : o.client = e /\ o.n = k
        \/ c = e /\ hub.n = k
    BY DEF IInv, FramesOK, c
  <2>2. Replied(made[e], k) => Replied(made'[e], k)
    BY <1>3, <1>9, PutReplied
  <2>3. Replied(made'[c], hub.n)
    BY <1>2, <1>3, <1>9, PutReplied
  <2> QED BY <2>1, <2>2, <2>3
<1>14. MadeOK'
  <2> SUFFICES ASSUME NEW e \in Clients, NEW i \in DOMAIN made'[e], NEW y, y = made'[e][i]
               PROVE  /\ y.type # "push" => Older(y, e)'
                      /\ y.type = "push" =>
                           /\ Older(y, y.client)'
                           /\ hub' # Idle /\ hub'.client = y.client => y.n < hub'.n
    BY <1>4 DEF MadeOK
  <2>1. \A z, d : Older(z, d) => Older(z, d)'
    BY <1>1 DEF Older
  <2>2. CASE i \in DOMAIN made[e] /\ y = made[e][i]
    BY <1>2, <1>4, <2>1, <2>2 DEF IInv, MadeOK, c
  <2>3. CASE e = c /\ y = x
    <3>1. Older(x, c)
      BY <1>2, <1>3, HubIsOlder DEF c
    <3> QED BY <1>3, <2>1, <2>3, <3>1
  <2>4. \/ i \in DOMAIN made[e] /\ made'[e][i] = made[e][i]
        \/ e \in to /\ made'[e][i] = x
    BY <1>9 DEF Grown
  <2> QED BY <1>3, <2>2, <2>3, <2>4
<1>15. HubOK'
  <2>1. \E i \in DOMAIN made'[c] : made'[c][i].type = "response" /\ made'[c][i].n = hub.n
    BY <1>2, <1>3, <1>9 DEF Grown
  <2>2. hub'.at = "push" => hub'.client = c /\ hub'.n = hub.n
    BY <1>4
  <2>3. hub'.at # "reply"
    BY <1>4
  <2> QED BY <1>1, <1>7, <2>1, <2>2, <2>3 DEF HubOK
<1>16. ReplyOrder'
  <2>1. made'[c][Len(made[c]) + 1] = x /\ \A i \in 1 .. Len(made[c]) : i \in DOMAIN made[c] /\ made'[c][i] = made[c][i]
    BY <1>2, <1>3, <1>9 DEF Grown
  <2>2. \A i \in DOMAIN made[c] : made[c][i].type = "response" => made[c][i].n < x.n
    BY <1>1, <1>2, <1>3 DEF IInv, MadeOK, c
  <2>3. Len(made[c]) \in Nat
    BY <1>2, <1>9 DEF Grown
  <2>4. \A i \in 1 .. (Len(made[c]) + 1) - 1 : made'[c][i].type = "response" => made'[c][i].n < x.n
    BY <2>1, <2>2, <2>3
  <2>5. \A i \in DOMAIN made[c] : made[c][i].type = "push" \/ made[c][i].n # x.n
    BY <1>1, <1>2, <1>3 DEF IInv, MadeOK, c
  <2>6. \A i \in 1 .. (Len(made[c]) + 1) - 1 : made'[c][i].type = "push" \/ made'[c][i].n # x.n
    BY <2>1, <2>3, <2>5
  <2>7. OrderedAt(c, made'[c], Len(made[c]) + 1)
    BY <1>3, <2>1, <2>4, <2>6 DEF OrderedAt
  <2> QED BY <1>3, <1>9, <2>7, PutReplyOrder DEF IInv
<1>17. ReplyBeforePush' /\ PushOrder'
  BY <1>3, <1>9, PutReplyBeforePush, PutPushOrder DEF IInv
<1>18. StampsOK'
  BY <1>1, <1>2, <1>3, <1>4, <1>9, PutStamps DEF IInv, c
<1> QED BY <1>10, <1>11, <1>12, <1>13, <1>14, <1>15, <1>16, <1>17, <1>18 DEF IInv

LEMMA PushAllKeeps ==
  ASSUME IInv, PushAll
  PROVE  IInv'
<1> DEFINE c == hub.client
           x == Push(hub)
           to == {d \in Audience : HasRoom(d)}
<1>1. /\ hub.at = "push" /\ UNCHANGED <<user, members, told, clock, asked, refusing, offers>> /\ UNCHANGED writers
      /\ hub' = Idle /\ hub'.at = "idle" /\ hub # Idle
  BY DEF PushAll, GoOn, Following, Idle
<1>2. c \in Clients /\ hub.n \in Nat /\ hub.createdAt \in Nat
  BY <1>1, HubType DEF IInv, Hub
<1>3. /\ x \in Item /\ x.type = "push" /\ x.client = c /\ x.n = hub.n
      /\ x.createdAt = hub.createdAt \/ x.createdAt = 0
      /\ to \in SUBSET Clients
  BY <1>2 DEF Push, Item, Audience, Connections
<1>4. Put(to, x)
  BY <1>1 DEF PushAll, Put, Added
<1> HIDE DEF x, to, c
<1>5. Grown(to, x)
  BY <1>3, <1>4, PutGrows DEF IInv
<1>6. TypeOK'
  BY <1>1, <1>3, <1>4, PutType DEF IInv, TypeOK, writers
<1>7. WritersOK'
  BY <1>3, <1>4, PutWriters DEF IInv
<1>8. OffersOK'
  BY <1>1 DEF IInv, OffersOK
<1>9. FramesOK'
  <2>1. \A e \in Clients : \A k : Replied(made[e], k) => Replied(made'[e], k)
    BY <1>3, <1>5, PutReplied
  <2> QED BY <1>1, <2>1 DEF IInv, FramesOK
<1>10. MadeOK'
  <2> SUFFICES ASSUME NEW e \in Clients, NEW i \in DOMAIN made'[e], NEW y, y = made'[e][i]
               PROVE  /\ y.type # "push" => Older(y, e)'
                      /\ y.type = "push" => Older(y, y.client)'
    BY <1>1 DEF MadeOK
  <2>1. \A z, d : Older(z, d) => Older(z, d)'
    BY <1>1 DEF Older
  <2>2. CASE i \in DOMAIN made[e] /\ y = made[e][i]
    BY <2>1, <2>2 DEF IInv, MadeOK
  <2>3. CASE y = x
    <3>1. Older(x, c)
      BY <1>1, <1>3, HubIsOlder DEF c
    <3> QED BY <1>3, <2>1, <2>3, <3>1
  <2>4. \/ i \in DOMAIN made[e] /\ made'[e][i] = made[e][i]
        \/ e \in to /\ made'[e][i] = x
    BY <1>5 DEF Grown
  <2> QED BY <2>2, <2>3, <2>4
<1>12. HubOK'
  BY <1>1 DEF IInv, HubOK
<1>13. ReplyOrder'
  <2>1. \A e \in to : OrderedAt(e, made'[e], Len(made[e]) + 1)
    <3>1. \A e \in to : made'[e][Len(made[e]) + 1] = x
      BY <1>3, <1>5 DEF Grown
    <3> QED BY <1>3, <3>1 DEF OrderedAt
  <2> QED BY <1>3, <1>5, <2>1, PutReplyOrder DEF IInv
<1>14. ReplyBeforePush'
  <2>1. \E i \in DOMAIN made[c] : made[c][i].type = "response" /\ made[c][i].n = x.n
    BY <1>1, <1>3 DEF IInv, HubOK, c
  <2> QED BY <1>3, <1>5, <2>1, PutReplyBeforePush DEF IInv
<1>15. PushOrder'
  <2>1. \A e \in Clients : \A i \in DOMAIN made[e] :
          made[e][i].type = "push" /\ made[e][i].client = x.client =>
            made[e][i].n < x.n /\ made[e][i].createdAt < hub.createdAt
    BY <1>1, <1>3 DEF IInv, MadeOK, StampsOK, Earlier, c
  <2>2. \A e \in Clients : \A i \in DOMAIN made[e] :
          made[e][i].type = "push" /\ made[e][i].client = x.client =>
            made[e][i].n < x.n /\ (x.createdAt # 0 => made[e][i].createdAt < x.createdAt)
    BY <1>3, <2>1
  <2> QED BY <1>3, <1>5, <2>2, PutPushOrder DEF IInv
<1>16. StampsOK'
  <2>1. /\ x.createdAt \in Nat /\ x.createdAt <= clock
        /\ \A o \in offers : o.client = c => x.createdAt < o.createdAt
    BY <1>1, <1>2, <1>3 DEF IInv, StampsOK, TypeOK, c
  <2> QED BY <1>1, <1>3, <1>5, <2>1, PutStamps DEF IInv
<1> QED BY <1>6, <1>7, <1>8, <1>9, <1>10, <1>12, <1>13, <1>14, <1>15, <1>16 DEF IInv

-----------------------------------------------------------------------------
LEMMA InitIInv ==
  Init => IInv
<1> SUFFICES ASSUME Init PROVE IInv
  OBVIOUS
<1>1. /\ user \in Logins /\ members \subseteq {user[c] : c \in Clients} /\ told = members /\ clock = 0
      /\ asked = [c \in Clients |-> 0] /\ refusing = {} /\ offers = {} /\ hub = Idle
      /\ queue = [c \in Clients |-> <<>>] /\ frame = [c \in Clients |-> <<>>]
      /\ left = [c \in Clients |-> 0] /\ writer = [c \in Clients |-> "select"]
      /\ got = [c \in Clients |-> <<>>] /\ made = got
  BY DEF Init
<1>2. hub.at = "idle"
  BY <1>1 DEF Idle
<1>3. \A c \in Clients : made[c] = <<>> /\ DOMAIN made[c] = {}
  BY <1>1
<1>4. TypeOK
  BY <1>1, EmptySeq DEF TypeOK
<1>5. WritersOK
  <2> SUFFICES ASSUME NEW c \in Clients PROVE Stream(c) = got[c] /\ IsPrefix(got[c], got[c])
    BY <1>1 DEF WritersOK
  <2>1. got[c] \in Seq(Item) /\ <<>> \in Seq(Item) /\ got[c] \o <<>> = got[c]
    BY <1>1, EmptySeq, ConcatEmptySeq
  <2>2. IsPrefix(got[c], got[c] \o <<>>)
    BY <2>1, PrefixOfConcat
  <2> QED BY <1>1, <2>1, <2>2 DEF Stream
<1>6. OffersOK /\ FramesOK
  BY <1>1 DEF OffersOK, FramesOK
<1>7. MadeOK /\ HubOK /\ StampsOK
  BY <1>1, <1>2, <1>3 DEF MadeOK, HubOK, StampsOK
<1>8. ReplyOrder /\ ReplyBeforePush /\ PushOrder
  BY <1>3 DEF ReplyOrder, ReplyBeforePush, PushOrder
<1> QED BY <1>4, <1>5, <1>6, <1>7, <1>8 DEF IInv

LEMMA NextIInv ==
  IInv /\ [Next]_vars => IInv'
<1> SUFFICES ASSUME IInv, [Next]_vars PROVE IInv'
  OBVIOUS
<1>1. CASE UNCHANGED vars
  <2>1. UNCHANGED <<user, members, told, clock, asked, refusing, offers, hub, queue, frame, left, writer, got, made>>
    BY <1>1 DEF vars
  <2>2. TypeOK' /\ WritersOK'
    BY <2>1 DEF IInv, TypeOK, WritersOK, Stream
  <2>3. OffersOK' /\ HubOK' /\ StampsOK'
    BY <2>1 DEF IInv, OffersOK, HubOK, StampsOK, Earlier
  <2>4. FramesOK'
    BY <2>1 DEF IInv, FramesOK, Replied
  <2>5. MadeOK'
    BY <2>1 DEF IInv, MadeOK, Older
  <2>6. ReplyOrder' /\ ReplyBeforePush' /\ PushOrder'
    BY <2>1, MadeKept DEF IInv
  <2> QED BY <2>2, <2>3, <2>4, <2>5, <2>6 DEF IInv
<1>2. CASE Reply
  BY <1>2, ReplyKeeps
<1>3. CASE PushAll
  BY <1>3, PushAllKeeps
<1>4. ASSUME NEW c \in Clients, Read(c) PROVE IInv'
  BY <1>4, ReadKeeps
<1>5. ASSUME NEW c \in Clients, SendRefusal(c) PROVE IInv'
  BY <1>5, RefusalKeeps
<1>6. ASSUME NEW c \in Clients, Take(c) PROVE IInv'
  BY <1>6, TakeKeeps
<1>7. ASSUME NEW c \in Clients, Write(c) \/ WriterFail(c) PROVE IInv'
  BY <1>7, WriteKeeps
<1> QED BY <1>1, <1>2, <1>3, <1>4, <1>5, <1>6, <1>7 DEF Next

(* The invariant holds, whatever the scheduling.                           *)
THEOREM Invariance == SafeSpec => []IInv
BY InitIInv, NextIInv, PTL DEF SafeSpec

-----------------------------------------------------------------------------
(* The variables keep their types, and a send channel its capacity: the    *)
(* hub waits or drops, the reader waits.                                   *)
THEOREM DeliveryTypeCorrect == Spec => []TypeOK
<1>1. IInv => TypeOK
  BY DEF IInv
<1> QED BY <1>1, Invariance, PTL DEF Spec

(* For a peer that reads whole frames, what was put into a send channel    *)
(* comes out in order and once, whatever the writer finds queued when it   *)
(* opens a frame and however the channel is filled meanwhile.              *)
THEOREM FramesCarryAll == Spec => [](~OnePerFrame => NothingLost)
<1>1. IInv => (~OnePerFrame => NothingLost)
  BY DEF IInv, WritersOK, NothingLost
<1> QED BY <1>1, Invariance, PTL DEF Spec

(* Replies are in the order of the requests, and a refusal of the reader   *)
(* overtakes at most the request the hub is busy with.                     *)
THEOREM RepliesInOrder == Spec => []ReplyOrder
<1>1. IInv => ReplyOrder
  BY DEF IInv
<1> QED BY <1>1, Invariance, PTL DEF Spec

(* A requester's reply is ahead of the push it caused.                     *)
THEOREM RepliedFirst == Spec => []ReplyBeforePush
<1>1. IInv => ReplyBeforePush
  BY DEF IInv
<1> QED BY <1>1, Invariance, PTL DEF Spec

(* No two connections disagree on the order of two pushes, none is made    *)
(* twice, and a sender's are in his order, whoever missed which of them.   *)
THEOREM PushesInOrder == Spec => []PushOrder
<1>1. IInv => PushOrder
  BY DEF IInv
<1> QED BY <1>1, Invariance, PTL DEF Spec

(* Every handler's push goes to all connections of those who have been     *)
(* told that they are members, as far as there is room, and to no other.   *)
THEOREM PushedMembers == Spec => PushesAsTold
<1>1. ASSUME IInv, [Next]_vars, NEW c \in Clients
      PROVE  Pushed(c) <=> hub.at = "push" /\ hub' # hub /\ user[c] \in told /\ HasRoom(c)
  <2>1. /\ made[c] \in Seq(Item) /\ Len(made[c]) \in Nat
        /\ \A x \in Item : Len(Append(made[c], x)) = Len(made[c]) + 1 /\ Last(Append(made[c], x)) = x
    BY <1>1, AppendProperties, LenProperties DEF IInv, TypeOK, Last
  <2>2. CASE PushAll
    <3>1. hub.at = "push" /\ hub # Idle /\ hub' = Idle /\ members = told /\ Push(hub) \in Item
      BY <1>1, <2>2, HubType DEF PushAll, GoOn, Following, Idle, IInv, HubOK, Push, Item, Hub
    <3>2. made'[c] = IF user[c] \in told /\ HasRoom(c) THEN Append(made[c], Push(hub)) ELSE made[c]
      BY <1>1, <2>2, <3>1 DEF PushAll, Audience, Connections, IInv, TypeOK
    <3>3. Push(hub).type = "push"
      BY DEF Push
    <3> QED BY <2>1, <3>1, <3>2, <3>3 DEF Pushed
  <2>3. ASSUME NEW x \in Item, x.type # "push", made'[c] = made[c] \/ made'[c] = Append(made[c], x)
        PROVE  ~Pushed(c)
    <3>1. CASE made'[c] = made[c]
      BY <2>1, <3>1 DEF Pushed
    <3>2. CASE made'[c] = Append(made[c], x)
      BY <2>1, <2>3, <3>2 DEF Pushed
    <3> QED BY <2>3, <3>1, <3>2
  <2>4. CASE Reply
    <3>1. hub.at = "reply" /\ hub # Idle /\ hub \in Hub
      BY <1>1, <2>4, HubType DEF Reply, IInv
    <3>2. Response(hub.client, hub.n, hub.what) \in Item
      BY <3>1 DEF Response, Item, Hub
    <3>3. made'[c] = made[c] \/ made'[c] = Append(made[c], Response(hub.client, hub.n, hub.what))
      BY <1>1, <2>4 DEF Reply, SendReply, Send, IInv, TypeOK
    <3>4. Response(hub.client, hub.n, hub.what).type = "response"
      BY DEF Response
    <3> QED BY <2>3, <3>1, <3>2, <3>3, <3>4
  <2>5. ASSUME NEW d \in Clients, SendRefusal(d)
        PROVE  ~Pushed(c) /\ hub' = hub
    <3>1. Refusal(d, asked[d]) \in Item /\ Refusal(d, asked[d]).type = "refusal"
      BY <1>1 DEF Refusal, Item, IInv, TypeOK
    <3>2. hub' = hub /\ (made'[c] = made[c] \/ made'[c] = Append(made[c], Refusal(d, asked[d])))
      BY <1>1, <2>5 DEF SendRefusal, Send, IInv, TypeOK
    <3> QED BY <2>3, <3>1, <3>2
  <2>6. ASSUME NEW d \in Clients, Take(d)
        PROVE  ~Pushed(c) /\ hub.at # "push"
    <3>1. made' = made /\ hub.at = "idle"
      BY <2>6 DEF Take, Idle
    <3> QED BY <2>1, <3>1 DEF Pushed
  <2>7. ASSUME NEW d \in Clients, Read(d) \/ Write(d) \/ WriterFail(d)
        PROVE  ~Pushed(c) /\ hub' = hub
    <3>1. made' = made /\ hub' = hub
      BY <2>7 DEF Read, Write, WriterReceive, WriterCount, WriterDrain, WriterFlush, WriterFail
    <3> QED BY <2>1, <3>1 DEF Pushed
  <2>8. CASE UNCHANGED vars
    BY <2>1, <2>8 DEF vars, Pushed
  <2> QED BY <1>1, <2>2, <2>4, <2>5, <2>6, <2>7, <2>8 DEF Next
<1>2. IInv /\ [Next]_vars =>
        [\A c \in Clients :
           Pushed(c) <=> hub.at = "push" /\ hub' # hub /\ user[c] \in told /\ HasRoom(c)]_vars
  BY <1>1
<1> QED BY <1>2, Invariance, PTL DEF Spec, SafeSpec, PushesAsTold

-----------------------------------------------------------------------------
(* What a run of EveryFrameAnswered cannot rule out for other instances:   *)
(* that everyone waits on everyone.                                        *)

(* One of the goroutines can take its next step.                           *)
HubMoves == \/ hub = Idle /\ offers # {}
            \/ hub.at = "reply" /\ HasRoom(hub.client)
            \/ hub.at = "push"
WriterMoves(c) == \/ writer[c] = "select" /\ queue[c] # <<>>
                  \/ writer[c] = "count"
                  \/ writer[c] = "drain" /\ (left[c] > 0 => queue[c] # <<>>)
SomebodyMoves == \/ HubMoves
                 \/ \E c \in refusing : HasRoom(c)
                 \/ \E c \in Clients : WriterMoves(c)

(* A writer that has counted what is queued finds it: the receives in the  *)
(* loop of WriteMessages, which nothing would interrupt, never block.      *)
THEOREM DrainNeverBlocks ==
  Spec => [](\A c \in Clients : writer[c] = "drain" => left[c] <= Len(queue[c]))
<1>1. IInv => \A c \in Clients : writer[c] = "drain" => left[c] <= Len(queue[c])
  BY DEF IInv, WritersOK
<1> QED BY <1>1, Invariance, PTL DEF Spec

(* While no writer has failed, the hub and the goroutines of the           *)
(* connections never wait for one another in a circle with an answer still *)
(* owed: one of them can move, or every frame has been answered and its    *)
(* sender has read the answer.                                             *)
THEOREM NeverStuck ==
  Spec => [](~OnePerFrame /\ (\A c \in Clients : writer[c] # "ended") =>
               SomebodyMoves \/ ~Unanswered)
<1>1. ASSUME IInv, ~OnePerFrame, \A c \in Clients : writer[c] # "ended", ~SomebodyMoves
      PROVE  ~Unanswered
  <2>1. \A c \in Clients : writer[c] = "select" /\ queue[c] = <<>>
    <3> SUFFICES ASSUME NEW c \in Clients PROVE writer[c] = "select" /\ queue[c] = <<>>
      OBVIOUS
    <3>1. writer[c] \in {"select", "drain"}
      BY <1>1 DEF SomebodyMoves, WriterMoves, IInv, TypeOK
    <3>2. ~ writer[c] = "drain"
      BY <1>1 DEF SomebodyMoves, WriterMoves, IInv, TypeOK, WritersOK
    <3> QED BY <1>1, <3>1, <3>2 DEF SomebodyMoves, WriterMoves
  <2>2. \A c \in Clients : HasRoom(c)
    BY <2>1 DEF HasRoom
  <2>3. refusing = {}
    BY <1>1, <2>2 DEF SomebodyMoves, IInv, TypeOK
  <2>4. hub = Idle /\ hub.at = "idle" /\ offers = {}
    <3>1. hub.at # "reply" /\ hub.at # "push"
      BY <1>1, <2>2, HubType DEF SomebodyMoves, HubMoves, IInv
    <3>2. hub = Idle
      BY <1>1, <3>1 DEF IInv, TypeOK, Hub
    <3> QED BY <1>1, <3>2 DEF SomebodyMoves, HubMoves, Idle
  <2>5. ASSUME NEW c \in Clients, NEW n \in 1 .. asked[c] PROVE Answered(c, n)
    <3>1. Replied(made[c], n)
      BY <1>1, <2>3, <2>4 DEF IInv, FramesOK
    <3>2. got[c] = made[c]
      <4>1. got[c] \in Seq(Item) /\ got[c] \o <<>> = got[c]
        BY <1>1, ConcatEmptySeq DEF IInv, TypeOK
      <4>2. frame[c] = <<>> /\ Stream(c) = made[c]
        BY <1>1, <2>1 DEF IInv, WritersOK
      <4> QED BY <2>1, <4>1, <4>2 DEF Stream
    <3> QED BY <3>1, <3>2 DEF Replied, Answered
  <2> QED BY <2>5 DEF Unanswered
<1>2. IInv => (~OnePerFrame /\ (\A c \in Clients : writer[c] # "ended") => SomebodyMoves \/ ~Unanswered)
  BY <1>1
<1> QED BY <1>2, Invariance, PTL DEF Spec

=============================================================================
