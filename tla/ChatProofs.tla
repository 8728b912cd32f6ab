----------------------------- MODULE ChatProofs -----------------------------
(***************************************************************************)
(* Proofs about Chat: whose alias a post is shown under, and that what is  *)
(* acknowledged and who joins reaches everyone, in every chat of finitely  *)
(* many clients and posts.                                                 *)
(***************************************************************************)
EXTENDS Chat, Integers, TLAPS, SequenceTheorems, FiniteSetTheorems

(* Queues, position by position: they grow at their end and shrink at      *)
(* their head.                                                             *)

(* What is left of a queue, position by position, when its head is taken. *)
LEMMA TailElements ==
  ASSUME NEW S, NEW q \in Seq(S), q # <<>>
  PROVE  /\ Tail(q) \in Seq(S)
         /\ Len(q) \in Nat /\ Len(q) > 0
         /\ DOMAIN q = 1 .. Len(q)
         /\ 1 \in DOMAIN q /\ Head(q) = q[1] /\ Head(q) \in S
         /\ Len(Tail(q)) = Len(q) - 1
         /\ DOMAIN Tail(q) = 1 .. Len(q) - 1
         /\ \A i \in DOMAIN Tail(q) : /\ i \in Nat /\ i + 1 \in DOMAIN q /\ i + 1 # 1
                                      /\ Tail(q)[i] = q[i + 1] /\ Tail(q)[i] \in S
<1>1. Len(q) \in Nat /\ DOMAIN q = 1 .. Len(q) /\ Len(q) # 0
  BY EmptySeq, LenProperties
<1>2. /\ Tail(q) \in Seq(S)
      /\ Len(Tail(q)) = Len(q) - 1
      /\ \A i \in 1 .. Len(Tail(q)) : Tail(q)[i] = q[i + 1]
  BY HeadTailProperties
<1>3. DOMAIN Tail(q) = 1 .. Len(q) - 1
  BY <1>2, LenProperties
<1>4. Head(q) = q[1] /\ 1 \in DOMAIN q /\ q[1] \in S
  BY <1>1, ElementOfSeq
<1>5. \A i \in DOMAIN Tail(q) : Tail(q)[i] \in S
  BY <1>2, <1>3, ElementOfSeq
<1>. QED
  BY <1>1, <1>2, <1>3, <1>4, <1>5

(* What is in a queue, position by position, when an element of its type   *)
(* is appended.                                                            *)
LEMMA AppendElements ==
  ASSUME NEW S, NEW q \in Seq(S), NEW e \in S
  PROVE  /\ Append(q, e) \in Seq(S)
         /\ Append(q, e) # <<>>
         /\ DOMAIN q = 1 .. Len(q)
         /\ Len(q) \in Nat
         /\ Len(Append(q, e)) = Len(q) + 1
         /\ DOMAIN Append(q, e) = 1 .. Len(q) + 1
         /\ \A i \in DOMAIN q : Append(q, e)[i] = q[i]
         /\ Append(q, e)[Len(q) + 1] = e
<1>1. Len(q) \in Nat /\ DOMAIN q = 1 .. Len(q)
  BY LenProperties
<1>2. /\ Append(q, e) \in Seq(S)
      /\ Append(q, e) # <<>>
      /\ Len(Append(q, e)) = Len(q) + 1
      /\ \A i \in 1 .. Len(q) : Append(q, e)[i] = q[i]
      /\ Append(q, e)[Len(q) + 1] = e
  BY AppendProperties
<1>3. DOMAIN Append(q, e) = 1 .. Len(q) + 1
  BY <1>2, LenProperties
<1>. QED
  BY <1>1, <1>2, <1>3

(* The same, for an element of any type. *)
LEMMA AppendPositions ==
  ASSUME NEW S, NEW q \in Seq(S), NEW e
  PROVE  /\ Append(q, e) # <<>>
         /\ Len(q) \in Nat
         /\ Len(Append(q, e)) = Len(q) + 1
         /\ DOMAIN q = 1 .. Len(q)
         /\ DOMAIN Append(q, e) = 1 .. Len(q) + 1
         /\ DOMAIN Append(q, e) = DOMAIN q \cup {Len(q) + 1}
         /\ Len(q) + 1 \notin DOMAIN q
         /\ \A i \in DOMAIN q : Append(q, e)[i] = q[i] /\ q[i] \in S
         /\ Append(q, e)[Len(q) + 1] = e
<1>1. q \in Seq(S \cup {e})
  BY LenProperties
<1>2. \A i \in DOMAIN q : q[i] \in S
  BY LenProperties, ElementOfSeq
<1>. QED
  BY <1>1, <1>2, AppendElements

(* What stands in a queue is of its type. *)
LEMMA EachElement ==
  ASSUME NEW S, NEW q \in Seq(S)
  PROVE  \A i \in DOMAIN q : q[i] \in S
BY ElementOfSeq, LenProperties

(* A queue that is not there has no positions. *)
LEMMA NoElements ==
  ASSUME NEW S
  PROVE  <<>> \in Seq(S) /\ DOMAIN <<>> = {} /\ Len(<<>>) = 0
BY EmptySeq
-----------------------------------------------------------------------------
(* How often a client has been shown a message, or will be. *)
Count(c, m) == Copies(m, Shown(c))

PostOf(a, p) == [type |-> "MessageReceived", alias |-> a, post |-> p]
Members == {"online", "exited"}
Gone == {"exited", "failed"}

(* A client's alias is the one its hub was answered, which is the one the  *)
(* chat server has for its portal.                                         *)
JoiningIsSound ==
  \A c \in Client :
    /\ phase[c] \in Members \cup {"joining"} => joining[c] # "no"
    /\ joining[c] # "no" => phase[c] \in Members \cup {"joining", "failed"}
    /\ phase[c] \in Members => joining[c] = "answered" /\ alias[c] = answer[c]
    /\ phase[c] \notin Members => alias[c] = None
    /\ c \in DOMAIN clients <=> joining[c] = "answered"
    /\ answer[c] = IF c \in DOMAIN clients THEN clients[c] ELSE None

(* The chat server's mailbox holds each message once: a Connect from a hub *)
(* that waits for its answer, a post from its author.                      *)
MailIsSound ==
  /\ \A i, j \in DOMAIN mailbox : mailbox[i] = mailbox[j] => i = j
  /\ \A i \in DOMAIN mailbox :
       /\ mailbox[i].type = "Connect" => joining[mailbox[i].portal] = "asked"
       /\ mailbox[i].type = "Public" => mailbox[i].portal = author[mailbox[i].post]

(* The pairs of words are given away one after the other. *)
JoinedIsSound ==
  /\ Len(joined) <= generated
  /\ \A i, j \in DOMAIN joined : joined[i] = joined[j] => i = j
  /\ \A i \in DOMAIN joined : /\ joined[i] \in DOMAIN clients
                              /\ clients[joined[i]] = Pair(generated - Len(joined) + i - 1)
  /\ \A c \in DOMAIN clients : \E i \in DOMAIN joined : joined[i] = c

(* Posts are made, and seen, by members. *)
AuthorsAreMembers ==
  \A p \in Post :
    /\ author[p] # None => phase[author[p]] \in Members
    /\ \A c \in audience[p] : phase[c] \in Members

(* A post takes one way through the server: once it is out of the network  *)
(* and of the mailbox it does not come back.                               *)
InMailbox(p) == \E i \in DOMAIN mailbox : mailbox[i].type = "Public" /\ mailbox[i].post = p
Handled(p) == author[p] # None /\ p \notin toServer /\ ~InMailbox(p)
PostsTakeOneWay ==
  \A p \in Post :
    /\ p \in toServer => author[p] # None /\ ~InMailbox(p)
    /\ InMailbox(p) => author[p] # None
    /\ p \in acked => Handled(p)
    /\ \A a \in acks : a.post = p => Handled(p)

(* What is shown of a post stands under the alias that the chat server has *)
(* for its author, once.                                                   *)
ShownIsSound ==
  \A c \in Client : \A a \in Aliases : \A p \in Post :
    Count(c, PostOf(a, p)) > 0 =>
      Handled(p) /\ a = clients[author[p]] /\ Count(c, PostOf(a, p)) = 1

(* Everyone who was there when it was made, and still is, has a post that  *)
(* is being acknowledged, or was.                                          *)
Reached(p) == \A c \in audience[p] : phase[c] = "online" => Count(c, PostOf(clients[author[p]], p)) > 0
AcksAreSound ==
  /\ \A p \in acked : Reached(p)
  /\ \A a \in acks : Reached(a.post)

(* A client hears of an alias as often as it was given away since that     *)
(* client joined; before that, never.                                      *)
NewsIsCounted ==
  \A c \in Client : \A a \in Aliases :
    phase[c] \notin Gone => Count(c, JoinOf(a)) = Cardinality(GivenSince(c, a))

ChatInvariant ==
  /\ TypeOK /\ JoiningIsSound /\ MailIsSound /\ JoinedIsSound
  /\ AuthorsAreMembers /\ PostsTakeOneWay /\ ShownIsSound /\ AcksAreSound /\ NewsIsCounted
-----------------------------------------------------------------------------
(* Bags *)

(* How many copies a bag has of something, and whether it has any.         *)
LEMMA CopiesOfBag ==
  ASSUME NEW bag, IsABag(bag), NEW m
  PROVE  /\ Copies(m, bag) \in Nat
         /\ m \in BagToSet(bag) <=> Copies(m, bag) > 0
<1>1. m \in DOMAIN bag => bag[m] \in Nat /\ bag[m] > 0
  BY DEF IsABag
<1>. QED
  BY <1>1 DEF Copies, BagIn, BagToSet

(* Copies add up in the sum of two bags. *)
LEMMA CopiesOfSum ==
  ASSUME NEW bag1, IsABag(bag1), NEW bag2, IsABag(bag2)
  PROVE  /\ IsABag(bag1 (+) bag2)
         /\ BagToSet(bag1 (+) bag2) = BagToSet(bag1) \cup BagToSet(bag2)
         /\ \A m : Copies(m, bag1 (+) bag2) = Copies(m, bag1) + Copies(m, bag2)
<1>1. /\ \A m \in DOMAIN bag1 : bag1[m] \in Nat /\ bag1[m] > 0
      /\ \A m \in DOMAIN bag2 : bag2[m] \in Nat /\ bag2[m] > 0
  BY DEF IsABag
<1>2. /\ DOMAIN (bag1 (+) bag2) = DOMAIN bag1 \cup DOMAIN bag2
      /\ \A m \in DOMAIN bag1 \cup DOMAIN bag2 :
           (bag1 (+) bag2)[m] = (IF m \in DOMAIN bag1 THEN bag1[m] ELSE 0)
                              + (IF m \in DOMAIN bag2 THEN bag2[m] ELSE 0)
  BY DEF (+)
<1>3. \A m \in DOMAIN bag1 \cup DOMAIN bag2 : (bag1 (+) bag2)[m] \in {n \in Nat : n > 0}
  BY <1>1, <1>2
<1>4. bag1 (+) bag2 = [m \in DOMAIN (bag1 (+) bag2) |-> (bag1 (+) bag2)[m]]
  BY DEF (+)
<1>5. IsABag(bag1 (+) bag2)
  BY <1>2, <1>3, <1>4 DEF IsABag
<1>6. ASSUME NEW m
      PROVE  Copies(m, bag1 (+) bag2) = Copies(m, bag1) + Copies(m, bag2)
  BY <1>1, <1>2 DEF Copies, BagIn, BagToSet
<1>. QED
  BY <1>2, <1>5, <1>6 DEF BagToSet

(* A bag of one. *)
LEMMA CopiesOfOne ==
  ASSUME NEW m
  PROVE  /\ IsABag(SetToBag({m}))
         /\ BagToSet(SetToBag({m})) = {m}
         /\ \A e : Copies(e, SetToBag({m})) = IF e = m THEN 1 ELSE 0
<1>1. IsABag(SetToBag({m}))
  BY DEF IsABag, SetToBag
<1>. QED
  BY <1>1 DEF SetToBag, BagToSet, Copies, BagIn

(* Nothing is in the empty bag. *)
LEMMA CopiesOfNothing ==
  /\ IsABag(EmptyBag)
  /\ BagToSet(EmptyBag) = {}
  /\ \A m : Copies(m, EmptyBag) = 0
<1>1. IsABag(EmptyBag)
  BY DEF IsABag, SetToBag, EmptyBag
<1>. QED
  BY <1>1 DEF SetToBag, EmptyBag, BagToSet, Copies, BagIn

(* One copy more. *)
LEMMA CopiesOfMore ==
  ASSUME NEW bag, IsABag(bag), NEW m
  PROVE  /\ IsABag(bag (+) SetToBag({m}))
         /\ BagToSet(bag (+) SetToBag({m})) = BagToSet(bag) \cup {m}
         /\ \A e : Copies(e, bag (+) SetToBag({m})) = Copies(e, bag) + (IF e = m THEN 1 ELSE 0)
<1>1. /\ IsABag(SetToBag({m})) /\ BagToSet(SetToBag({m})) = {m}
      /\ \A e : Copies(e, SetToBag({m})) = IF e = m THEN 1 ELSE 0
  BY CopiesOfOne
<1>. HIDE DEF SetToBag
<1>2. /\ IsABag(bag (+) SetToBag({m}))
      /\ BagToSet(bag (+) SetToBag({m})) = BagToSet(bag) \cup BagToSet(SetToBag({m}))
      /\ \A e : Copies(e, bag (+) SetToBag({m})) = Copies(e, bag) + Copies(e, SetToBag({m}))
  BY <1>1, CopiesOfSum
<1>. QED
  BY <1>1, <1>2

(* One copy less. *)
LEMMA CopiesOfLess ==
  ASSUME NEW bag, IsABag(bag), NEW m \in BagToSet(bag)
  PROVE  /\ IsABag(bag (-) SetToBag({m}))
         /\ BagToSet(bag (-) SetToBag({m})) \subseteq BagToSet(bag)
         /\ \A e : Copies(e, bag (-) SetToBag({m})) = Copies(e, bag) - (IF e = m THEN 1 ELSE 0)
<1>. DEFINE one == SetToBag({m})
            left == [e \in DOMAIN bag |-> IF e \in DOMAIN one THEN bag[e] - one[e] ELSE bag[e]]
            rest == [e \in {d \in DOMAIN left : left[d] > 0} |-> left[e]]
<1>1. \A e \in DOMAIN bag : bag[e] \in Nat /\ bag[e] > 0
  BY DEF IsABag
<1>2. DOMAIN one = {m} /\ one[m] = 1
  BY DEF SetToBag
<1>3. \A e \in DOMAIN bag : left[e] = (IF e = m THEN bag[e] - 1 ELSE bag[e]) /\ left[e] \in Nat
  BY <1>1, <1>2
<1>4. bag (-) one = rest
  BY DEF (-)
<1>. HIDE DEF left, one
<1>5. DOMAIN left = DOMAIN bag
  BY DEF left
<1>6. rest \in [DOMAIN rest -> {n \in Nat : n > 0}]
  BY <1>3, <1>5
<1>7. ASSUME NEW e
      PROVE  Copies(e, rest) = Copies(e, bag) - (IF e = m THEN 1 ELSE 0)
  BY <1>1, <1>3, <1>5 DEF Copies, BagIn, BagToSet
<1>. QED
  BY <1>4, <1>5, <1>6, <1>7 DEF IsABag, BagToSet, one
-----------------------------------------------------------------------------
(* The pairs of words *)

(* What the quotient and the remainder are. *)
LEMMA Division ==
  ASSUME NEW w \in Nat \ {0}, NEW n \in Nat
  PROVE  /\ n \div w \in Nat /\ n % w \in 0 .. w - 1
         /\ n = w * (n \div w) + (n % w)
         /\ n < w * w => n \div w < w
<1>1. n \div w \in Nat /\ n % w \in 0 .. w - 1
  OBVIOUS
<1>2. w \in Nat /\ w > 0
  OBVIOUS
<1>3. n - (n % w) = w * (n \div w)
  BY <1>2, SMTT(30)
<1>. DEFINE q == n \div w
<1>4. n = w * q + (n % w)
  BY <1>1, <1>3
<1>5. ASSUME n < w * w, q >= w
      PROVE  FALSE
  <2>1. q \in Nat /\ w * q \in Nat /\ n >= w * q
    BY <1>1, <1>4
  <2>. HIDE DEF q
  <2>2. w * q >= w * w
    BY <1>5, <2>1
  <2>3. w * w \in Nat
    OBVIOUS
  <2>. QED
    BY <1>5, <2>1, <2>2, <2>3
<1>. QED
  BY <1>1, <1>4, <1>5

(* Two numbers with the same remainder differ by a multiple. *)
LEMMA NoSmallMultiple ==
  ASSUME NEW w \in Nat \ {0}, NEW j \in Int, NEW d \in Int, d = w * j, -w < d, d < w
  PROVE  d = 0
<1>1. CASE j >= 1
  <2>1. w * j >= w
    BY <1>1
  <2>. QED
    BY <2>1
<1>2. CASE j <= -1
  <2>1. w * j <= -w
    BY <1>2
  <2>. QED
    BY <2>1
<1>3. CASE j = 0
  BY <1>3
<1>. QED
  BY <1>1, <1>2, <1>3

(* As long as there are new ones, no pair of words is given away twice.    *)
LEMMA PairsDiffer ==
  ASSUME NEW m \in Nat, NEW n \in Nat, Pair(m) = Pair(n),
         m < WordCount * WordCount, n < WordCount * WordCount
  PROVE  m = n
<1>. DEFINE w == WordCount
<1>1. w \in Nat \ {0}
  BY ChatAssumption
<1>2. PICK q1 \in Nat, r1 \in 0 .. w - 1 : q1 = m \div w /\ r1 = m % w /\ m = w * q1 + r1 /\ q1 < w
  BY <1>1, Division
<1>3. PICK q2 \in Nat, r2 \in 0 .. w - 1 : q2 = n \div w /\ r2 = n % w /\ n = w * q2 + r2 /\ q2 < w
  BY <1>1, Division
<1>4. r1 = r2 /\ (m + q1) % w = (n + q2) % w
  BY <1>2, <1>3 DEF Pair
<1>5. PICK k1 \in Nat, t \in 0 .. w - 1 : m + q1 = w * k1 + t /\ t = (m + q1) % w
  <2>1. m + q1 \in Nat
    BY <1>2
  <2>. QED
    BY <1>1, <2>1, Division
<1>6. PICK k2 \in Nat : n + q2 = w * k2 + t
  <2>1. n + q2 \in Nat
    BY <1>3
  <2>2. (n + q2) \div w \in Nat /\ n + q2 = w * ((n + q2) \div w) + ((n + q2) % w)
    BY <1>1, <2>1, Division
  <2>3. (n + q2) % w = t
    BY <1>4, <1>5
  <2>. QED
    BY <2>2, <2>3
<1>. HIDE DEF w
<1>7. q1 - q2 = w * (k1 - k2 - q1 + q2)
  <2>1. w * (k1 - k2 - q1 + q2) = w * k1 - w * k2 - w * q1 + w * q2
    BY <1>1
  <2>2. /\ w * k1 \in Nat /\ w * k2 \in Nat /\ w * q1 \in Nat /\ w * q2 \in Nat
        /\ w \in Nat /\ r1 \in Nat /\ t \in Nat
    BY <1>1
  <2>. QED
    BY <1>2, <1>3, <1>4, <1>5, <1>6, <2>1, <2>2
<1>8. q1 - q2 = 0
  <2>1. k1 - k2 - q1 + q2 \in Int /\ q1 - q2 \in Int /\ -w < q1 - q2 /\ q1 - q2 < w
    BY <1>1, <1>2, <1>3
  <2>. QED
    BY <1>1, <1>7, <2>1, NoSmallMultiple
<1>. QED
  BY <1>2, <1>3, <1>4, <1>8

(* A pair of words is in the lists. *)
LEMMA PairType ==
  ASSUME NEW n \in Nat
  PROVE  Pair(n) \in Aliases /\ Pair(n) # None
<1>1. WordCount \in Nat \ {0} /\ n + (n \div WordCount) \in Nat
  BY ChatAssumption, Division
<1>2. /\ n % WordCount \in 0 .. WordCount - 1
      /\ (n + (n \div WordCount)) % WordCount \in 0 .. WordCount - 1
  BY <1>1, Division
<1>3. Pair(n) \in Aliases
  BY <1>2 DEF Pair, Aliases
<1>. QED
  BY <1>3, ChatAssumption
-----------------------------------------------------------------------------
(* Messages *)

(* A client is told who joined or what was posted.                         *)
LEMMA MessageKinds ==
  /\ \A a \in Aliases : JoinOf(a) \in ChatClientMessage
  /\ \A a \in Aliases : \A p \in Post : PostOf(a, p) \in ChatClientMessage
  /\ \A a, b \in Aliases : JoinOf(a) = JoinOf(b) => a = b
  /\ \A a, b \in Aliases : \A p \in Post : JoinOf(a) # PostOf(b, p)
  /\ \A a, b \in Aliases : \A p, q \in Post : PostOf(a, p) = PostOf(b, q) => a = b /\ p = q
  /\ \A m \in ChatClientMessage :
       m.type = "MessageReceived" => /\ m.alias \in Aliases /\ m.post \in Post
                                     /\ m = PostOf(m.alias, m.post)
BY DEF JoinOf, PostOf, ChatClientMessage

(* The chat server is asked for an alias, or told a post. *)
LEMMA MailKinds ==
  ASSUME NEW m \in Msg
  PROVE  /\ m.portal \in Client
         /\ m.type \in {"Connect", "Public"}
         /\ m.type = "Public" => m.post \in Post
BY DEF Msg

(* The types that the lemmas below are about. *)
LEMMA BagTypes ==
  ASSUME TypeOK, NEW c \in Client
  PROVE  /\ IsABag(toClient[c]) /\ BagToSet(toClient[c]) \subseteq ChatClientMessage
         /\ IsABag(history[c]) /\ BagToSet(history[c]) \subseteq ChatClientMessage
         /\ DOMAIN toClient = Client /\ DOMAIN history = Client
BY DEF TypeOK

(* What a client is shown is counted over what is on its way and what is   *)
(* in its history.                                                         *)
LEMMA Counting ==
  ASSUME TypeOK, NEW c \in Client
  PROVE  /\ IsABag(Shown(c)) /\ BagToSet(Shown(c)) \subseteq ChatClientMessage
         /\ \A m : /\ Count(c, m) = Copies(m, toClient[c]) + Copies(m, history[c])
                   /\ Count(c, m) \in Nat
                   /\ m \in BagToSet(Shown(c)) <=> Count(c, m) > 0
<1>1. /\ IsABag(toClient[c]) /\ BagToSet(toClient[c]) \subseteq ChatClientMessage
      /\ IsABag(history[c]) /\ BagToSet(history[c]) \subseteq ChatClientMessage
  BY BagTypes
<1>2. /\ IsABag(toClient[c] (+) history[c])
      /\ BagToSet(toClient[c] (+) history[c]) = BagToSet(toClient[c]) \cup BagToSet(history[c])
      /\ \A m : Copies(m, toClient[c] (+) history[c]) = Copies(m, toClient[c]) + Copies(m, history[c])
  BY <1>1, CopiesOfSum
<1>3. IsABag(Shown(c)) /\ BagToSet(Shown(c)) \subseteq ChatClientMessage
  BY <1>1, <1>2 DEF Shown
<1>4. ASSUME NEW m
      PROVE  /\ Count(c, m) = Copies(m, toClient[c]) + Copies(m, history[c])
             /\ Count(c, m) \in Nat
             /\ m \in BagToSet(Shown(c)) <=> Count(c, m) > 0
  <2>1. Count(c, m) = Copies(m, toClient[c]) + Copies(m, history[c])
    BY <1>2 DEF Count, Shown
  <2>2. Copies(m, Shown(c)) \in Nat /\ (m \in BagToSet(Shown(c)) <=> Copies(m, Shown(c)) > 0)
    BY <1>3, CopiesOfBag
  <2>. QED
    BY <2>1, <2>2 DEF Count
<1>. QED
  BY <1>3, <1>4

(* What both are made of, after a step. *)
BagsNext ==
  /\ DOMAIN toClient' = Client /\ DOMAIN history' = Client
  /\ \A c \in Client : /\ IsABag(toClient'[c]) /\ BagToSet(toClient'[c]) \subseteq ChatClientMessage
                       /\ IsABag(history'[c]) /\ BagToSet(history'[c]) \subseteq ChatClientMessage

(* A client is counted again after a step. *)
LEMMA CountingNext ==
  ASSUME BagsNext, NEW c \in Client, NEW m
  PROVE  Count(c, m)' = Copies(m, toClient'[c]) + Copies(m, history'[c])
<1>1. IsABag(toClient'[c]) /\ IsABag(history'[c])
  BY DEF BagsNext
<1>2. Copies(m, toClient'[c] (+) history'[c]) = Copies(m, toClient'[c]) + Copies(m, history'[c])
  BY <1>1, CopiesOfSum
<1>3. Count(c, m)' = Copies(m, toClient'[c] (+) history'[c])
  BY DEF Count, Shown
<1>. QED
  BY <1>2, <1>3

(* A message that is sent is counted once more, for each that is there.    *)
LEMMA SendingCounts ==
  ASSUME TypeOK, NEW R, NEW m \in ChatClientMessage, SendsAll(R, m), history' = history
  PROVE  /\ BagsNext
         /\ \A c \in Client : \A e :
              Count(c, e)' = Count(c, e) + (IF c \in R /\ Present(c) /\ e = m THEN 1 ELSE 0)
<1>1. DOMAIN toClient' = Client
  BY DEF SendsAll
<1>2. ASSUME NEW c \in Client
      PROVE  /\ IsABag(toClient'[c]) /\ BagToSet(toClient'[c]) \subseteq ChatClientMessage
             /\ \A e : Copies(e, toClient'[c]) = Copies(e, toClient[c])
                                               + (IF c \in R /\ Present(c) /\ e = m THEN 1 ELSE 0)
  <2>1. IsABag(toClient[c]) /\ BagToSet(toClient[c]) \subseteq ChatClientMessage
    BY BagTypes
  <2>2. CASE c \in R /\ Present(c)
    <3>1. toClient'[c] = toClient[c] (+) SetToBag({m})
      BY <2>2 DEF SendsAll
    <3>2. /\ IsABag(toClient[c] (+) SetToBag({m}))
          /\ BagToSet(toClient[c] (+) SetToBag({m})) = BagToSet(toClient[c]) \cup {m}
          /\ \A e : Copies(e, toClient[c] (+) SetToBag({m}))
                      = Copies(e, toClient[c]) + (IF e = m THEN 1 ELSE 0)
      BY <2>1, CopiesOfMore
    <3>. QED
      BY <2>1, <2>2, <3>1, <3>2
  <2>3. CASE ~(c \in R /\ Present(c))
    <3>1. toClient'[c] = toClient[c]
      BY <2>3 DEF SendsAll
    <3>2. \A e : Copies(e, toClient[c]) \in Nat
      BY <2>1, CopiesOfBag
    <3>. QED
      BY <2>1, <2>3, <3>1, <3>2
  <2>. QED
    BY <2>2, <2>3
<1>3. BagsNext
  <2>1. /\ DOMAIN history' = Client
        /\ \A c \in Client : IsABag(history'[c]) /\ BagToSet(history'[c]) \subseteq ChatClientMessage
    BY DEF TypeOK
  <2>. QED
    BY <1>1, <1>2, <2>1 DEF BagsNext
<1>4. ASSUME NEW c \in Client, NEW e
      PROVE  Count(c, e)' = Count(c, e) + (IF c \in R /\ Present(c) /\ e = m THEN 1 ELSE 0)
  <2>1. Count(c, e)' = Copies(e, toClient'[c]) + Copies(e, history'[c])
    BY <1>3, CountingNext
  <2>2. Count(c, e) = Copies(e, toClient[c]) + Copies(e, history[c])
    BY Counting
  <2>3. Copies(e, toClient[c]) \in Nat /\ Copies(e, history[c]) \in Nat
    BY BagTypes, CopiesOfBag
  <2>4. Copies(e, toClient'[c]) = Copies(e, toClient[c])
                                  + (IF c \in R /\ Present(c) /\ e = m THEN 1 ELSE 0)
    BY <1>2
  <2>5. history'[c] = history[c]
    OBVIOUS
  <2>. QED
    BY <2>1, <2>2, <2>3, <2>4, <2>5
<1>. QED
  BY <1>3, <1>4

(* What is received stays counted. *)
LEMMA ReceivingCounts ==
  ASSUME TypeOK, NEW c \in Client, ClientReceives(c)
  PROVE  /\ BagsNext
         /\ \A d \in Client : \A e : Count(d, e)' = Count(d, e)
<1>1. PICK m \in BagToSet(toClient[c]) :
        /\ toClient' = [toClient EXCEPT ![c] = @ (-) SetToBag({m})]
        /\ history' = [history EXCEPT ![c] = @ (+) SetToBag({m})]
  BY DEF ClientReceives
<1>2. /\ toClient'[c] = toClient[c] (-) SetToBag({m})
      /\ history'[c] = history[c] (+) SetToBag({m})
      /\ \A d \in Client \ {c} : toClient'[d] = toClient[d] /\ history'[d] = history[d]
      /\ DOMAIN toClient' = Client /\ DOMAIN history' = Client
  BY <1>1, BagTypes
<1>3. /\ IsABag(toClient[c]) /\ BagToSet(toClient[c]) \subseteq ChatClientMessage
      /\ IsABag(history[c]) /\ BagToSet(history[c]) \subseteq ChatClientMessage
  BY BagTypes
<1>4. /\ IsABag(toClient[c] (-) SetToBag({m}))
      /\ BagToSet(toClient[c] (-) SetToBag({m})) \subseteq BagToSet(toClient[c])
      /\ \A e : Copies(e, toClient[c] (-) SetToBag({m}))
                  = Copies(e, toClient[c]) - (IF e = m THEN 1 ELSE 0)
  BY <1>3, CopiesOfLess
<1>5. /\ IsABag(history[c] (+) SetToBag({m}))
      /\ BagToSet(history[c] (+) SetToBag({m})) = BagToSet(history[c]) \cup {m}
      /\ \A e : Copies(e, history[c] (+) SetToBag({m}))
                  = Copies(e, history[c]) + (IF e = m THEN 1 ELSE 0)
  BY <1>3, CopiesOfMore
<1>6. BagsNext
  <2>1. /\ IsABag(toClient'[c]) /\ BagToSet(toClient'[c]) \subseteq ChatClientMessage
        /\ IsABag(history'[c]) /\ BagToSet(history'[c]) \subseteq ChatClientMessage
    BY <1>2, <1>3, <1>4, <1>5
  <2>2. ASSUME NEW d \in Client \ {c}
        PROVE  /\ IsABag(toClient'[d]) /\ BagToSet(toClient'[d]) \subseteq ChatClientMessage
               /\ IsABag(history'[d]) /\ BagToSet(history'[d]) \subseteq ChatClientMessage
    BY <1>2, BagTypes
  <2>. QED
    BY <1>2, <2>1, <2>2 DEF BagsNext
<1>7. ASSUME NEW d \in Client, NEW e
      PROVE  Count(d, e)' = Count(d, e)
  <2>1. Count(d, e)' = Copies(e, toClient'[d]) + Copies(e, history'[d])
    BY <1>6, CountingNext
  <2>2. Count(d, e) = Copies(e, toClient[d]) + Copies(e, history[d])
    BY Counting
  <2>3. Copies(e, toClient[d]) \in Nat /\ Copies(e, history[d]) \in Nat
    BY BagTypes, CopiesOfBag
  <2>4. CASE d # c
    BY <1>2, <2>1, <2>2, <2>4
  <2>5. CASE d = c
    <3>1. Copies(e, toClient'[c]) = Copies(e, toClient[c]) - (IF e = m THEN 1 ELSE 0)
      BY <1>2, <1>4
    <3>2. Copies(e, history'[c]) = Copies(e, history[c]) + (IF e = m THEN 1 ELSE 0)
      BY <1>2, <1>5
    <3>. QED
      BY <2>1, <2>2, <2>3, <2>5, <3>1, <3>2
  <2>. QED
    BY <2>4, <2>5
<1>. QED
  BY <1>6, <1>7

(* Who leaves is shown no more than it was. *)
LEMMA LeavingCounts ==
  ASSUME TypeOK, NEW c \in Client, ClientLeaves(c)
  PROVE  /\ BagsNext
         /\ \A d \in Client : \A e : Count(d, e)' \in Nat /\ Count(d, e)' <= Count(d, e)
         /\ \A d \in Client \ {c} : \A e : Count(d, e)' = Count(d, e)
<1>1. toClient' = [toClient EXCEPT ![c] = EmptyBag] /\ history' = history
  BY DEF ClientLeaves
<1>2. /\ toClient'[c] = EmptyBag
      /\ \A d \in Client \ {c} : toClient'[d] = toClient[d]
      /\ DOMAIN toClient' = Client /\ DOMAIN history' = Client
  BY <1>1, BagTypes
<1>3. BagsNext
  <2>1. IsABag(toClient'[c]) /\ BagToSet(toClient'[c]) \subseteq ChatClientMessage
    BY <1>2, CopiesOfNothing
  <2>2. ASSUME NEW d \in Client \ {c}
        PROVE  IsABag(toClient'[d]) /\ BagToSet(toClient'[d]) \subseteq ChatClientMessage
    BY <1>2, BagTypes
  <2>3. \A d \in Client : IsABag(history'[d]) /\ BagToSet(history'[d]) \subseteq ChatClientMessage
    BY <1>1, BagTypes
  <2>. QED
    BY <1>2, <2>1, <2>2, <2>3 DEF BagsNext
<1>4. ASSUME NEW d \in Client, NEW e
      PROVE  /\ Count(d, e)' \in Nat /\ Count(d, e)' <= Count(d, e)
             /\ d # c => Count(d, e)' = Count(d, e)
  <2>1. Count(d, e)' = Copies(e, toClient'[d]) + Copies(e, history'[d])
    BY <1>3, CountingNext
  <2>2. Count(d, e) = Copies(e, toClient[d]) + Copies(e, history[d])
    BY Counting
  <2>3. Copies(e, toClient[d]) \in Nat /\ Copies(e, history[d]) \in Nat
    BY BagTypes, CopiesOfBag
  <2>4. CASE d # c
    BY <1>1, <1>2, <2>1, <2>2, <2>3, <2>4
  <2>5. CASE d = c
    <3>1. Copies(e, toClient'[d]) = 0
      BY <1>2, <2>5, CopiesOfNothing
    <3>. QED
      BY <1>1, <2>1, <2>2, <2>3, <2>5, <3>1
  <2>. QED
    BY <2>4, <2>5
<1>. QED
  BY <1>3, <1>4

(* Other steps do not touch what is shown. *)
LEMMA OthersCount ==
  ASSUME TypeOK, toClient' = toClient, history' = history
  PROVE  /\ BagsNext
         /\ \A c \in Client : \A e : Count(c, e)' = Count(c, e)
<1>1. BagsNext
  BY DEF BagsNext, TypeOK
<1>2. ASSUME NEW c \in Client, NEW e
      PROVE  Count(c, e)' = Count(c, e)
  <2>1. Count(c, e)' = Copies(e, toClient'[c]) + Copies(e, history'[c])
    BY <1>1, CountingNext
  <2>. QED
    BY <2>1, Counting
<1>. QED
  BY <1>1, <1>2
-----------------------------------------------------------------------------
(* Types *)

(* The types of everything but the bags. *)
PlainTypes ==
  /\ arrivals \in Seq(Client) /\ serving \in Client \cup {None} /\ hub \subseteq Client
  /\ joining \in [Client -> {"no", "received", "asked", "answered"}]
  /\ answer \in [Client -> Aliases \cup {None}]
  /\ mailbox \in Seq(Msg)
  /\ DOMAIN clients \subseteq Client /\ clients \in [DOMAIN clients -> Aliases]
  /\ generated \in Nat /\ joined \in Seq(Client)
  /\ opened \in [{"client", "server"} -> SUBSET Client]
  /\ toServer \subseteq Post /\ acked \subseteq Post
  /\ acks \subseteq [post : Post, ok : BOOLEAN]
  /\ phase \in [Client -> Phases]
  /\ alias \in [Client -> Aliases \cup {None}]
  /\ inFlight \in [Client -> BOOLEAN]
  /\ author \in [Post -> Client \cup {None}] /\ audience \in [Post -> SUBSET Client]

(* Both together are the type invariant. *)
LEMMA TypesApart ==
  /\ TypeOK => PlainTypes
  /\ PlainTypes' /\ BagsNext => TypeOK'
<1>1. TypeOK => PlainTypes
  BY DEF TypeOK, PlainTypes
<1>2. PlainTypes' /\ BagsNext => TypeOK'
  BY DEF TypeOK, PlainTypes, BagsNext
<1>. QED
  BY <1>1, <1>2

(* What waits in the chat server's mailbox, before and after it is taken.  *)
LEMMA HeadOfMailbox ==
  ASSUME PlainTypes, NEW type, Takes(type), mailbox' = Tail(mailbox)
  PROVE  /\ mailbox' \in Seq(Msg)
         /\ 1 \in DOMAIN mailbox /\ Head(mailbox) = mailbox[1] /\ Head(mailbox) \in Msg
         /\ Head(mailbox).type = type
         /\ \A i \in DOMAIN mailbox' : /\ i + 1 \in DOMAIN mailbox /\ i + 1 # 1 /\ i \in Nat
                                       /\ mailbox'[i] = mailbox[i + 1] /\ mailbox'[i] \in Msg
BY TailElements DEF PlainTypes, Takes

(* What waits in it when a message arrives. *)
LEMMA EndOfMailbox ==
  ASSUME PlainTypes, NEW m \in Msg, mailbox' = Append(mailbox, m)
  PROVE  /\ mailbox' \in Seq(Msg)
         /\ DOMAIN mailbox' = DOMAIN mailbox \cup {Len(mailbox) + 1}
         /\ Len(mailbox) + 1 \notin DOMAIN mailbox
         /\ \A i \in DOMAIN mailbox : mailbox'[i] = mailbox[i] /\ mailbox[i] \in Msg
         /\ mailbox'[Len(mailbox) + 1] = m
BY AppendPositions, AppendElements DEF PlainTypes

(* The steps of the server keep the types. *)
LEMMA ServerTypes ==
  ASSUME PlainTypes, ServerStep
  PROVE  PlainTypes'
<1>1. CASE ServerTakesClient
  <2>1. Tail(arrivals) \in Seq(Client) /\ Head(arrivals) \in Client
    BY <1>1, TailElements DEF ServerTakesClient, PlainTypes
  <2>. QED
    BY <1>1, <2>1 DEF ServerTakesClient, PlainTypes, netVars, clientVars, historyVars
<1>2. CASE ServerMovesOn
  BY <1>2 DEF ServerMovesOn, PlainTypes, netVars, clientVars, historyVars
<1>3. CASE HandleConnect
  <2>. DEFINE c == Head(mailbox).portal
  <2>1. c \in Client /\ mailbox' \in Seq(Msg)
    BY <1>3, HeadOfMailbox, MailKinds DEF HandleConnect
  <2>2. Pair(generated) \in Aliases
    BY PairType DEF PlainTypes
  <2>3. Append(joined, c) \in Seq(Client)
    BY <2>1, AppendElements DEF PlainTypes
  <2>4. /\ clients' = [d \in DOMAIN clients \cup {c} |-> IF d = c THEN Pair(generated) ELSE clients[d]]
        /\ generated' = generated + 1
        /\ joining' = [joining EXCEPT ![c] = "answered"]
        /\ answer' = [answer EXCEPT ![c] = Pair(generated)]
        /\ joined' = Append(joined, c)
        /\ UNCHANGED <<arrivals, serving, hub, opened, toServer, acks, clientVars, author, audience, acked>>
    BY <1>3 DEF HandleConnect, Stores
  <2>. HIDE DEF c
  <2>5. /\ DOMAIN clients' \subseteq Client /\ clients' \in [DOMAIN clients' -> Aliases]
        /\ joining' \in [Client -> {"no", "received", "asked", "answered"}]
        /\ answer' \in [Client -> Aliases \cup {None}]
    BY <2>1, <2>2, <2>4 DEF PlainTypes
  <2>. QED
    BY <2>1, <2>3, <2>4, <2>5 DEF PlainTypes, clientVars
<1>4. CASE HandlePublic
  <2>1. Head(mailbox).post \in Post /\ mailbox' \in Seq(Msg)
    BY <1>4, HeadOfMailbox, MailKinds DEF HandlePublic
  <2>2. acks' \subseteq [post : Post, ok : BOOLEAN]
    <3>1. acks' = acks \cup {[post |-> Head(mailbox).post, ok |-> Head(mailbox).portal \in DOMAIN clients]}
      BY <1>4 DEF HandlePublic, Answers
    <3>2. PICK known \in BOOLEAN : known = (Head(mailbox).portal \in DOMAIN clients)
      <4>1. (Head(mailbox).portal \in DOMAIN clients) = TRUE \/ (Head(mailbox).portal \in DOMAIN clients) = FALSE
        OBVIOUS
      <4>. QED
        BY <4>1, Zenon
    <3>3. acks' = acks \cup {[post |-> Head(mailbox).post, ok |-> known]}
      BY <3>1, <3>2, Zenon
    <3>. QED
      BY <2>1, <3>3 DEF PlainTypes
  <2>. QED
    BY <1>4, <2>1, <2>2 DEF HandlePublic, PlainTypes, clientVars, historyVars
<1>5. CASE \E c \in Client : HubAsks(c)
  <2>1. PICK c \in Client : HubAsks(c)
    BY <1>5
  <2>2. [type |-> "Connect", portal |-> c] \in Msg
    BY DEF Msg
  <2>3. mailbox' \in Seq(Msg)
    BY <2>1, <2>2, EndOfMailbox DEF HubAsks
  <2>. QED
    BY <2>1, <2>3 DEF HubAsks, PlainTypes, netVars, clientVars, historyVars
<1>6. CASE ServerPublishesHub
  BY <1>6 DEF ServerPublishesHub, PlainTypes, netVars, clientVars, historyVars
<1>. QED
  BY <1>1, <1>2, <1>3, <1>4, <1>5, <1>6 DEF ServerStep

(* The steps of a client, and of its connection, keep the types. *)
LEMMA ClientTypes ==
  ASSUME PlainTypes, NEW c \in Client,
         \/ ClientStep(c) \/ ClientConnects(c) \/ ClientFails(c) \/ ClientLeaves(c)
         \/ \E side \in {"client", "server"} : PortalOpens(side, c)
         \/ \E p \in Post : UserPosts(c, p)
  PROVE  PlainTypes'
<1>. USE DEF PlainTypes, serverVars, netVars, clientVars, historyVars
<1>1. CASE ClientQueriesHub(c)
  BY <1>1 DEF ClientQueriesHub, Phases
<1>2. CASE HubIsFound(c)
  BY <1>2 DEF HubIsFound, Phases
<1>3. CASE ClientJoins(c)
  BY <1>3 DEF ClientJoins, Phases
<1>4. CASE ClientIsOnline(c)
  <2>1. answer[c] \in Aliases \cup {None}
    OBVIOUS
  <2>. QED
    BY <1>4, <2>1 DEF ClientIsOnline, Phases
<1>5. CASE ClientReceives(c)
  BY <1>5 DEF ClientReceives
<1>6. CASE ClientConnects(c)
  <2>1. Append(arrivals, c) \in Seq(Client)
    BY AppendElements
  <2>. QED
    BY <1>6, <2>1 DEF ClientConnects, Phases
<1>7. CASE ClientFails(c)
  BY <1>7 DEF ClientFails, Phases
<1>8. CASE ClientLeaves(c)
  BY <1>8 DEF ClientLeaves, Phases
<1>9. ASSUME NEW side \in {"client", "server"}, PortalOpens(side, c)
      PROVE  PlainTypes'
  BY <1>9 DEF PortalOpens
<1>10. ASSUME NEW p \in Post, UserPosts(c, p)
       PROVE  PlainTypes'
  BY <1>10 DEF UserPosts
<1>. QED
  BY <1>1, <1>2, <1>3, <1>4, <1>5, <1>6, <1>7, <1>8, <1>9, <1>10 DEF ClientStep

(* What arrives of the right type. *)
LEMMA ArrivalTypes ==
  ASSUME PlainTypes, PostsTakeOneWay, NEW p \in Post, PostArrives(p) \/ AckArrives(p)
  PROVE  PlainTypes'
<1>1. CASE PostArrives(p)
  <2>1. author[p] \in Client
    BY <1>1 DEF PostArrives, PostsTakeOneWay, PlainTypes
  <2>2. [type |-> "Public", portal |-> author[p], post |-> p] \in Msg
    BY <2>1 DEF Msg
  <2>3. mailbox' \in Seq(Msg)
    <3>1. CASE mailbox' = mailbox
      BY <3>1 DEF PlainTypes
    <3>2. CASE mailbox' = Append(mailbox, [type |-> "Public", portal |-> author[p], post |-> p])
      BY <2>2, <3>2, EndOfMailbox
    <3>. QED
      BY <1>1, <3>1, <3>2 DEF PostArrives
  <2>. QED
    BY <1>1, <2>3 DEF PostArrives, PlainTypes, clientVars, historyVars
<1>2. CASE AckArrives(p)
  <2>1. PICK a \in acks :
          /\ acks' = acks \ {a}
          /\ IF phase[author[p]] = "online"
             THEN /\ inFlight' = [inFlight EXCEPT ![author[p]] = FALSE]
                  /\ acked' = IF a.ok THEN acked \cup {p} ELSE acked
             ELSE UNCHANGED <<inFlight, acked>>
    BY <1>2 DEF AckArrives
  <2>2. /\ acks' \subseteq [post : Post, ok : BOOLEAN] /\ acked' \subseteq Post
        /\ inFlight' \in [Client -> BOOLEAN]
    <3>1. acks' \subseteq [post : Post, ok : BOOLEAN]
      BY <2>1 DEF PlainTypes
    <3>2. acked' \subseteq Post
      <4>1. acked' \subseteq acked \cup {p}
        BY <2>1
      <4>. QED
        BY <4>1 DEF PlainTypes
    <3>3. inFlight' \in [Client -> BOOLEAN]
      <4>1. inFlight' = inFlight \/ inFlight' = [inFlight EXCEPT ![author[p]] = FALSE]
        BY <2>1
      <4>. QED
        BY <4>1 DEF PlainTypes
    <3>. QED
      BY <3>1, <3>2, <3>3
  <2>3. UNCHANGED <<serverVars, opened, toServer, phase, alias, joined, author, audience>>
    BY <1>2 DEF AckArrives
  <2>. QED
    BY <2>2, <2>3 DEF PlainTypes, serverVars
<1>. QED
  BY <1>1, <1>2
-----------------------------------------------------------------------------
(* Steps that do not concern the chat *)

(* A client that has not joined moves on, and stays one that has not.      *)
Outside(c) == phase[c] \notin Members \cup {"joining", "failed"}
QuietStep ==
  /\ \A c \in Client : phase'[c] = phase[c] \/ (Outside(c) /\ phase'[c] \notin Members \cup {"joining"})
  /\ UNCHANGED <<joining, answer, mailbox, clients, generated, toServer, acks, toClient, history,
                 alias, joined, author, audience, acked>>

(* Which steps these are. *)
LEMMA QuietSteps ==
  ASSUME PlainTypes
  PROVE  /\ ServerTakesClient \/ ServerPublishesHub \/ ServerMovesOn => QuietStep
         /\ \A c \in Client :
              (\/ ClientConnects(c) \/ ClientQueriesHub(c) \/ HubIsFound(c) \/ ClientFails(c)
               \/ \E side \in {"client", "server"} : PortalOpens(side, c)) => QuietStep
<1>1. ServerTakesClient => QuietStep
  BY DEF ServerTakesClient, QuietStep, netVars, clientVars, historyVars
<1>2. ServerMovesOn => QuietStep
  BY DEF ServerMovesOn, QuietStep, netVars, clientVars, historyVars
<1>3. ASSUME NEW c \in Client, ClientConnects(c)
      PROVE  QuietStep
  BY <1>3 DEF ClientConnects, QuietStep, Outside, Members, PlainTypes, netVars, historyVars
<1>4. ASSUME NEW c \in Client, ClientQueriesHub(c)
      PROVE  QuietStep
  BY <1>4 DEF ClientQueriesHub, QuietStep, Outside, Members, PlainTypes, serverVars, netVars, historyVars
<1>5. ASSUME NEW c \in Client, HubIsFound(c)
      PROVE  QuietStep
  BY <1>5 DEF HubIsFound, QuietStep, Outside, Members, PlainTypes, serverVars, netVars, historyVars
<1>6. ASSUME NEW c \in Client, ClientFails(c)
      PROVE  QuietStep
  BY <1>6 DEF ClientFails, QuietStep, Outside, Members, PlainTypes, serverVars, netVars, historyVars
<1>7. ASSUME NEW c \in Client, NEW side \in {"client", "server"}, PortalOpens(side, c)
      PROVE  QuietStep
  BY <1>7 DEF PortalOpens, QuietStep, serverVars, clientVars, historyVars
<1>8. ServerPublishesHub => QuietStep
  BY DEF ServerPublishesHub, QuietStep, netVars, clientVars, historyVars
<1>. QED
  BY <1>1, <1>2, <1>3, <1>4, <1>5, <1>6, <1>7, <1>8

(* What the invariant says beside the types. *)
ChatIsSound ==
  /\ JoiningIsSound /\ MailIsSound /\ JoinedIsSound
  /\ AuthorsAreMembers /\ PostsTakeOneWay /\ ShownIsSound /\ AcksAreSound /\ NewsIsCounted

(* Whom an alias was given since somebody joined depends on two variables. *)
LEMMA GivenStays ==
  ASSUME joined' = joined, answer' = answer
  PROVE  \A c, a : GivenSince(c, a)' = GivenSince(c, a)
BY DEF GivenSince, JoinedBefore

(* They keep the invariant. *)
LEMMA QuietStepsKeep ==
  ASSUME TypeOK, ChatIsSound, QuietStep
  PROVE  BagsNext /\ ChatIsSound'
<1>1. BagsNext /\ \A c \in Client : \A e : Count(c, e)' = Count(c, e)
  BY OthersCount DEF QuietStep
<1>2. JoiningIsSound'
  BY DEF ChatIsSound, JoiningIsSound, QuietStep, Outside
<1>3. MailIsSound' /\ JoinedIsSound'
  BY DEF ChatIsSound, MailIsSound, JoinedIsSound, QuietStep, Pair
<1>4. AuthorsAreMembers'
  BY TypesApart DEF PlainTypes, ChatIsSound, AuthorsAreMembers, QuietStep, Outside
<1>5. PostsTakeOneWay' /\ \A p : (Handled(p)' <=> Handled(p))
  BY DEF ChatIsSound, PostsTakeOneWay, Handled, InMailbox, QuietStep
<1>6. ShownIsSound'
  BY <1>1, <1>5 DEF ChatIsSound, ShownIsSound, QuietStep, PostOf
<1>7. AcksAreSound'
  <2>1. ASSUME NEW p \in Post, Reached(p)
        PROVE  Reached(p)'
    <3>1. ASSUME NEW c \in audience[p], phase'[c] = "online"
          PROVE  Count(c, PostOf(clients[author[p]], p))' > 0
      <4>1. c \in Client /\ phase[c] = "online"
        BY <3>1, TypesApart DEF PlainTypes, QuietStep, Members
      <4>. QED
        BY <1>1, <2>1, <4>1 DEF Reached, QuietStep, PostOf
    <3>. QED
      BY <3>1 DEF Reached, QuietStep, PostOf
  <2>2. acked \subseteq Post /\ \A a \in acks : a.post \in Post
    BY TypesApart DEF PlainTypes
  <2>. QED
    BY <2>1, <2>2 DEF ChatIsSound, AcksAreSound, QuietStep
<1>8. NewsIsCounted'
  <2>1. \A c, a : GivenSince(c, a)' = GivenSince(c, a)
    BY GivenStays DEF QuietStep
  <2>2. \A c \in Client : phase'[c] \notin Gone => phase[c] \notin Gone
    BY DEF QuietStep, Outside, Gone, Members
  <2>. QED
    BY <1>1, <2>1, <2>2 DEF ChatIsSound, NewsIsCounted, JoinOf
<1>. QED
  BY <1>1, <1>2, <1>3, <1>4, <1>5, <1>6, <1>7, <1>8 DEF ChatIsSound

(* Whom a post has reached, after a step. *)
LEMMA ReachedNext ==
  ASSUME NEW p \in Post, NEW a, clients'[author'[p]] = a,
         \A d \in audience'[p] : phase'[d] = "online" => Count(d, PostOf(a, p))' > 0
  PROVE  Reached(p)'
BY DEF Reached, Count, PostOf
-----------------------------------------------------------------------------
(* Joining *)

(* Each lemma of the next two sections is about one handler; what it       *)
(* leaves alone is said in one step, what it changes in the others.        *)

(* An author's portal is one that the chat server knows. *)
LEMMA AuthorsAreKnown ==
  ASSUME TypeOK, ChatIsSound, NEW p \in Post, author[p] # None
  PROVE  /\ author[p] \in Client /\ author[p] \in DOMAIN clients
         /\ phase[author[p]] \in Members
         /\ clients[author[p]] \in Aliases
         /\ alias[author[p]] = clients[author[p]]
BY TypesApart DEF PlainTypes, ChatIsSound, AuthorsAreMembers, JoiningIsSound

(* A hub hands a Connect on to the chat server. *)
LEMMA ClientJoinsKeeps ==
  ASSUME TypeOK, ChatIsSound, NEW c \in Client, ClientJoins(c)
  PROVE  BagsNext /\ ChatIsSound'
<1>0. PlainTypes
  BY TypesApart
<1>1. /\ phase[c] = "asked"
      /\ phase' = [phase EXCEPT ![c] = "joining"] /\ joining' = [joining EXCEPT ![c] = "received"]
      /\ UNCHANGED <<answer, mailbox, clients, generated, toServer, acks, toClient, history,
                     alias, joined, author, audience, acked>>
  BY DEF ClientJoins, netVars, historyVars
<1>2. BagsNext /\ \A d \in Client : \A e : Count(d, e)' = Count(d, e)
  BY <1>1, OthersCount
<1>3. JoiningIsSound'
  <2>1. joining[c] = "no" /\ c \notin DOMAIN clients
    BY <1>1 DEF ChatIsSound, JoiningIsSound, Members
  <2>. QED
    BY <1>0, <1>1, <2>1 DEF ChatIsSound, JoiningIsSound, Members, PlainTypes
<1>4. MailIsSound'
  <2>1. \A d \in Client : joining[d] = "asked" => joining'[d] = "asked"
    BY <1>0, <1>1 DEF ChatIsSound, JoiningIsSound, Members, PlainTypes
  <2>2. \A i \in DOMAIN mailbox : mailbox[i].portal \in Client
    BY <1>0, EachElement, MailKinds DEF PlainTypes
  <2>. QED
    BY <1>1, <2>1, <2>2 DEF ChatIsSound, MailIsSound
<1>5. JoinedIsSound' /\ PostsTakeOneWay' /\ \A p : (Handled(p)' <=> Handled(p))
  BY <1>1 DEF ChatIsSound, JoinedIsSound, PostsTakeOneWay, Handled, InMailbox, Pair
<1>6. AuthorsAreMembers'
  BY <1>0, <1>1 DEF ChatIsSound, AuthorsAreMembers, Members, PlainTypes
<1>7. ShownIsSound'
  BY <1>1, <1>2, <1>5 DEF ChatIsSound, ShownIsSound, PostOf
<1>8. AcksAreSound'
  <2>1. ASSUME NEW p \in Post, Reached(p)
        PROVE  Reached(p)'
    <3>1. ASSUME NEW d \in audience[p], phase'[d] = "online"
          PROVE  Count(d, PostOf(clients[author[p]], p))' > 0
      <4>1. d \in Client /\ phase[d] = "online"
        BY <1>0, <1>1, <3>1 DEF PlainTypes
      <4>. QED
        BY <1>1, <1>2, <2>1, <4>1 DEF Reached, PostOf
    <3>. QED
      BY <1>1, <3>1 DEF Reached, PostOf
  <2>2. acked \subseteq Post /\ \A a \in acks : a.post \in Post
    BY <1>0 DEF PlainTypes
  <2>. QED
    BY <1>1, <2>1, <2>2 DEF ChatIsSound, AcksAreSound
<1>9. NewsIsCounted'
  <2>1. \A d, a : GivenSince(d, a)' = GivenSince(d, a)
    BY <1>1, GivenStays
  <2>2. \A d \in Client : phase'[d] \notin Gone => phase[d] \notin Gone
    BY <1>0, <1>1 DEF PlainTypes, Gone
  <2>. QED
    BY <1>2, <2>1, <2>2 DEF ChatIsSound, NewsIsCounted, JoinOf
<1>. QED
  BY <1>2, <1>3, <1>4, <1>5, <1>6, <1>7, <1>8, <1>9 DEF ChatIsSound

(* A client learns its alias. *)
LEMMA ClientIsOnlineKeeps ==
  ASSUME TypeOK, ChatIsSound, NEW c \in Client, ClientIsOnline(c)
  PROVE  BagsNext /\ ChatIsSound'
<1>0. PlainTypes
  BY TypesApart
<1>1. /\ phase[c] = "joining" /\ joining[c] = "answered"
      /\ phase' = [phase EXCEPT ![c] = "online"] /\ alias' = [alias EXCEPT ![c] = answer[c]]
      /\ UNCHANGED <<joining, answer, mailbox, clients, generated, toServer, acks, toClient, history,
                     joined, author, audience, acked>>
  BY DEF ClientIsOnline, serverVars, netVars, historyVars
<1>2. BagsNext /\ \A d \in Client : \A e : Count(d, e)' = Count(d, e)
  BY <1>1, OthersCount
<1>3. JoiningIsSound'
  BY <1>0, <1>1 DEF ChatIsSound, JoiningIsSound, Members, PlainTypes
<1>4. MailIsSound' /\ JoinedIsSound' /\ PostsTakeOneWay' /\ \A p : (Handled(p)' <=> Handled(p))
  BY <1>1 DEF ChatIsSound, MailIsSound, JoinedIsSound, PostsTakeOneWay, Handled, InMailbox, Pair
<1>6. AuthorsAreMembers'
  BY <1>0, <1>1 DEF ChatIsSound, AuthorsAreMembers, Members, PlainTypes
<1>7. ShownIsSound'
  BY <1>1, <1>2, <1>4 DEF ChatIsSound, ShownIsSound, PostOf
<1>8. AcksAreSound'
  <2>1. ASSUME NEW p \in Post, Reached(p)
        PROVE  Reached(p)'
    <3>1. ASSUME NEW d \in audience[p], phase'[d] = "online"
          PROVE  Count(d, PostOf(clients[author[p]], p))' > 0
      <4>1. d \in Client /\ phase[d] \in Members
        BY <1>0, <3>1 DEF PlainTypes, ChatIsSound, AuthorsAreMembers
      <4>2. phase[d] = "online"
        BY <1>0, <1>1, <3>1, <4>1 DEF PlainTypes, Members
      <4>. QED
        BY <1>1, <1>2, <2>1, <4>1, <4>2 DEF Reached, PostOf
    <3>. QED
      BY <1>1, <3>1 DEF Reached, PostOf
  <2>2. acked \subseteq Post /\ \A a \in acks : a.post \in Post
    BY <1>0 DEF PlainTypes
  <2>. QED
    BY <1>1, <2>1, <2>2 DEF ChatIsSound, AcksAreSound
<1>9. NewsIsCounted'
  <2>1. \A d, a : GivenSince(d, a)' = GivenSince(d, a)
    BY <1>1, GivenStays
  <2>2. \A d \in Client : phase'[d] \notin Gone => phase[d] \notin Gone
    BY <1>0, <1>1 DEF PlainTypes, Gone
  <2>. QED
    BY <1>2, <2>1, <2>2 DEF ChatIsSound, NewsIsCounted, JoinOf
<1>. QED
  BY <1>2, <1>3, <1>4, <1>6, <1>7, <1>8, <1>9 DEF ChatIsSound

(* The hub of a client that has joined asks for its alias. *)
LEMMA HubAsksKeeps ==
  ASSUME TypeOK, ChatIsSound, NEW c \in Client, HubAsks(c)
  PROVE  BagsNext /\ ChatIsSound'
<1>0. PlainTypes
  BY TypesApart
<1>. DEFINE m == [type |-> "Connect", portal |-> c]
<1>1. /\ joining[c] = "received"
      /\ joining' = [joining EXCEPT ![c] = "asked"]
      /\ mailbox' = Append(mailbox, m)
      /\ UNCHANGED <<answer, clients, generated, toServer, acks, toClient, history, phase, alias,
                     joined, author, audience, acked>>
  BY DEF HubAsks, netVars, clientVars, historyVars
<1>m. m \in Msg /\ m.type = "Connect" /\ m.portal = c
  BY DEF Msg
<1>. HIDE DEF m
<1>2. BagsNext /\ \A d \in Client : \A e : Count(d, e)' = Count(d, e)
  BY <1>1, OthersCount
<1>3. JoiningIsSound'
  BY <1>0, <1>1 DEF ChatIsSound, JoiningIsSound, PlainTypes
<1>a. /\ DOMAIN mailbox' = DOMAIN mailbox \cup {Len(mailbox) + 1}
      /\ \A i \in DOMAIN mailbox : mailbox'[i] = mailbox[i] /\ mailbox[i] \in Msg
      /\ mailbox'[Len(mailbox) + 1] = m
  BY <1>0, <1>1, <1>m, EndOfMailbox
<1>4. MailIsSound'
  <2>1. ASSUME NEW i \in DOMAIN mailbox
        PROVE  /\ mailbox[i].type = "Connect" => mailbox[i].portal # c /\ joining'[mailbox[i].portal] = "asked"
               /\ mailbox[i] # m
    <3>1. mailbox[i].portal \in Client
      BY <1>a, MailKinds
    <3>. QED
      BY <1>0, <1>1, <1>m, <3>1 DEF ChatIsSound, MailIsSound, PlainTypes
  <2>2. joining'[c] = "asked"
    BY <1>0, <1>1 DEF PlainTypes
  <2>. QED
    BY <1>1, <1>m, <1>a, <2>1, <2>2 DEF ChatIsSound, MailIsSound
<1>5. \A p : (InMailbox(p)' <=> InMailbox(p)) /\ (Handled(p)' <=> Handled(p))
  BY <1>1, <1>m, <1>a DEF InMailbox, Handled
<1>6. JoinedIsSound' /\ PostsTakeOneWay' /\ AuthorsAreMembers'
  BY <1>1, <1>5 DEF ChatIsSound, JoinedIsSound, PostsTakeOneWay, AuthorsAreMembers, Pair
<1>7. ShownIsSound'
  BY <1>1, <1>2, <1>5 DEF ChatIsSound, ShownIsSound, PostOf
<1>8. AcksAreSound'
  <2>1. ASSUME NEW p \in Post
        PROVE  Reached(p)' = Reached(p)
    BY <1>0, <1>1, <1>2 DEF Reached, PostOf, PlainTypes
  <2>2. acked \subseteq Post /\ \A a \in acks : a.post \in Post
    BY <1>0 DEF PlainTypes
  <2>. QED
    BY <1>1, <2>1, <2>2 DEF ChatIsSound, AcksAreSound
<1>9. NewsIsCounted'
  <2>1. \A d, a : GivenSince(d, a)' = GivenSince(d, a)
    BY <1>1, GivenStays
  <2>. QED
    BY <1>1, <1>2, <2>1 DEF ChatIsSound, NewsIsCounted, JoinOf
<1>. QED
  BY <1>2, <1>3, <1>4, <1>6, <1>7, <1>8, <1>9 DEF ChatIsSound

(* Whoever joins has joined after all others, and after itself. *)
LEMMA JoinedNext ==
  ASSUME PlainTypes, NEW c \in Client, joined' = Append(joined, c),
         \A i \in DOMAIN joined : joined[i] # c
  PROVE  /\ DOMAIN joined' = DOMAIN joined \cup {Len(joined) + 1}
         /\ Len(joined') = Len(joined) + 1 /\ Len(joined) \in Nat /\ DOMAIN joined = 1 .. Len(joined)
         /\ joined'[Len(joined) + 1] = c
         /\ \A i \in DOMAIN joined : joined'[i] = joined[i]
         /\ \A d, e : JoinedBefore(d, e)' <=>
                        \/ JoinedBefore(d, e)
                        \/ e = c /\ (d = c \/ \E i \in DOMAIN joined : joined[i] = d)
<1>1. /\ DOMAIN joined' = DOMAIN joined \cup {Len(joined) + 1}
      /\ Len(joined') = Len(joined) + 1 /\ Len(joined) \in Nat /\ DOMAIN joined = 1 .. Len(joined)
      /\ joined'[Len(joined) + 1] = c
      /\ \A i \in DOMAIN joined : joined'[i] = joined[i]
  BY AppendPositions DEF PlainTypes
<1>2. ASSUME NEW d, NEW e
      PROVE  JoinedBefore(d, e)' <=>
               \/ JoinedBefore(d, e)
               \/ e = c /\ (d = c \/ \E i \in DOMAIN joined : joined[i] = d)
  <2>1. ASSUME JoinedBefore(d, e)
        PROVE  JoinedBefore(d, e)'
    BY <1>1, <2>1 DEF JoinedBefore
  <2>2. ASSUME e = c, d = c \/ \E i \in DOMAIN joined : joined[i] = d
        PROVE  JoinedBefore(d, e)'
    BY <1>1, <2>2 DEF JoinedBefore
  <2>3. ASSUME JoinedBefore(d, e)', ~JoinedBefore(d, e)
        PROVE  e = c /\ (d = c \/ \E i \in DOMAIN joined : joined[i] = d)
    <3>1. PICK i \in DOMAIN joined', j \in DOMAIN joined' : i <= j /\ joined'[i] = d /\ joined'[j] = e
      BY <2>3 DEF JoinedBefore
    <3>2. ~(i \in DOMAIN joined /\ j \in DOMAIN joined)
      BY <1>1, <2>3, <3>1 DEF JoinedBefore
    <3>3. j = Len(joined) + 1
      BY <1>1, <3>1, <3>2
    <3>. QED
      BY <1>1, <3>1, <3>3
  <2>. QED
    BY <2>1, <2>2, <2>3
<1>. QED
  BY <1>1, <1>2

(* How many an alias was given since somebody joined is a number, and what *)
(* one more makes of it.                                                   *)
LEMMA GivenIsFinite ==
  ASSUME NEW c, NEW a
  PROVE  IsFiniteSet(GivenSince(c, a)) /\ Cardinality(GivenSince(c, a)) \in Nat
<1>1. GivenSince(c, a) \subseteq Client
  BY DEF GivenSince
<1>2. IsFiniteSet(GivenSince(c, a))
  BY <1>1, ChatAssumption, FS_Subset
<1>. QED
  BY <1>2, FS_CardinalityType

(* The chat server gives a client an alias and tells everyone. *)
LEMMA HandleConnectKeeps ==
  ASSUME TypeOK, ChatIsSound, HandleConnect
  PROVE  BagsNext /\ ChatIsSound'
<1>0. PlainTypes
  BY TypesApart
<1>. DEFINE c == Head(mailbox).portal
            given == Pair(generated)
<1>1. /\ Takes("Connect")
      /\ clients' = [d \in DOMAIN clients \cup {c} |-> IF d = c THEN given ELSE clients[d]]
      /\ generated' = generated + 1
      /\ joining' = [joining EXCEPT ![c] = "answered"]
      /\ answer' = [answer EXCEPT ![c] = given]
      /\ SendsAll(DOMAIN clients \cup {c}, JoinOf(given))
      /\ joined' = Append(joined, c)
      /\ mailbox' = Tail(mailbox)
      /\ UNCHANGED <<toServer, acks, history, phase, alias, author, audience, acked>>
  BY DEF HandleConnect, Stores, Told, JoinOf, clientVars
<1>a. /\ 1 \in DOMAIN mailbox /\ Head(mailbox) = mailbox[1] /\ Head(mailbox) \in Msg
      /\ Head(mailbox).type = "Connect"
      /\ \A i \in DOMAIN mailbox' : /\ i + 1 \in DOMAIN mailbox /\ i + 1 # 1 /\ i \in Nat
                                    /\ mailbox'[i] = mailbox[i + 1] /\ mailbox'[i] \in Msg
  BY <1>0, <1>1, HeadOfMailbox
<1>b. /\ c \in Client /\ joining[c] = "asked" /\ phase[c] \in {"joining", "failed"}
      /\ c \notin DOMAIN clients /\ answer[c] = None
  <2>1. c \in Client /\ joining[c] = "asked"
    BY <1>a, MailKinds DEF ChatIsSound, MailIsSound
  <2>. QED
    BY <2>1 DEF ChatIsSound, JoiningIsSound, Members
<1>c. given \in Aliases /\ given # None /\ JoinOf(given) \in ChatClientMessage
  BY <1>0, PairType, MessageKinds DEF PlainTypes
<1>m. \A i \in DOMAIN mailbox' : mailbox'[i].type = "Connect" => mailbox'[i].portal # c
  <2>1. ASSUME NEW i \in DOMAIN mailbox', mailbox'[i].type = "Connect", mailbox'[i].portal = c
        PROVE  FALSE
    <3>1. mailbox[i + 1] = mailbox[1]
      BY <1>a, <2>1 DEF Msg
    <3>. QED
      BY <1>a, <3>1 DEF ChatIsSound, MailIsSound
  <2>. QED
    BY <2>1
<1>. HIDE DEF c, given
<1>2. /\ BagsNext
      /\ \A d \in Client : \A e :
           Count(d, e)' = Count(d, e)
                          + (IF d \in DOMAIN clients \cup {c} /\ Present(d) /\ e = JoinOf(given) THEN 1 ELSE 0)
  BY <1>1, <1>c, SendingCounts
<1>d. /\ DOMAIN clients' = DOMAIN clients \cup {c}
      /\ clients'[c] = given
      /\ \A d \in DOMAIN clients : clients'[d] = clients[d]
      /\ DOMAIN clients \subseteq Client
  BY <1>0, <1>1, <1>b DEF PlainTypes
<1>3. JoiningIsSound'
  BY <1>0, <1>1, <1>b, <1>d DEF ChatIsSound, JoiningIsSound, Members, PlainTypes
<1>4. MailIsSound'
  <2>1. \A i, j \in DOMAIN mailbox' : mailbox'[i] = mailbox'[j] => i = j
    BY <1>a DEF ChatIsSound, MailIsSound
  <2>2. ASSUME NEW i \in DOMAIN mailbox'
        PROVE  /\ mailbox'[i].type = "Connect" => joining'[mailbox'[i].portal] = "asked"
               /\ mailbox'[i].type = "Public" => mailbox'[i].portal = author'[mailbox'[i].post]
    <3>1. mailbox'[i].portal \in Client /\ mailbox'[i] = mailbox[i + 1] /\ i + 1 \in DOMAIN mailbox
      BY <1>a, MailKinds
    <3>. QED
      BY <1>0, <1>1, <1>m, <3>1 DEF ChatIsSound, MailIsSound, PlainTypes
  <2>. QED
    BY <2>1, <2>2 DEF MailIsSound
<1>5. \A p : (InMailbox(p)' <=> InMailbox(p)) /\ (Handled(p)' <=> Handled(p))
  <2>1. ASSUME NEW p
        PROVE  (InMailbox(p)' <=> InMailbox(p))
    <3>1. ASSUME InMailbox(p)'
          PROVE  InMailbox(p)
      BY <1>a, <3>1 DEF InMailbox
    <3>2. ASSUME InMailbox(p)
          PROVE  InMailbox(p)'
      <4>1. PICK i \in DOMAIN mailbox : mailbox[i].type = "Public" /\ mailbox[i].post = p
        BY <3>2 DEF InMailbox
      <4>2. i # 1
        BY <1>a, <4>1
      <4>3. i - 1 \in DOMAIN mailbox' /\ mailbox'[i - 1] = mailbox[i]
        <5>1. mailbox \in Seq(Msg) /\ mailbox # <<>> /\ mailbox' = Tail(mailbox)
          BY <1>0, <1>1 DEF PlainTypes, Takes
        <5>. QED
          BY <4>2, <5>1, TailElements
      <4>. QED
        BY <4>1, <4>3 DEF InMailbox
    <3>. QED
      BY <3>1, <3>2
  <2>2. toServer' = toServer /\ author' = author
    BY <1>1
  <2>3. ASSUME NEW p
        PROVE  (Handled(p)' <=> Handled(p))
    <3>1. (InMailbox(p)' <=> InMailbox(p))
      BY <2>1
    <3>. QED
      BY <2>2, <3>1 DEF Handled
  <2>. QED
    BY <2>1, <2>3
<1>e. \A i \in DOMAIN joined : joined[i] # c /\ joined[i] \in Client
  BY <1>b, <1>d DEF ChatIsSound, JoinedIsSound
<1>f. /\ DOMAIN joined' = DOMAIN joined \cup {Len(joined) + 1}
      /\ Len(joined') = Len(joined) + 1 /\ Len(joined) \in Nat /\ DOMAIN joined = 1 .. Len(joined)
      /\ joined'[Len(joined) + 1] = c
      /\ \A i \in DOMAIN joined : joined'[i] = joined[i]
      /\ \A d, e : JoinedBefore(d, e)' <=>
                     \/ JoinedBefore(d, e)
                     \/ e = c /\ (d = c \/ \E i \in DOMAIN joined : joined[i] = d)
  BY <1>0, <1>1, <1>b, <1>e, JoinedNext
<1>6. JoinedIsSound'
  <2>1. generated \in Nat /\ Len(joined') <= generated' /\ generated' - Len(joined') = generated - Len(joined)
    BY <1>0, <1>1, <1>f DEF ChatIsSound, JoinedIsSound, PlainTypes
  <2>2. \A i, j \in DOMAIN joined' : joined'[i] = joined'[j] => i = j
    BY <1>e, <1>f DEF ChatIsSound, JoinedIsSound
  <2>3. ASSUME NEW i \in DOMAIN joined'
        PROVE  /\ joined'[i] \in DOMAIN clients'
               /\ clients'[joined'[i]] = Pair(generated' - Len(joined') + i - 1)
    <3>1. CASE i \in DOMAIN joined
      BY <1>d, <1>f, <2>1, <3>1 DEF ChatIsSound, JoinedIsSound
    <3>2. CASE i = Len(joined) + 1
      <4>1. generated - Len(joined) + i - 1 = generated
        BY <1>f, <2>1, <3>2
      <4>. QED
        BY <1>d, <1>f, <2>1, <3>2, <4>1 DEF given
    <3>. QED
      BY <1>f, <3>1, <3>2
  <2>4. ASSUME NEW d \in DOMAIN clients'
        PROVE  \E i \in DOMAIN joined' : joined'[i] = d
    BY <1>d, <1>f DEF ChatIsSound, JoinedIsSound
  <2>5. \A n : Pair(n)' = Pair(n)
    BY DEF Pair
  <2>. QED
    BY <2>1, <2>2, <2>3, <2>4, <2>5 DEF JoinedIsSound
<1>7. PostsTakeOneWay' /\ AuthorsAreMembers'
  BY <1>1, <1>5 DEF ChatIsSound, PostsTakeOneWay, AuthorsAreMembers
<1>g. \A d \in Client : \A a \in Aliases : \A p \in Post : Count(d, PostOf(a, p))' = Count(d, PostOf(a, p))
  <2>1. ASSUME NEW d \in Client, NEW a \in Aliases, NEW p \in Post
        PROVE  Count(d, PostOf(a, p))' = Count(d, PostOf(a, p))
    <3>1. PostOf(a, p) # JoinOf(given)
      BY <1>c, MessageKinds
    <3>2. PostOf(a, p)' = PostOf(a, p) /\ Count(d, PostOf(a, p)) \in Nat
      BY Counting DEF PostOf
    <3>. QED
      BY <1>2, <3>1, <3>2
  <2>. QED
    BY <2>1
<1>8. ShownIsSound'
  <2>1. ASSUME NEW d \in Client, NEW a \in Aliases, NEW p \in Post, Count(d, PostOf(a, p))' > 0
        PROVE  Handled(p)' /\ a = clients'[author'[p]] /\ Count(d, PostOf(a, p))' = 1
    <3>1. Handled(p) /\ a = clients[author[p]] /\ Count(d, PostOf(a, p)) = 1
      BY <1>g, <2>1 DEF ChatIsSound, ShownIsSound
    <3>2. author[p] \in DOMAIN clients
      BY <3>1, AuthorsAreKnown DEF Handled
    <3>. QED
      BY <1>1, <1>5, <1>d, <1>g, <3>1, <3>2
  <2>. QED
    BY <2>1 DEF ShownIsSound
<1>9. AcksAreSound'
  <2>1. ASSUME NEW p \in Post, Reached(p), Handled(p)
        PROVE  Reached(p)'
    <3>1. author[p] \in DOMAIN clients /\ clients[author[p]] \in Aliases
      BY <2>1, AuthorsAreKnown DEF Handled
    <3>2. clients'[author[p]] = clients[author[p]]
      BY <1>d, <3>1
    <3>3. PICK a \in Aliases : a = clients[author[p]]
      BY <3>1
    <3>4. ASSUME NEW d \in audience[p], phase[d] = "online"
          PROVE  Count(d, PostOf(a, p))' > 0
      <4>1. d \in Client /\ Count(d, PostOf(a, p)) > 0
        BY <1>0, <2>1, <3>3, <3>4 DEF PlainTypes, Reached
      <4>2. Count(d, PostOf(a, p))' = Count(d, PostOf(a, p))
        BY <1>g, <4>1
      <4>. QED
        BY <4>1, <4>2
    <3>5. author' = author /\ phase' = phase /\ audience' = audience
      BY <1>1
    <3>. QED
      BY <3>2, <3>3, <3>4, <3>5, ReachedNext
  <2>2. acked \subseteq Post /\ \A a \in acks : a.post \in Post
    BY <1>0 DEF PlainTypes
  <2>. QED
    BY <1>1, <2>1, <2>2 DEF ChatIsSound, AcksAreSound, PostsTakeOneWay
<1>10. NewsIsCounted'
  <2>1. ASSUME NEW d \in Client, NEW a \in Aliases, phase[d] \notin Gone
        PROVE  Count(d, JoinOf(a))' = Cardinality(GivenSince(d, a)')
    <3>1. /\ Count(d, JoinOf(a)) = Cardinality(GivenSince(d, a))
          /\ IsFiniteSet(GivenSince(d, a)) /\ Cardinality(GivenSince(d, a)) \in Nat
      BY <2>1, GivenIsFinite DEF ChatIsSound, NewsIsCounted
    <3>2. \A e \in Client \ {c} : answer'[e] = answer[e]
      BY <1>0, <1>1, <1>b DEF PlainTypes
    <3>3. answer'[c] = given
      BY <1>0, <1>1, <1>b DEF PlainTypes
    <3>4. c \notin GivenSince(d, a)
      BY <1>b, ChatAssumption DEF GivenSince
    <3>5. JoinOf(a)' = JoinOf(a) /\ (JoinOf(a) = JoinOf(given) <=> a = given)
      BY <1>c, MessageKinds DEF JoinOf
    <3>6. d \in DOMAIN clients => Present(d)
      BY <1>0, <2>1 DEF ChatIsSound, JoiningIsSound, Members, Gone, Present, PlainTypes
    <3>7. d = c => Present(d)
      BY <1>b, <2>1 DEF Gone, Present
    <3>8. d \in DOMAIN clients <=> \E i \in DOMAIN joined : joined[i] = d
      BY DEF ChatIsSound, JoinedIsSound
    <3>9. CASE d \in DOMAIN clients \cup {c} /\ a = given
      <4>1. GivenSince(d, a)' = GivenSince(d, a) \cup {c}
        BY <1>b, <1>f, <3>2, <3>3, <3>8, <3>9 DEF GivenSince
      <4>2. Cardinality(GivenSince(d, a) \cup {c}) = Cardinality(GivenSince(d, a)) + 1
        BY <3>1, <3>4, FS_AddElement
      <4>. QED
        BY <1>2, <3>1, <3>5, <3>6, <3>7, <3>9, <4>1, <4>2
    <3>10. CASE ~(d \in DOMAIN clients \cup {c} /\ a = given)
      <4>1. GivenSince(d, a)' = GivenSince(d, a)
        <5>1. ASSUME NEW e \in Client, JoinedBefore(d, e), answer[e] = a
              PROVE  JoinedBefore(d, e)' /\ answer'[e] = a
          <6>1. e # c
            BY <3>4, <5>1 DEF GivenSince
          <6>. QED
            BY <1>f, <3>2, <5>1, <6>1
        <5>2. ASSUME NEW e \in Client, JoinedBefore(d, e)', answer'[e] = a
              PROVE  JoinedBefore(d, e) /\ answer[e] = a
          <6>1. e # c \/ JoinedBefore(d, c)
            BY <1>f, <3>3, <3>8, <3>10, <5>2
          <6>2. ~JoinedBefore(d, c)
            BY <1>e DEF JoinedBefore
          <6>. QED
            BY <1>f, <3>2, <5>2, <6>1, <6>2
        <5>. QED
          BY <5>1, <5>2 DEF GivenSince
      <4>. QED
        BY <1>2, <3>1, <3>5, <3>10, <4>1
    <3>. QED
      BY <3>9, <3>10
  <2>. QED
    BY <1>1, <2>1 DEF NewsIsCounted
<1>. QED
  BY <1>2, <1>3, <1>4, <1>6, <1>7, <1>8, <1>9, <1>10 DEF ChatIsSound
-----------------------------------------------------------------------------
(* Posting *)

(* The chat server hands a post on to everyone that it knows. *)
LEMMA HandlePublicKeeps ==
  ASSUME TypeOK, ChatIsSound, HandlePublic
  PROVE  BagsNext /\ ChatIsSound'
<1>0. PlainTypes
  BY TypesApart
<1>t. Takes("Public") /\ mailbox' = Tail(mailbox)
  BY DEF HandlePublic
<1>a. /\ 1 \in DOMAIN mailbox /\ Head(mailbox) = mailbox[1] /\ Head(mailbox) \in Msg
      /\ Head(mailbox).type = "Public"
      /\ \A i \in DOMAIN mailbox' : /\ i + 1 \in DOMAIN mailbox /\ i + 1 # 1 /\ i \in Nat
                                    /\ mailbox'[i] = mailbox[i + 1] /\ mailbox'[i] \in Msg
  BY <1>0, <1>t, HeadOfMailbox
<1>p. PICK p \in Post : p = Head(mailbox).post
  BY <1>a, MailKinds
<1>b. /\ InMailbox(p) /\ author[p] = Head(mailbox).portal
      /\ author[p] # None /\ p \notin toServer
  <2>1. InMailbox(p) /\ author[p] = Head(mailbox).portal
    BY <1>a, <1>p DEF InMailbox, ChatIsSound, MailIsSound
  <2>. QED
    BY <2>1 DEF ChatIsSound, PostsTakeOneWay
<1>c. author[p] \in DOMAIN clients
  BY <1>b, AuthorsAreKnown
<1>q. PICK a \in Aliases : a = clients[author[p]]
  BY <1>b, AuthorsAreKnown
<1>1. /\ SendsAll(DOMAIN clients, PostOf(a, p))
      /\ acks' = acks \cup {[post |-> p, ok |-> TRUE]}
      /\ UNCHANGED <<joining, answer, clients, generated, toServer, history, phase, alias,
                     joined, author, audience, acked>>
  <2>1. Head(mailbox).portal = author[p] /\ Head(mailbox).post = p
    BY <1>b, <1>p
  <2>2. SendsAll(DOMAIN clients, [type |-> "MessageReceived", alias |-> clients[author[p]], post |-> p])
    BY <1>c, <2>1 DEF HandlePublic, Recipients
  <2>3. acks' = acks \cup {[post |-> p, ok |-> author[p] \in DOMAIN clients]}
    BY <2>1 DEF HandlePublic, Answers
  <2>4. (author[p] \in DOMAIN clients) = TRUE
    BY <1>c
  <2>5. acks' = acks \cup {[post |-> p, ok |-> TRUE]}
    BY <2>3, <2>4, Zenon
  <2>6. UNCHANGED <<joining, answer, clients, generated, toServer, history, phase, alias,
                    joined, author, audience, acked>>
    BY DEF HandlePublic, clientVars, historyVars
  <2>. QED
    BY <1>q, <2>2, <2>5, <2>6 DEF PostOf
<1>m. ~InMailbox(p)' /\ \A q : InMailbox(q)' => InMailbox(q)
  <2>1. ASSUME NEW i \in DOMAIN mailbox', mailbox'[i].type = "Public", mailbox'[i].post = p
        PROVE  FALSE
    <3>1. mailbox[i + 1].portal = author[p] /\ mailbox[1].portal = author[p]
      BY <1>a, <1>b, <2>1 DEF ChatIsSound, MailIsSound
    <3>2. mailbox[i + 1] = mailbox[1]
      BY <1>a, <1>p, <2>1, <3>1 DEF Msg
    <3>. QED
      BY <1>a, <3>2 DEF ChatIsSound, MailIsSound
  <2>. QED
    BY <1>a, <2>1 DEF InMailbox
<1>2. /\ BagsNext
      /\ \A d \in Client : \A e :
           Count(d, e)' = Count(d, e)
                          + (IF d \in DOMAIN clients /\ Present(d) /\ e = PostOf(a, p) THEN 1 ELSE 0)
  <2>1. PostOf(a, p) \in ChatClientMessage
    BY MessageKinds
  <2>. QED
    BY <1>1, <2>1, SendingCounts
<1>3. JoiningIsSound' /\ JoinedIsSound' /\ AuthorsAreMembers'
  BY <1>1 DEF ChatIsSound, JoiningIsSound, JoinedIsSound, AuthorsAreMembers, Pair
<1>4. MailIsSound'
  BY <1>1, <1>a DEF ChatIsSound, MailIsSound
<1>5. ASSUME NEW q \in Post
      PROVE  /\ Handled(q)' <=> Handled(q) \/ q = p
             /\ ~Handled(p)
  <2>1. toServer' = toServer /\ author' = author
    BY <1>1
  <2>2. Handled(p)' /\ ~Handled(p)
    BY <1>b, <1>m, <2>1 DEF Handled
  <2>3. Handled(q) => Handled(q)'
    BY <1>m, <2>1 DEF Handled
  <2>4. ASSUME q # p, InMailbox(q)
        PROVE  InMailbox(q)'
    <3>1. PICK i \in DOMAIN mailbox : mailbox[i].type = "Public" /\ mailbox[i].post = q
      BY <2>4 DEF InMailbox
    <3>2. i # 1
      BY <1>a, <1>p, <2>4, <3>1
    <3>3. i - 1 \in DOMAIN mailbox' /\ mailbox'[i - 1] = mailbox[i]
      BY <1>0, <1>t, <3>2, TailElements DEF PlainTypes, Takes
    <3>. QED
      BY <3>1, <3>3 DEF InMailbox
  <2>5. q # p /\ Handled(q)' => Handled(q)
    BY <2>1, <2>4 DEF Handled
  <2>. QED
    BY <2>2, <2>3, <2>5
<1>6. PostsTakeOneWay'
  <2>1. toServer' = toServer /\ author' = author /\ acked' = acked
    BY <1>1
  <2>2. \A q \in Post : /\ q \in toServer => author[q] # None /\ ~InMailbox(q)'
                        /\ InMailbox(q)' => author[q] # None
    BY <1>m DEF ChatIsSound, PostsTakeOneWay
  <2>3. \A q \in Post : q \in acked => Handled(q)'
    BY <1>5 DEF ChatIsSound, PostsTakeOneWay
  <2>4. \A q \in Post : \A k \in acks' : k.post = q => Handled(q)'
    BY <1>1, <1>5 DEF ChatIsSound, PostsTakeOneWay
  <2>. QED
    BY <2>1, <2>2, <2>3, <2>4 DEF PostsTakeOneWay
<1>g. ASSUME NEW d \in Client, NEW b \in Aliases
      PROVE  /\ Count(d, JoinOf(b))' = Count(d, JoinOf(b))
             /\ \A q \in Post : /\ q # p => Count(d, PostOf(b, q))' = Count(d, PostOf(b, q))
                                /\ q = p => /\ Count(d, PostOf(b, q)) = 0
                                            /\ b # a => Count(d, PostOf(b, q))' = 0
                                            /\ b = a => Count(d, PostOf(b, q))' =
                                                 IF d \in DOMAIN clients /\ Present(d) THEN 1 ELSE 0
  <2>1. Count(d, JoinOf(b))' = Count(d, JoinOf(b))
    <3>1. JoinOf(b) # PostOf(a, p) /\ JoinOf(b)' = JoinOf(b) /\ Count(d, JoinOf(b)) \in Nat
      BY MessageKinds, Counting DEF JoinOf
    <3>. QED
      BY <1>2, <3>1
  <2>2. ASSUME NEW q \in Post
        PROVE  /\ Count(d, PostOf(b, q)) \in Nat
               /\ Count(d, PostOf(b, q))' = Count(d, PostOf(b, q))
                    + (IF d \in DOMAIN clients /\ Present(d) /\ b = a /\ q = p THEN 1 ELSE 0)
               /\ q = p => Count(d, PostOf(b, q)) = 0
    <3>1. /\ PostOf(b, q) = PostOf(a, p) <=> b = a /\ q = p
          /\ PostOf(b, q)' = PostOf(b, q) /\ Count(d, PostOf(b, q)) \in Nat
      BY MessageKinds, Counting DEF PostOf
    <3>2. q = p => Count(d, PostOf(b, q)) = 0
      BY <1>5, <3>1 DEF ChatIsSound, ShownIsSound
    <3>. QED
      BY <1>2, <3>1, <3>2
  <2>. QED
    BY <2>1, <2>2
<1>7. ShownIsSound'
  <2>1. ASSUME NEW d \in Client, NEW b \in Aliases, NEW q \in Post, Count(d, PostOf(b, q))' > 0
        PROVE  Handled(q)' /\ b = clients'[author'[q]] /\ Count(d, PostOf(b, q))' = 1
    <3>1. CASE q = p
      BY <1>1, <1>5, <1>g, <1>q, <2>1, <3>1
    <3>2. CASE q # p
      <4>1. Count(d, PostOf(b, q))' = Count(d, PostOf(b, q))
        BY <1>g, <3>2
      <4>2. Handled(q) /\ b = clients[author[q]] /\ Count(d, PostOf(b, q)) = 1
        BY <2>1, <4>1 DEF ChatIsSound, ShownIsSound
      <4>. QED
        BY <1>1, <1>5, <4>1, <4>2
    <3>. QED
      BY <3>1, <3>2
  <2>. QED
    BY <2>1 DEF ShownIsSound
<1>8. AcksAreSound'
  <2>0. clients' = clients /\ author' = author /\ phase' = phase /\ audience' = audience /\ acked' = acked
    BY <1>1
  <2>1. ASSUME NEW q \in Post, Reached(q), Handled(q)
        PROVE  Reached(q)'
    <3>1. q # p
      BY <1>5, <2>1
    <3>2. PICK b \in Aliases : b = clients[author[q]]
      BY <2>1, AuthorsAreKnown DEF Handled
    <3>3. ASSUME NEW d \in audience[q], phase[d] = "online"
          PROVE  Count(d, PostOf(b, q))' > 0
      <4>1. d \in Client /\ Count(d, PostOf(b, q)) > 0
        BY <1>0, <2>1, <3>2, <3>3 DEF PlainTypes, Reached
      <4>2. Count(d, PostOf(b, q))' = Count(d, PostOf(b, q))
        BY <1>g, <3>1, <4>1
      <4>. QED
        BY <4>1, <4>2
    <3>. QED
      BY <2>0, <3>2, <3>3, ReachedNext
  <2>2. Reached(p)'
    <3>1. ASSUME NEW d \in audience[p], phase[d] = "online"
          PROVE  Count(d, PostOf(a, p))' > 0
      <4>1. d \in Client /\ d \in DOMAIN clients /\ Present(d)
        BY <1>0, <3>1 DEF PlainTypes, ChatIsSound, AuthorsAreMembers, JoiningIsSound, Members, Present
      <4>. QED
        BY <1>g, <4>1
    <3>. QED
      BY <1>q, <2>0, <3>1, ReachedNext
  <2>3. acked \subseteq Post /\ \A k \in acks : k.post \in Post
    BY <1>0 DEF PlainTypes
  <2>4. \A q \in acked : Reached(q)'
    BY <2>1, <2>3 DEF ChatIsSound, AcksAreSound, PostsTakeOneWay
  <2>5. \A k \in acks' : Reached(k.post)'
    BY <1>1, <2>1, <2>2, <2>3 DEF ChatIsSound, AcksAreSound, PostsTakeOneWay
  <2>. QED
    BY <2>0, <2>4, <2>5 DEF AcksAreSound
<1>9. NewsIsCounted'
  <2>1. \A d, b : GivenSince(d, b)' = GivenSince(d, b)
    BY <1>1, GivenStays
  <2>. QED
    BY <1>1, <1>g, <2>1 DEF ChatIsSound, NewsIsCounted
<1>. QED
  BY <1>2, <1>3, <1>4, <1>6, <1>7, <1>8, <1>9 DEF ChatIsSound

(* What a post's way through the server means is kept where that way is    *)
(* not touched.                                                            *)
LEMMA ShownStays ==
  ASSUME TypeOK, ChatIsSound, BagsNext, clients' = clients, author' = author,
         \A d \in Client : \A e : Count(d, e)' \in Nat /\ Count(d, e)' <= Count(d, e),
         \A q \in Post : Handled(q) => Handled(q)'
  PROVE  ShownIsSound'
<1>1. ASSUME NEW d \in Client, NEW b \in Aliases, NEW q \in Post, Count(d, PostOf(b, q))' > 0
      PROVE  Handled(q)' /\ b = clients'[author'[q]] /\ Count(d, PostOf(b, q))' = 1
  <2>1. PostOf(b, q)' = PostOf(b, q)
    BY DEF PostOf
  <2>2. /\ Count(d, PostOf(b, q))' \in Nat /\ Count(d, PostOf(b, q)) \in Nat
        /\ Count(d, PostOf(b, q))' <= Count(d, PostOf(b, q))
    BY <2>1, Counting
  <2>3. Handled(q) /\ b = clients[author[q]] /\ Count(d, PostOf(b, q)) = 1
    BY <1>1, <2>2 DEF ChatIsSound, ShownIsSound
  <2>. QED
    BY <1>1, <2>2, <2>3
<1>. QED
  BY <1>1 DEF ShownIsSound

(* A member posts. *)
LEMMA UserPostsKeeps ==
  ASSUME TypeOK, ChatIsSound, NEW c \in Client, NEW p \in Post, UserPosts(c, p)
  PROVE  BagsNext /\ ChatIsSound'
<1>0. PlainTypes
  BY TypesApart
<1>1. /\ phase[c] = "online" /\ author[p] = None
      /\ toServer' = toServer \cup {p}
      /\ author' = [author EXCEPT ![p] = c]
      /\ audience' = [audience EXCEPT ![p] = {d \in Client : phase[d] = "online"}]
      /\ UNCHANGED <<joining, answer, mailbox, clients, generated, acks, toClient, history, phase,
                     alias, joined, acked>>
  BY DEF UserPosts, serverVars
<1>2. BagsNext /\ \A d \in Client : \A e : Count(d, e)' = Count(d, e)
  BY <1>1, OthersCount
<1>a. /\ author'[p] = c /\ \A q \in Post \ {p} : author'[q] = author[q]
      /\ audience'[p] = {d \in Client : phase[d] = "online"}
      /\ \A q \in Post \ {p} : audience'[q] = audience[q]
      /\ c # None
  BY <1>0, <1>1, ChatAssumption DEF PlainTypes
<1>b. ~InMailbox(p) /\ ~Handled(p) /\ \A q : InMailbox(q)' <=> InMailbox(q)
  BY <1>1 DEF ChatIsSound, PostsTakeOneWay, Handled, InMailbox
<1>3. JoiningIsSound' /\ JoinedIsSound'
  BY <1>1 DEF ChatIsSound, JoiningIsSound, JoinedIsSound, Pair
<1>4. MailIsSound'
  <2>1. ASSUME NEW i \in DOMAIN mailbox, mailbox[i].type = "Public"
        PROVE  mailbox[i].portal = author'[mailbox[i].post]
    <3>1. mailbox[i].post \in Post
      BY <1>0, <2>1, EachElement, MailKinds DEF PlainTypes
    <3>2. mailbox[i].post # p
      BY <1>b, <2>1 DEF InMailbox
    <3>. QED
      BY <1>a, <2>1, <3>1, <3>2 DEF ChatIsSound, MailIsSound
  <2>. QED
    BY <1>1, <2>1 DEF ChatIsSound, MailIsSound
<1>5. AuthorsAreMembers'
  BY <1>1, <1>a DEF ChatIsSound, AuthorsAreMembers, Members
<1>6. \A q \in Post : Handled(q) => q # p /\ Handled(q)'
  BY <1>1, <1>a, <1>b DEF Handled
<1>7. PostsTakeOneWay'
  <2>1. \A q \in Post : /\ q \in toServer' => author'[q] # None /\ ~InMailbox(q)'
                        /\ InMailbox(q)' => author'[q] # None
    BY <1>1, <1>a, <1>b DEF ChatIsSound, PostsTakeOneWay
  <2>2. \A q \in Post : /\ q \in acked' => Handled(q)'
                        /\ \A k \in acks' : k.post = q => Handled(q)'
    BY <1>1, <1>6 DEF ChatIsSound, PostsTakeOneWay
  <2>. QED
    BY <2>1, <2>2 DEF PostsTakeOneWay
<1>8. ShownIsSound'
  <2>1. ASSUME NEW d \in Client, NEW b \in Aliases, NEW q \in Post, Count(d, PostOf(b, q))' > 0
        PROVE  Handled(q)' /\ b = clients'[author'[q]] /\ Count(d, PostOf(b, q))' = 1
    <3>1. Count(d, PostOf(b, q))' = Count(d, PostOf(b, q))
      BY <1>2 DEF PostOf
    <3>2. Handled(q) /\ b = clients[author[q]] /\ Count(d, PostOf(b, q)) = 1
      BY <2>1, <3>1 DEF ChatIsSound, ShownIsSound
    <3>. QED
      BY <1>1, <1>6, <1>a, <3>1, <3>2
  <2>. QED
    BY <2>1 DEF ShownIsSound
<1>9. AcksAreSound'
  <2>1. ASSUME NEW q \in Post, Reached(q), Handled(q)
        PROVE  Reached(q)'
    <3>1. author'[q] = author[q] /\ audience'[q] = audience[q]
      BY <1>6, <1>a, <2>1
    <3>2. PICK b \in Aliases : b = clients[author[q]]
      BY <2>1, AuthorsAreKnown DEF Handled
    <3>3. ASSUME NEW d \in audience[q], phase[d] = "online"
          PROVE  Count(d, PostOf(b, q))' > 0
      <4>1. d \in Client /\ Count(d, PostOf(b, q)) > 0
        BY <1>0, <2>1, <3>2, <3>3 DEF PlainTypes, Reached
      <4>2. Count(d, PostOf(b, q))' = Count(d, PostOf(b, q))
        BY <1>2, <4>1 DEF PostOf
      <4>. QED
        BY <4>1, <4>2
    <3>. QED
      BY <1>1, <3>1, <3>2, <3>3, ReachedNext
  <2>2. acked \subseteq Post /\ \A k \in acks : k.post \in Post
    BY <1>0 DEF PlainTypes
  <2>. QED
    BY <1>1, <2>1, <2>2 DEF ChatIsSound, AcksAreSound, PostsTakeOneWay
<1>10. NewsIsCounted'
  <2>1. \A d, b : GivenSince(d, b)' = GivenSince(d, b)
    BY <1>1, GivenStays
  <2>. QED
    BY <1>1, <1>2, <2>1 DEF ChatIsSound, NewsIsCounted, JoinOf
<1>. QED
  BY <1>2, <1>3, <1>4, <1>5, <1>7, <1>8, <1>9, <1>10 DEF ChatIsSound

(* What has reached everyone still has when a step shows them as much.     *)
LEMMA ReachedStays ==
  ASSUME TypeOK, ChatIsSound, BagsNext, clients' = clients, author' = author, audience' = audience,
         \A d \in Client : phase'[d] = "online" =>
           phase[d] = "online" /\ \A e : Count(d, e)' = Count(d, e)
  PROVE  \A q \in Post : Reached(q) /\ Handled(q) => Reached(q)'
<1>1. ASSUME NEW q \in Post, Reached(q), Handled(q)
      PROVE  Reached(q)'
  <2>1. PICK b \in Aliases : b = clients[author[q]]
    BY <1>1, AuthorsAreKnown DEF Handled
  <2>2. ASSUME NEW d \in audience[q], phase'[d] = "online"
        PROVE  Count(d, PostOf(b, q))' > 0
    <3>1. d \in Client
      BY TypesApart DEF PlainTypes
    <3>2. Count(d, PostOf(b, q)) > 0
      BY <1>1, <2>1, <2>2, <3>1 DEF Reached
    <3>3. Count(d, PostOf(b, q))' = Count(d, PostOf(b, q))
      BY <2>2, <3>1 DEF PostOf
    <3>. QED
      BY <3>2, <3>3
  <2>. QED
    BY <2>1, <2>2, ReachedNext
<1>. QED
  BY <1>1

(* A post arrives at the chat server, or is lost with its author. *)
LEMMA PostArrivesKeeps ==
  ASSUME TypeOK, ChatIsSound, NEW p \in Post, PostArrives(p)
  PROVE  BagsNext /\ ChatIsSound'
<1>0. PlainTypes
  BY TypesApart
<1>. DEFINE m == [type |-> "Public", portal |-> author[p], post |-> p]
<1>1. /\ p \in toServer /\ toServer' = toServer \ {p}
      /\ mailbox' = mailbox \/ mailbox' = Append(mailbox, m)
      /\ UNCHANGED <<joining, answer, clients, generated, acks, toClient, history, phase,
                     alias, joined, author, audience, acked>>
  BY DEF PostArrives, clientVars, historyVars
<1>a. author[p] # None /\ ~InMailbox(p) /\ author[p] \in Client
  BY <1>0, <1>1 DEF ChatIsSound, PostsTakeOneWay, PlainTypes
<1>m. m \in Msg /\ m.type = "Public" /\ m.portal = author[p] /\ m.post = p
  BY <1>a DEF Msg
<1>. HIDE DEF m
<1>2. BagsNext /\ \A d \in Client : \A e : Count(d, e)' = Count(d, e)
  BY <1>1, OthersCount
<1>3. JoiningIsSound' /\ JoinedIsSound' /\ AuthorsAreMembers'
  BY <1>1 DEF ChatIsSound, JoiningIsSound, JoinedIsSound, AuthorsAreMembers, Pair
<1>4. /\ MailIsSound'
      /\ \A q : InMailbox(q)' => InMailbox(q) \/ q = p
  <2>1. CASE mailbox' = mailbox
    BY <1>1, <2>1 DEF ChatIsSound, MailIsSound, InMailbox
  <2>2. CASE mailbox' = Append(mailbox, m)
    <3>1. /\ DOMAIN mailbox' = DOMAIN mailbox \cup {Len(mailbox) + 1}
          /\ \A i \in DOMAIN mailbox : mailbox'[i] = mailbox[i] /\ mailbox[i] \in Msg
          /\ mailbox'[Len(mailbox) + 1] = m
      BY <1>0, <1>m, <2>2, EndOfMailbox
    <3>2. \A i \in DOMAIN mailbox : mailbox[i] # m
      BY <1>a, <1>m DEF InMailbox
    <3>3. joining' = joining /\ author' = author
      BY <1>1
    <3>4. MailIsSound'
      BY <1>m, <3>1, <3>2, <3>3 DEF ChatIsSound, MailIsSound
    <3>. QED
      BY <1>m, <3>1, <3>4 DEF InMailbox
  <2>. QED
    BY <1>1, <2>1, <2>2
<1>5. \A q \in Post : Handled(q) => Handled(q)'
  BY <1>1, <1>4 DEF Handled
<1>6. PostsTakeOneWay'
  <2>1. \A q \in Post : /\ q \in toServer' => author[q] # None /\ ~InMailbox(q)'
                        /\ InMailbox(q)' => author[q] # None
    BY <1>1, <1>4, <1>a DEF ChatIsSound, PostsTakeOneWay
  <2>2. \A q \in Post : /\ q \in acked' => Handled(q)'
                        /\ \A k \in acks' : k.post = q => Handled(q)'
    BY <1>1, <1>5 DEF ChatIsSound, PostsTakeOneWay
  <2>. QED
    BY <1>1, <2>1, <2>2 DEF PostsTakeOneWay
<1>7. ShownIsSound'
  <2>1. \A d \in Client : \A e : Count(d, e)' \in Nat /\ Count(d, e)' <= Count(d, e)
    BY <1>2, Counting
  <2>. QED
    BY <1>1, <1>2, <1>5, <2>1, ShownStays
<1>8. AcksAreSound'
  <2>1. \A q \in Post : Reached(q) /\ Handled(q) => Reached(q)'
    BY <1>1, <1>2, ReachedStays
  <2>2. acked \subseteq Post /\ \A k \in acks : k.post \in Post
    BY <1>0 DEF PlainTypes
  <2>. QED
    BY <1>1, <2>1, <2>2 DEF ChatIsSound, AcksAreSound, PostsTakeOneWay
<1>9. NewsIsCounted'
  <2>1. \A d, b : GivenSince(d, b)' = GivenSince(d, b)
    BY <1>1, GivenStays
  <2>. QED
    BY <1>1, <1>2, <2>1 DEF ChatIsSound, NewsIsCounted, JoinOf
<1>. QED
  BY <1>2, <1>3, <1>4, <1>6, <1>7, <1>8, <1>9 DEF ChatIsSound

(* An author hears that its post was taken. *)
LEMMA AckArrivesKeeps ==
  ASSUME TypeOK, ChatIsSound, NEW p \in Post, AckArrives(p)
  PROVE  BagsNext /\ ChatIsSound'
<1>0. PlainTypes
  BY TypesApart
<1>1. PICK k \in acks :
        /\ k.post = p /\ acks' = acks \ {k} /\ acked' \subseteq acked \cup {p}
        /\ UNCHANGED <<joining, answer, mailbox, clients, generated, toServer, toClient, history, phase,
                       alias, joined, author, audience>>
  BY DEF AckArrives, serverVars
<1>2. BagsNext /\ \A d \in Client : \A e : Count(d, e)' = Count(d, e)
  BY <1>1, OthersCount
<1>a. Handled(p) /\ Reached(p)
  BY <1>1 DEF ChatIsSound, PostsTakeOneWay, AcksAreSound
<1>3. JoiningIsSound' /\ JoinedIsSound' /\ AuthorsAreMembers' /\ MailIsSound'
  BY <1>1 DEF ChatIsSound, JoiningIsSound, JoinedIsSound, AuthorsAreMembers, MailIsSound, Pair
<1>4. \A q : (InMailbox(q)' <=> InMailbox(q)) /\ (Handled(q)' <=> Handled(q))
  BY <1>1 DEF InMailbox, Handled
<1>5. PostsTakeOneWay'
  BY <1>1, <1>4, <1>a DEF ChatIsSound, PostsTakeOneWay
<1>6. ShownIsSound'
  <2>1. \A d \in Client : \A e : Count(d, e)' \in Nat /\ Count(d, e)' <= Count(d, e)
    BY <1>2, Counting
  <2>. QED
    BY <1>1, <1>2, <1>4, <2>1, ShownStays
<1>7. AcksAreSound'
  <2>1. \A q \in Post : Reached(q) /\ Handled(q) => Reached(q)'
    BY <1>1, <1>2, ReachedStays
  <2>2. acked \subseteq Post /\ \A b \in acks : b.post \in Post
    BY <1>0 DEF PlainTypes
  <2>. QED
    BY <1>1, <1>a, <2>1, <2>2 DEF ChatIsSound, AcksAreSound, PostsTakeOneWay
<1>8. NewsIsCounted'
  <2>1. \A d, b : GivenSince(d, b)' = GivenSince(d, b)
    BY <1>1, GivenStays
  <2>. QED
    BY <1>1, <1>2, <2>1 DEF ChatIsSound, NewsIsCounted, JoinOf
<1>. QED
  BY <1>2, <1>3, <1>5, <1>6, <1>7, <1>8 DEF ChatIsSound

(* A client receives what it was sent. *)
LEMMA ClientReceivesKeeps ==
  ASSUME TypeOK, ChatIsSound, NEW c \in Client, ClientReceives(c)
  PROVE  BagsNext /\ ChatIsSound'
<1>0. PlainTypes
  BY TypesApart
<1>1. UNCHANGED <<joining, answer, mailbox, clients, generated, toServer, acks, phase,
                  alias, joined, author, audience, acked>>
  BY DEF ClientReceives, serverVars, historyVars
<1>2. BagsNext /\ \A d \in Client : \A e : Count(d, e)' = Count(d, e)
  BY ReceivingCounts
<1>3. JoiningIsSound' /\ JoinedIsSound' /\ AuthorsAreMembers' /\ MailIsSound'
  BY <1>1 DEF ChatIsSound, JoiningIsSound, JoinedIsSound, AuthorsAreMembers, MailIsSound, Pair
<1>4. \A q : (InMailbox(q)' <=> InMailbox(q)) /\ (Handled(q)' <=> Handled(q))
  BY <1>1 DEF InMailbox, Handled
<1>5. PostsTakeOneWay'
  BY <1>1, <1>4 DEF ChatIsSound, PostsTakeOneWay
<1>6. ShownIsSound'
  <2>1. \A d \in Client : \A e : Count(d, e)' \in Nat /\ Count(d, e)' <= Count(d, e)
    BY <1>2, Counting
  <2>. QED
    BY <1>1, <1>2, <1>4, <2>1, ShownStays
<1>7. AcksAreSound'
  <2>1. \A q \in Post : Reached(q) /\ Handled(q) => Reached(q)'
    BY <1>1, <1>2, ReachedStays
  <2>2. acked \subseteq Post /\ \A b \in acks : b.post \in Post
    BY <1>0 DEF PlainTypes
  <2>. QED
    BY <1>1, <2>1, <2>2 DEF ChatIsSound, AcksAreSound, PostsTakeOneWay
<1>8. NewsIsCounted'
  <2>1. \A d, b : GivenSince(d, b)' = GivenSince(d, b)
    BY <1>1, GivenStays
  <2>. QED
    BY <1>1, <1>2, <2>1 DEF ChatIsSound, NewsIsCounted, JoinOf
<1>. QED
  BY <1>2, <1>3, <1>5, <1>6, <1>7, <1>8 DEF ChatIsSound

(* A client leaves, and the chat server does not notice. *)
LEMMA ClientLeavesKeeps ==
  ASSUME TypeOK, ChatIsSound, NEW c \in Client, ClientLeaves(c)
  PROVE  BagsNext /\ ChatIsSound'
<1>0. PlainTypes
  BY TypesApart
<1>1. /\ Present(c) /\ phase' = [phase EXCEPT ![c] = IF @ = "online" THEN "exited" ELSE "failed"]
      /\ UNCHANGED <<joining, answer, mailbox, clients, generated, toServer, acks,
                     alias, joined, author, audience, acked>>
  BY DEF ClientLeaves, serverVars, historyVars
<1>2. /\ BagsNext
      /\ \A d \in Client : \A e : Count(d, e)' \in Nat /\ Count(d, e)' <= Count(d, e)
      /\ \A d \in Client \ {c} : \A e : Count(d, e)' = Count(d, e)
  BY LeavingCounts
<1>a. /\ phase[c] \notin Gone /\ phase'[c] = IF phase[c] = "online" THEN "exited" ELSE "failed"
      /\ \A d \in Client \ {c} : phase'[d] = phase[d]
  BY <1>0, <1>1 DEF PlainTypes, Present, Gone
<1>3. JoiningIsSound' /\ AuthorsAreMembers'
  BY <1>0, <1>1, <1>a DEF Gone, ChatIsSound, JoiningIsSound, AuthorsAreMembers, Members, PlainTypes
<1>b. JoinedIsSound' /\ MailIsSound'
  BY <1>1 DEF ChatIsSound, JoinedIsSound, MailIsSound, Pair
<1>4. \A q : (InMailbox(q)' <=> InMailbox(q)) /\ (Handled(q)' <=> Handled(q))
  BY <1>1 DEF InMailbox, Handled
<1>5. PostsTakeOneWay'
  BY <1>1, <1>4 DEF ChatIsSound, PostsTakeOneWay
<1>6. ShownIsSound'
  BY <1>1, <1>2, <1>4, ShownStays
<1>7. AcksAreSound'
  <2>1. \A q \in Post : Reached(q) /\ Handled(q) => Reached(q)'
    <3>1. \A d \in Client : phase'[d] = "online" =>
            phase[d] = "online" /\ \A e : Count(d, e)' = Count(d, e)
      BY <1>2, <1>a
    <3>. QED
      BY <1>1, <1>2, <3>1, ReachedStays
  <2>2. acked \subseteq Post /\ \A b \in acks : b.post \in Post
    BY <1>0 DEF PlainTypes
  <2>. QED
    BY <1>1, <2>1, <2>2 DEF ChatIsSound, AcksAreSound, PostsTakeOneWay
<1>8. NewsIsCounted'
  <2>1. \A d, b : GivenSince(d, b)' = GivenSince(d, b)
    BY <1>1, GivenStays
  <2>. QED
    BY <1>2, <1>a, <2>1 DEF ChatIsSound, NewsIsCounted, JoinOf, Gone
<1>. QED
  BY <1>2, <1>3, <1>5, <1>6, <1>7, <1>8, <1>b DEF ChatIsSound
-----------------------------------------------------------------------------
(* The theorems *)

(* Before anybody connects nothing is shown. *)
LEMMA ChatInit ==
  ASSUME Init
  PROVE  ChatInvariant
<1>1. \A c \in Client : toClient[c] = EmptyBag /\ history[c] = EmptyBag
  BY DEF Init
<1>2. IsABag(EmptyBag) /\ BagToSet(EmptyBag) = {} /\ \A m : Copies(m, EmptyBag) = 0
  BY CopiesOfNothing
<1>3. generated \in Nat /\ generated \in Earlier
  BY ChatAssumption DEF Init
<1>4. TypeOK
  <2>1. /\ DOMAIN toClient = Client /\ DOMAIN history = Client
        /\ \A c \in Client : \A bag \in {toClient[c], history[c]} :
             IsABag(bag) /\ BagToSet(bag) \subseteq ChatClientMessage
    BY <1>1, <1>2 DEF Init
  <2>2. /\ arrivals \in Seq(Client) /\ mailbox \in Seq(Msg) /\ joined \in Seq(Client)
        /\ DOMAIN clients = {} /\ clients \in [DOMAIN clients -> Aliases]
    BY NoElements DEF Init, NoClients
  <2>3. /\ serving \in Client \cup {None} /\ hub \subseteq Client
        /\ joining \in [Client -> {"no", "received", "asked", "answered"}]
        /\ answer \in [Client -> Aliases \cup {None}]
        /\ opened \in [{"client", "server"} -> SUBSET Client]
    BY DEF Init
  <2>4. /\ toServer \subseteq Post /\ acked \subseteq Post
        /\ acks \subseteq [post : Post, ok : BOOLEAN]
        /\ phase \in [Client -> Phases]
        /\ alias \in [Client -> Aliases \cup {None}]
        /\ inFlight \in [Client -> BOOLEAN]
        /\ author \in [Post -> Client \cup {None}] /\ audience \in [Post -> SUBSET Client]
    BY DEF Init, Phases
  <2>. QED
    BY <1>3, <2>1, <2>2, <2>3, <2>4 DEF TypeOK
<1>5. \A c \in Client : \A m : Count(c, m) = 0
  BY <1>1, <1>2, <1>4, Counting
<1>6. JoiningIsSound
  BY DEF Init, JoiningIsSound, NoClients, Members
<1>7. MailIsSound /\ JoinedIsSound
  BY <1>3, NoElements DEF Init, MailIsSound, JoinedIsSound, NoClients
<1>8. AuthorsAreMembers /\ PostsTakeOneWay
  BY NoElements DEF Init, AuthorsAreMembers, PostsTakeOneWay, InMailbox
<1>9. ShownIsSound /\ AcksAreSound
  BY <1>5 DEF Init, ShownIsSound, AcksAreSound
<1>10. NewsIsCounted
  <2>1. \A c, a : GivenSince(c, a) = {}
    BY NoElements DEF Init, GivenSince, JoinedBefore
  <2>. QED
    BY <1>5, <2>1, FS_EmptySet DEF NewsIsCounted
<1>. QED
  BY <1>4, <1>6, <1>7, <1>8, <1>9, <1>10 DEF ChatInvariant

(* Every step keeps the invariant. *)
LEMMA ChatNext ==
  ASSUME ChatInvariant, [Next]_vars
  PROVE  ChatInvariant'
<1>1. TypeOK /\ PlainTypes /\ ChatIsSound
  BY TypesApart DEF ChatInvariant, ChatIsSound
<1>2. ASSUME BagsNext, ChatIsSound', PlainTypes'
      PROVE  ChatInvariant'
  BY <1>2, TypesApart DEF ChatInvariant, ChatIsSound
<1>3. CASE ServerStep
  <2>1. PlainTypes'
    BY <1>1, <1>3, ServerTypes
  <2>2. BagsNext /\ ChatIsSound'
    BY <1>1, <1>3, QuietSteps, QuietStepsKeep, HandleConnectKeeps, HandlePublicKeeps, HubAsksKeeps
    DEF ServerStep
  <2>. QED
    BY <1>2, <2>1, <2>2
<1>4. ASSUME NEW c \in Client,
             \/ ClientStep(c) \/ ClientConnects(c) \/ ClientFails(c) \/ ClientLeaves(c)
             \/ \E side \in {"client", "server"} : PortalOpens(side, c)
             \/ \E p \in Post : UserPosts(c, p)
      PROVE  ChatInvariant'
  <2>1. PlainTypes'
    BY <1>1, <1>4, ClientTypes
  <2>2. CASE QuietStep
    BY <1>1, <1>2, <2>1, <2>2, QuietStepsKeep
  <2>3. CASE ClientJoins(c) \/ ClientIsOnline(c) \/ ClientReceives(c) \/ ClientLeaves(c)
    BY <1>1, <1>2, <2>1, <2>3, ClientJoinsKeeps, ClientIsOnlineKeeps, ClientReceivesKeeps, ClientLeavesKeeps
  <2>4. ASSUME NEW p \in Post, UserPosts(c, p)
        PROVE  ChatInvariant'
    BY <1>1, <1>2, <2>1, <2>4, UserPostsKeeps
  <2>. QED
    BY <1>1, <1>4, <2>2, <2>3, <2>4, QuietSteps DEF ClientStep
<1>5. ASSUME NEW p \in Post, PostArrives(p) \/ AckArrives(p)
      PROVE  ChatInvariant'
  <2>1. PlainTypes'
    BY <1>1, <1>5, ArrivalTypes DEF ChatIsSound
  <2>. QED
    BY <1>1, <1>2, <1>5, <2>1, PostArrivesKeeps, AckArrivesKeeps
<1>6. CASE UNCHANGED vars
  <2>1. PlainTypes' /\ QuietStep
    BY <1>1, <1>6 DEF PlainTypes, QuietStep, vars, serverVars, netVars, clientVars, historyVars
  <2>. QED
    BY <1>1, <1>2, <2>1, QuietStepsKeep
<1>. QED
  BY <1>3, <1>4, <1>5, <1>6 DEF Next

(* The chat server, its hubs and its clients keep the invariant. *)
THEOREM ChatInvariantCorrect == Spec => []ChatInvariant
<1>1. Init => ChatInvariant
  BY ChatInit
<1>2. ChatInvariant /\ [Next]_vars => ChatInvariant'
  BY ChatNext
<1>. QED
  BY <1>1, <1>2, PTL DEF Spec

(* All that the chat holds is of its type. *)
THEOREM TypeCorrect == Spec => []TypeOK
<1>1. ChatInvariant => TypeOK
  BY DEF ChatInvariant
<1>. QED
  BY <1>1, ChatInvariantCorrect, PTL

(* As long as the pairs of words last, an alias stands for one client.     *)
LEMMA AliasesDiffer ==
  ASSUME ChatInvariant, generated <= WordCount * WordCount,
         NEW c \in DOMAIN clients
  PROVE  /\ clients[c] \notin Before
         /\ \A d \in DOMAIN clients \ {c} : clients[d] # clients[c]
<1>0. PlainTypes /\ WordCount \in Nat \ {0}
  BY TypesApart, ChatAssumption DEF ChatInvariant
<1>. DEFINE base == generated - Len(joined)
<1>1. /\ generated \in Nat /\ Len(joined) \in Nat /\ DOMAIN joined = 1 .. Len(joined)
      /\ base \in Nat /\ WordCount * WordCount \in Nat
  <2>1. generated \in Nat /\ Len(joined) \in Nat /\ DOMAIN joined = 1 .. Len(joined)
    BY <1>0, LenProperties DEF PlainTypes
  <2>. QED
    BY <1>0, <2>1 DEF ChatInvariant, JoinedIsSound
<1>2. ASSUME NEW d \in DOMAIN clients
      PROVE  \E i \in DOMAIN joined : joined[i] = d /\ clients[d] = Pair(base + i - 1)
  BY DEF ChatInvariant, JoinedIsSound
<1>3. ASSUME NEW i \in DOMAIN joined
      PROVE  base + i - 1 \in Nat /\ base + i - 1 < WordCount * WordCount /\ base + i - 1 >= base
  BY <1>1
<1>4. PICK i \in DOMAIN joined : joined[i] = c /\ clients[c] = Pair(base + i - 1)
  BY <1>2
<1>5. clients[c] \notin Before
  <2>1. ASSUME NEW n \in 0 .. base - 1, Pair(base + i - 1) = Pair(n)
        PROVE  FALSE
    <3>1. n \in Nat /\ n < WordCount * WordCount
      BY <1>1
    <3>2. base + i - 1 = n
      BY <1>3, <2>1, <3>1, PairsDiffer
    <3>. QED
      BY <1>1, <1>3, <3>2
  <2>. QED
    BY <1>4, <2>1 DEF Before
<1>6. ASSUME NEW d \in DOMAIN clients \ {c}
      PROVE  clients[d] # clients[c]
  <2>1. PICK j \in DOMAIN joined : joined[j] = d /\ clients[d] = Pair(base + j - 1)
    BY <1>2
  <2>2. ASSUME clients[d] = clients[c]
        PROVE  FALSE
    <3>1. base + i - 1 = base + j - 1
      BY <1>3, <1>4, <2>1, <2>2, PairsDiffer
    <3>2. i = j
      BY <1>1, <3>1
    <3>. QED
      BY <1>4, <2>1, <3>2
  <2>. QED
    BY <2>2
<1>. QED
  BY <1>5, <1>6

(* A post is shown once, under the alias that its author believes to have, *)
(* and nobody else has had while the pairs of words lasted: the hub, the   *)
(* chat server's map and the generator agree although Connects and posts   *)
(* of all clients overtake one another.                                    *)
THEOREM PostsHaveTheirAuthors == Spec => []PostsAreAttributed
<1>1. ChatInvariant => PostsAreAttributed
  <2>. SUFFICES ASSUME ChatInvariant,
                       NEW c \in Client, NEW m \in BagToSet(Shown(c)), m.type = "MessageReceived"
                PROVE  /\ m.alias = alias[author[m.post]]
                       /\ Copies(m, Shown(c)) = 1
                       /\ generated <= WordCount * WordCount =>
                            m.alias \notin Before \cup {alias[d] : d \in Client \ {author[m.post]}}
    BY DEF PostsAreAttributed
  <2>0. TypeOK /\ PlainTypes /\ ChatIsSound
    BY TypesApart DEF ChatInvariant, ChatIsSound
  <2>1. m \in ChatClientMessage /\ Count(c, m) > 0
    BY <2>0, Counting
  <2>2. m.alias \in Aliases /\ m.post \in Post /\ m = PostOf(m.alias, m.post)
    BY <2>1, MessageKinds
  <2>3. Handled(m.post) /\ m.alias = clients[author[m.post]] /\ Count(c, m) = 1
    BY <2>0, <2>1, <2>2 DEF ChatIsSound, ShownIsSound
  <2>4. /\ author[m.post] \in Client /\ author[m.post] \in DOMAIN clients
        /\ alias[author[m.post]] = clients[author[m.post]]
    BY <2>0, <2>2, <2>3, AuthorsAreKnown DEF Handled
  <2>5. ASSUME generated <= WordCount * WordCount,
               NEW d \in Client \ {author[m.post]}, alias[d] = m.alias
        PROVE  FALSE
    <3>1. alias[d] # None
      BY <2>2, <2>5, ChatAssumption
    <3>2. d \in DOMAIN clients /\ alias[d] = clients[d]
      BY <2>0, <3>1 DEF ChatIsSound, JoiningIsSound
    <3>. QED
      BY <2>3, <2>4, <2>5, <3>2, AliasesDiffer
  <2>6. generated <= WordCount * WordCount => m.alias \notin Before
    BY <2>3, <2>4, AliasesDiffer
  <2>. QED
    BY <2>3, <2>4, <2>5, <2>6 DEF Count
<1>. QED
  BY <1>1, ChatInvariantCorrect, PTL

(* Everyone that is still there has, or is being sent, each post that was  *)
(* acknowledged and made while it was there; and a member has heard, or is *)
(* being told, of each other client that joined after it, once.            *)
THEOREM NewsReachesEveryone == Spec => []NewsReachesAll
<1>1. ChatInvariant => NewsReachesAll
  <2>. SUFFICES ASSUME ChatInvariant
                PROVE  NewsReachesAll
    OBVIOUS
  <2>0. TypeOK /\ PlainTypes /\ ChatIsSound
    BY TypesApart DEF ChatInvariant, ChatIsSound
  <2>1. ASSUME NEW p \in acked, NEW c \in audience[p], phase[c] = "online"
        PROVE  \E m \in BagToSet(Shown(c)) : m.type = "MessageReceived" /\ m.post = p
    <3>1. p \in Post /\ c \in Client
      BY <2>0 DEF PlainTypes
    <3>2. Count(c, PostOf(clients[author[p]], p)) > 0
      BY <2>0, <2>1 DEF ChatIsSound, AcksAreSound, Reached
    <3>3. PostOf(clients[author[p]], p) \in BagToSet(Shown(c))
      BY <2>0, <3>1, <3>2, Counting
    <3>. QED
      BY <3>3 DEF PostOf
  <2>2. ASSUME NEW c \in Client, NEW a \in Aliases, phase[c] = "online"
        PROVE  \E own \in MayHearOfItself(c, a) :
                 Copies(JoinOf(a), Shown(c)) = Cardinality(GivenSince(c, a) \ {c}) + own
    <3>1. Copies(JoinOf(a), Shown(c)) = Cardinality(GivenSince(c, a))
      BY <2>0, <2>2 DEF ChatIsSound, NewsIsCounted, Count, Gone
    <3>2. IsFiniteSet(GivenSince(c, a)) /\ Cardinality(GivenSince(c, a)) \in Nat
      BY GivenIsFinite
    <3>3. CASE c \in GivenSince(c, a)
      <4>1. a = alias[c]
        BY <2>0, <2>2, <3>3 DEF GivenSince, ChatIsSound, JoiningIsSound, Members
      <4>2. Cardinality(GivenSince(c, a) \ {c}) = Cardinality(GivenSince(c, a)) - 1
        BY <3>2, <3>3, FS_RemoveElement
      <4>3. Cardinality(GivenSince(c, a)) = Cardinality(GivenSince(c, a) \ {c}) + 1
        BY <3>2, <4>2
      <4>. QED
        BY <3>1, <4>1, <4>3 DEF MayHearOfItself
    <3>4. CASE c \notin GivenSince(c, a)
      <4>1. GivenSince(c, a) \ {c} = GivenSince(c, a)
        BY <3>4
      <4>2. Cardinality(GivenSince(c, a)) = Cardinality(GivenSince(c, a) \ {c}) + 0
        BY <3>2, <4>1
      <4>. QED
        BY <3>1, <4>2 DEF MayHearOfItself
    <3>. QED
      BY <3>3, <3>4
  <2>. QED
    BY <2>1, <2>2 DEF NewsReachesAll
<1>. QED
  BY <1>1, ChatInvariantCorrect, PTL
=============================================================================
