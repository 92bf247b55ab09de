-------------------------- MODULE MessageQueue_proofs --------------------------
(* Theorems about MessageQueue, for every set of goroutines, every bound and    *)
(* every histogram: the types, that no message is duplicated or brought back    *)
(* (EachMessageOnce), that the queue implements QueueContract, that it is kept  *)
(* in order across failed uploads (OrderKept), what expire drops                *)
(* (ExpiresTheStale), that a single pusher never finds another pushed message    *)
(* in its batch (OnePushPerBatch), and how far the backoff rises                 *)
(* (BackoffBounded).                                                             *)
EXTENDS MessageQueue, SequencesExt, SequenceTheorems, FiniteSetTheorems,
        WellFoundedInduction, TLAPS

-------------------------------------------------------------------------------
(* ToSet, injective sequences and the last index at which a test holds. *)

(* The elements of a sequence, by their indices. *)
LEMMA ToSetMember ==
    ASSUME NEW S, NEW s \in Seq(S)
    PROVE  /\ ToSet(s) \subseteq S
           /\ \A x : x \in ToSet(s) <=> \E i \in 1..Len(s) : s[i] = x
  BY DEF ToSet

(* Injective: no element at two indices. *)
LEMMA InjectiveIndices ==
    ASSUME NEW S, NEW s \in Seq(S)
    PROVE  IsInjective(s) <=> \A i, j \in 1..Len(s) : s[i] = s[j] => i = j
  BY DOMAIN s = 1..Len(s) DEF IsInjective

(* The empty sequence has no element. *)
LEMMA ToSetEmpty == ToSet(<<>>) = {} /\ IsInjective(<<>>)
  BY DEF ToSet, IsInjective

(* Appending an element adds it to the set, and keeps a sequence injective *)
(* when the element is new.                                                *)
LEMMA ToSetAppend ==
    ASSUME NEW S, NEW s \in Seq(S), NEW x \in S
    PROVE  /\ Append(s, x) \in Seq(S)
           /\ ToSet(Append(s, x)) = ToSet(s) \cup {x}
           /\ IsInjective(s) /\ x \notin ToSet(s) => IsInjective(Append(s, x))
<1>1. Append(s, x) \in Seq(S) /\ Len(Append(s, x)) = Len(s) + 1
  OBVIOUS
<1>2. \A i \in 1..Len(s)+1 : Append(s, x)[i] = IF i <= Len(s) THEN s[i] ELSE x
  OBVIOUS
<1>3. ToSet(Append(s, x)) = ToSet(s) \cup {x}
  <2>1. ASSUME NEW y \in ToSet(Append(s, x)) PROVE y \in ToSet(s) \cup {x}
    BY <1>1, <1>2 DEF ToSet
  <2>2. ASSUME NEW y \in ToSet(s) PROVE y \in ToSet(Append(s, x))
    BY <1>1, <1>2, <2>2 DEF ToSet
  <2>3. x \in ToSet(Append(s, x))
    <3>1. Len(s) + 1 \in DOMAIN Append(s, x) /\ Append(s, x)[Len(s) + 1] = x
      BY <1>1, <1>2
    <3>2. QED
      BY <3>1 DEF ToSet
  <2>4. QED
    BY <2>1, <2>2, <2>3
<1>4. IsInjective(s) /\ x \notin ToSet(s) => IsInjective(Append(s, x))
  BY <1>1, <1>2 DEF ToSet, IsInjective
<1>5. QED
  BY <1>1, <1>3, <1>4

(* Concatenation unites the elements, and is injective when both parts are and *)
(* they share none.                                                            *)
LEMMA ToSetConcat ==
    ASSUME NEW S, NEW s \in Seq(S), NEW u \in Seq(S)
    PROVE  /\ s \o u \in Seq(S)
           /\ ToSet(s \o u) = ToSet(s) \cup ToSet(u)
           /\ IsInjective(s) /\ IsInjective(u) /\ ToSet(s) \cap ToSet(u) = {}
                 => IsInjective(s \o u)
<1>1. s \o u \in Seq(S) /\ Len(s \o u) = Len(s) + Len(u)
  OBVIOUS
<1>2. \A i \in 1..Len(s)+Len(u) : (s \o u)[i] = IF i <= Len(s) THEN s[i] ELSE u[i - Len(s)]
  OBVIOUS
<1>3. ToSet(s \o u) = ToSet(s) \cup ToSet(u)
  <2>1. ASSUME NEW y \in ToSet(s \o u) PROVE y \in ToSet(s) \cup ToSet(u)
    <3>1. PICK i \in 1..Len(s)+Len(u) : y = (s \o u)[i]
      BY <1>1, <2>1 DEF ToSet
    <3>2. CASE i <= Len(s)
      BY <1>2, <3>1, <3>2 DEF ToSet
    <3>3. CASE i > Len(s)
      <4>1. i - Len(s) \in 1..Len(u) /\ y = u[i - Len(s)]
        BY <1>2, <3>1, <3>3
      <4>2. QED
        BY <4>1 DEF ToSet
    <3>4. QED
      BY <3>2, <3>3
  <2>2. ASSUME NEW y \in ToSet(s) PROVE y \in ToSet(s \o u)
    BY <1>1, <1>2, <2>2 DEF ToSet
  <2>3. ASSUME NEW y \in ToSet(u) PROVE y \in ToSet(s \o u)
    <3>1. PICK i \in 1..Len(u) : y = u[i]
      BY <2>3 DEF ToSet
    <3>2. i + Len(s) \in 1..Len(s)+Len(u) /\ (s \o u)[i + Len(s)] = y
      BY <1>2, <3>1
    <3>3. QED
      BY <1>1, <3>2 DEF ToSet
  <2>4. QED
    BY <2>1, <2>2, <2>3
<1>4. ASSUME IsInjective(s), IsInjective(u), ToSet(s) \cap ToSet(u) = {}
      PROVE  IsInjective(s \o u)
  <2>1. \A i, j \in 1..Len(s) : s[i] = s[j] => i = j
    BY <1>4, InjectiveIndices
  <2>2. \A i, j \in 1..Len(u) : u[i] = u[j] => i = j
    BY <1>4, InjectiveIndices
  <2>3. \A i \in 1..Len(s), j \in 1..Len(u) : s[i] # u[j]
    BY <1>4, ToSetMember
  <2>4. ASSUME NEW i \in 1..Len(s)+Len(u), NEW j \in 1..Len(s)+Len(u),
               (s \o u)[i] = (s \o u)[j]
        PROVE  i = j
    <3>1. CASE i <= Len(s) /\ j <= Len(s)
      BY <1>2, <2>1, <2>4, <3>1
    <3>2. CASE i > Len(s) /\ j > Len(s)
      <4>1. /\ i - Len(s) \in 1..Len(u) /\ j - Len(s) \in 1..Len(u)
            /\ u[i - Len(s)] = u[j - Len(s)]
        BY <1>2, <2>4, <3>2
      <4>2. QED
        BY <2>2, <4>1
    <3>3. CASE i <= Len(s) /\ j > Len(s)
      <4>1. j - Len(s) \in 1..Len(u) /\ s[i] = u[j - Len(s)]
        BY <1>2, <2>4, <3>3
      <4>2. QED
        BY <2>3, <3>3, <4>1
    <3>4. CASE i > Len(s) /\ j <= Len(s)
      <4>1. i - Len(s) \in 1..Len(u) /\ s[j] = u[i - Len(s)]
        BY <1>2, <2>4, <3>4
      <4>2. QED
        BY <2>3, <3>4, <4>1
    <3>5. QED
      BY <3>1, <3>2, <3>3, <3>4
  <2>5. QED
    BY <1>1, <2>4, InjectiveIndices
<1>5. QED
  BY <1>1, <1>3, <1>4

(* Cutting a sequence in two splits its elements; the two parts of an injective *)
(* sequence are injective and share none.                                       *)
LEMMA ToSetCut ==
    ASSUME NEW S, NEW s \in Seq(S), NEW c \in 0..Len(s)
    PROVE  /\ SubSeq(s, 1, c) \in Seq(S)
           /\ SubSeq(s, c+1, Len(s)) \in Seq(S)
           /\ ToSet(s) = ToSet(SubSeq(s, 1, c)) \cup ToSet(SubSeq(s, c+1, Len(s)))
           /\ IsInjective(s) =>
                 /\ IsInjective(SubSeq(s, c+1, Len(s)))
                 /\ ToSet(SubSeq(s, 1, c)) \cap ToSet(SubSeq(s, c+1, Len(s))) = {}
<1> DEFINE front == SubSeq(s, 1, c)
           back == SubSeq(s, c+1, Len(s))
<1>1. /\ front \in Seq(S) /\ Len(front) = c
      /\ \A i \in 1..c : front[i] = s[i]
  BY SubSeqProperties
<1>2. /\ back \in Seq(S) /\ Len(back) = Len(s) - c
      /\ \A i \in 1..Len(s)-c : back[i] = s[c + i]
  BY SubSeqProperties
<1> HIDE DEF front, back
<1>3. \A y : y \in ToSet(front) <=> \E i \in 1..c : s[i] = y
  BY <1>1, ToSetMember
<1>4. \A y : y \in ToSet(back) <=> \E i \in c+1..Len(s) : s[i] = y
  <2>1. ASSUME NEW y \in ToSet(back) PROVE \E i \in c+1..Len(s) : s[i] = y
    BY <1>2, <2>1 DEF ToSet
  <2>2. ASSUME NEW i \in c+1..Len(s) PROVE s[i] \in ToSet(back)
    <3>1. i - c \in 1..Len(back) /\ back[i - c] = s[i]
      BY <1>2
    <3>2. QED
      BY <1>2, <3>1 DEF ToSet
  <2>3. QED
    BY <2>1, <2>2
<1>5. ToSet(s) = ToSet(front) \cup ToSet(back)
  <2>1. \A y : y \in ToSet(s) <=> \E i \in 1..Len(s) : s[i] = y
    BY ToSetMember
  <2>2. QED
    BY <2>1, <1>3, <1>4
<1>6. ASSUME IsInjective(s)
      PROVE  IsInjective(back) /\ ToSet(front) \cap ToSet(back) = {}
  <2>1. \A i, j \in 1..Len(s) : s[i] = s[j] => i = j
    BY <1>6, InjectiveIndices
  <2>2. ASSUME NEW i \in 1..Len(back), NEW j \in 1..Len(back), back[i] = back[j]
        PROVE  i = j
    <3>1. c + i \in 1..Len(s) /\ c + j \in 1..Len(s) /\ s[c + i] = s[c + j]
      BY <1>2, <2>2
    <3>2. QED
      BY <2>1, <3>1
  <2>3. ASSUME NEW y \in ToSet(front), y \in ToSet(back) PROVE FALSE
    <3>1. PICK i \in 1..c : s[i] = y
      BY <1>3, <2>3
    <3>2. PICK j \in c+1..Len(s) : s[j] = y
      BY <1>4, <2>3
    <3>3. QED
      BY <2>1, <3>1, <3>2
  <2>4. QED
    BY <1>2, <2>2, <2>3, InjectiveIndices
<1>7. QED
  BY <1>1, <1>2, <1>5, <1>6 DEF front, back

(* A nonempty set of indices of a sequence has a largest one. *)
LEMMA MaxOfIndices ==
    ASSUME NEW n \in Nat, NEW I \in SUBSET (1..n), I # {}
    PROVE  Max(I) \in I /\ \A i \in I : i <= Max(I)
<1> DEFINE D == {n - i : i \in I}
<1>1. \A d \in D : d \in Nat
  OBVIOUS
<1>2. D \subseteq Nat /\ D # {}
  BY <1>1, \E i \in I : n - i \in D
<1> HIDE DEF D
<1>3. \E d \in D : \A e \in D : ~ (<<e, d>> \in OpToRel(<, Nat))
  BY <1>2, WFMin, NatLessThanWellFounded
<1>4. PICK d \in D : \A e \in D : ~ (<<e, d>> \in OpToRel(<, Nat))
  BY <1>3
<1>5. \A e \in D : ~ (e < d)
  BY <1>2, <1>4 DEF OpToRel
<1> USE DEF D
<1>6. PICK m \in I : d = n - m
  OBVIOUS
<1>7. \A i \in I : i <= m
  <2>1. \A i \in I : ~ (n - i < n - m)
    BY <1>5, <1>6
  <2>2. QED
    BY <2>1
<1>8. QED
  BY <1>6, <1>7 DEF Max

-------------------------------------------------------------------------------

(* A message that is being built carries its producer's last number. *)
Building ==
    \A t \in Producers : pc[t] = "append" =>
        /\ pending[t] \in Message /\ pending[t] \in AllMessages
        /\ pending[t].by = t /\ pending[t].n = sent[t]

(* Every other message has a smaller number than the one being built. *)
Older(m) == m.n <= sent[m.by] /\ (pc[m.by] = "append" => m.n < sent[m.by])
Numbered == \A m \in Held \cup observed \cup discarded : Older(m)

(* Outside push and its error branch flush has nothing in hand. *)
EmptyHanded ==
    \A t \in Flushers : pc[t] \notin {"push", "restore"} => outgoing[t] = <<>>

Inv ==
    TypeOK /\ Building /\ Numbered /\ EmptyHanded /\ EachMessageOnce
-------------------------------------------------------------------------------
(* The scan of expire ends at an index of the queue, or at none. *)
LEMMA LastStaleIndex ==
    ASSUME NEW q \in Seq(Message), NEW now \in Nat
    PROVE  LastStale(q, now) \in 0..Len(q)
<1> DEFINE I == {i \in 1..Len(q) : Stale(q[i], now)}
<1>1. LastStale(q, now) = IF I # {} THEN Max(I) ELSE 0
  BY DEF LastStale, SelectLastInSeq
<1>2. Len(q) \in Nat /\ I \in SUBSET (1..Len(q))
  OBVIOUS
<1> HIDE DEF I
<1>3. I # {} => Max(I) \in I
  BY <1>2, MaxOfIndices
<1>4. CASE I = {}
  BY <1>1, <1>2, <1>4
<1>5. CASE I # {}
  <2>1. Max(I) \in 1..Len(q) /\ LastStale(q, now) = Max(I)
    BY <1>1, <1>2, <1>3, <1>5
  <2>2. QED
    BY <1>2, <2>1
<1>6. QED
  BY <1>4, <1>5

(* What is held, message by message. *)
LEMMA HeldMember ==
    \A m : m \in Held <=> \/ m \in ToSet(queue)
                          \/ \E t \in Flushers : m \in ToSet(outgoing[t])
  BY DEF Held, Queued

(* Init establishes the invariant. *)
LEMMA InitInv == Init => Inv
<1> SUFFICES ASSUME Init PROVE Inv
  OBVIOUS
<1>1. TypeOK
  <2>1. queue \in Seq(Message) /\ outgoing \in [Flushers -> Seq(Message)]
    BY DEF Init
  <2>2. pending \in [Producers -> Message \cup {<<>>}]
    BY DEF Init
  <2>3. pc \in [Threads -> PCs] /\ backoffSeconds \in Nat
    BY DEF Init, PCs
  <2>4. clock \in 0..MaxClock /\ local \in [Flushers -> Nat] /\ sent \in [Producers -> Nat]
    BY QueueAssumption DEF Init
  <2>5. \A t \in Producers : sent[t] <= MaxMessages[t]
    BY QueueAssumption DEF Init
  <2>6. QED
    BY <2>1, <2>2, <2>3, <2>4, <2>5 DEF Init, TypeOK
<1>2. ToSet(queue) = {} /\ IsInjective(queue)
  BY ToSetEmpty DEF Init
<1>3. \A t \in Flushers : ToSet(outgoing[t]) = {} /\ IsInjective(outgoing[t])
  BY ToSetEmpty DEF Init
<1>4. Building /\ EmptyHanded
  BY DEF Init, Building, EmptyHanded, Threads, Producers, Flushers
<1>5. Numbered
  BY <1>2, <1>3, HeldMember DEF Init, Numbered
<1>6. EachMessageOnce
  BY <1>2, <1>3, HeldMember DEF Init, EachMessageOnce, Queued
<1>7. QED
  BY <1>1, <1>4, <1>5, <1>6 DEF Inv

(* Every message that was ever appended is a Message. *)
LEMMA KnownMessages ==
    ASSUME TypeOK
    PROVE  \A m \in Held \cup observed \cup discarded : m \in Message
  BY HeldMember, ToSetMember DEF TypeOK

(* A step that moves no message and starts none keeps the invariant. *)
LEMMA QuietStep ==
    ASSUME Inv, TypeOK',
           UNCHANGED <<queue, outgoing, observed, discarded, sent, pending>>,
           \A t \in Producers : pc'[t] = "append" => pc[t] = "append",
           \A t \in Flushers : pc'[t] \notin {"push", "restore"} => outgoing[t] = <<>>
    PROVE  Inv'
<1>1. Building' /\ EmptyHanded'
  BY DEF Inv, Building, EmptyHanded
<1>2. Held' = Held
  BY DEF Held, Queued
<1>3. \A m \in Held \cup observed \cup discarded : m.by \in Producers
  BY KnownMessages DEF Inv, Message
<1>4. Numbered'
  BY <1>2, <1>3 DEF Inv, Numbered, Older
<1>5. EachMessageOnce'
  BY <1>2 DEF Inv, EachMessageOnce, Queued
<1>6. QED
  BY <1>1, <1>4, <1>5 DEF Inv

(* Building a message: the new number is larger than every number in use. *)
LEMMA BuildInv ==
    ASSUME Inv, NEW t \in Producers, Build(t)
    PROVE  Inv'
<1> USE QueueAssumption
<1>1. pc' = [pc EXCEPT ![t] = "append"] /\ pc \in [Threads -> PCs] /\ t \in Threads
  BY DEF Build, Goto, Inv, TypeOK, Threads
<1>2. TypeOK'
  <2>1. [by |-> t, n |-> sent[t] + 1, addedAt |-> clock] \in Message
    BY DEF Inv, TypeOK, Message
  <2>2. pending' \in [Producers -> Message \cup {<<>>}]
    BY <2>1 DEF Inv, TypeOK, Build
  <2>3. \A u \in Producers : sent[u] \in Nat /\ MaxMessages[u] \in Nat
    BY DEF Inv, TypeOK
  <2>4. /\ sent' = [sent EXCEPT ![t] = sent[t] + 1] /\ sent \in [Producers -> Nat]
        /\ sent[t] < MaxMessages[t] /\ \A u \in Producers : sent[u] <= MaxMessages[u]
    BY DEF Inv, TypeOK, Build
  <2>5. sent' \in [Producers -> Nat] /\ \A u \in Producers : sent'[u] <= MaxMessages[u]
    BY <2>3, <2>4
  <2>6. QED
    BY <1>1, <2>2, <2>5 DEF Inv, TypeOK, Build, PCs
<1>3. Building'
  <2> DEFINE x == [by |-> t, n |-> sent[t] + 1, addedAt |-> clock]
  <2>1. /\ x \in Message /\ sent[t] + 1 \in 1..MaxMessages[t]
    <3>1. sent[t] \in Nat /\ MaxMessages[t] \in Nat /\ sent[t] < MaxMessages[t]
      BY DEF Inv, TypeOK, Build
    <3>2. QED
      BY <3>1 DEF Inv, TypeOK, Message
  <2>2. x \in AllMessages
    BY <2>1 DEF AllMessages, Inv, TypeOK
  <2>3. pending'[t] = x /\ sent'[t] = x.n /\ x.by = t
    BY DEF Build, Inv, TypeOK
  <2>4. \A u \in Producers \ {t} :
           pending'[u] = pending[u] /\ sent'[u] = sent[u] /\ pc'[u] = pc[u]
    BY <1>1 DEF Build, Inv, TypeOK, Threads
  <2>5. QED
    BY <2>1, <2>2, <2>3, <2>4 DEF Inv, Building
<1>4. EmptyHanded'
  BY <1>1 DEF Inv, EmptyHanded, Build, Threads, Producers, Flushers
<1>5. Held' = Held /\ observed' = observed /\ discarded' = discarded
  BY DEF Build, Held, Queued
<1>6. \A m \in Held \cup observed \cup discarded : m.by \in Producers /\ m.n \in Nat
  BY KnownMessages DEF Inv, Message
<1>7. Numbered'
  <2> SUFFICES ASSUME NEW m \in Held \cup observed \cup discarded PROVE Older(m)'
    BY <1>5 DEF Numbered
  <2>1. m.by \in Producers /\ m.n \in Nat /\ m.n <= sent[m.by]
    BY <1>6 DEF Inv, Numbered, Older
  <2>2. sent' = [sent EXCEPT ![t] = sent[t] + 1] /\ sent \in [Producers -> Nat]
    BY DEF Build, Inv, TypeOK
  <2>3. CASE m.by = t
    BY <2>1, <2>2, <2>3 DEF Older
  <2>4. CASE m.by # t
    BY <1>1, <2>1, <2>2, <2>4 DEF Older, Inv, Numbered, Threads
  <2>5. QED
    BY <2>3, <2>4
<1>8. EachMessageOnce'
  BY <1>5 DEF Inv, EachMessageOnce, Queued, Build
<1>9. QED
  BY <1>2, <1>3, <1>4, <1>7, <1>8 DEF Inv

(* Appending: the message was nowhere, by its number. *)
LEMMA AppendInv ==
    ASSUME Inv, NEW t \in Producers, AppendMessage(t)
    PROVE  Inv' /\ pending[t] \in AllMessages
           /\ UNCHANGED <<observed, discarded>>
           /\ pending[t] \notin Held \cup observed \cup discarded
           /\ Held' = Held \cup {pending[t]}
<1> USE QueueAssumption
<1> DEFINE x == pending[t]
<1>1. /\ pc[t] = "append" /\ pc \in [Threads -> PCs] /\ t \in Threads
      /\ pc' = [pc EXCEPT ![t] = IF t \in Pushers THEN "flush" ELSE "idle"]
      /\ UNCHANGED <<outgoing, observed, discarded, sent>>
  BY DEF AppendMessage, Goto, Inv, TypeOK, Threads
<1>2. x \in Message /\ x.by = t /\ x.n = sent[t] /\ sent[t] \in Nat
  BY <1>1 DEF Inv, Building, TypeOK
<1>12. x \in AllMessages
  BY <1>1 DEF Inv, Building
<1>3. x \notin Held \cup observed \cup discarded
  BY <1>1, <1>2 DEF Inv, Numbered, Older
<1>4. x \notin ToSet(queue) /\ \A u \in Flushers : x \notin ToSet(outgoing[u])
  BY <1>3, HeldMember
<1>5. /\ queue' \in Seq(Message)
      /\ ToSet(queue') = ToSet(queue) \cup {x}
      /\ IsInjective(queue')
  BY <1>2, <1>4, ToSetAppend DEF AppendMessage, Inv, TypeOK, EachMessageOnce
<1>6. Held' = Held \cup {x}
  BY <1>1, <1>5 DEF Held, Queued
<1>7. TypeOK'
  BY <1>1, <1>5 DEF Inv, TypeOK, AppendMessage, PCs
<1>8. Building' /\ EmptyHanded'
  BY <1>1 DEF Inv, Building, EmptyHanded, AppendMessage, TypeOK,
              Threads, Flushers, Producers
<1>9. Numbered'
  <2> SUFFICES ASSUME NEW m \in Held \cup {x} \cup observed \cup discarded
               PROVE  Older(m)'
    BY <1>1, <1>6 DEF Numbered
  <2>1. m \in Message
    BY <1>2, KnownMessages DEF Inv
  <2>2. m.by \in Threads /\ m.n \in Nat
    BY <2>1 DEF Message, Threads
  <2>3. m.n <= sent[m.by] /\ (m.by # t /\ pc[m.by] = "append" => m.n < sent[m.by])
    BY <1>2 DEF Inv, Numbered, Older
  <2>4. QED
    BY <1>1, <2>2, <2>3 DEF Older
<1>10. EachMessageOnce'
  BY <1>1, <1>3, <1>4, <1>5, <1>6 DEF Inv, EachMessageOnce, Queued
<1>11. QED
  BY <1>1, <1>12, <1>3, <1>6, <1>7, <1>8, <1>9, <1>10 DEF Inv

(* expire: what it drops is gone, what it keeps was queued. *)
LEMMA ExpireInv ==
    ASSUME Inv, Expire
    PROVE  /\ Inv'
           /\ observed' = observed
           /\ Held' = Held \ (discarded' \ discarded)
           /\ discarded' \ discarded \subseteq Held
<1> USE QueueAssumption
<1> DEFINE cut == LastStale(queue, local[Ticker])
           front == ToSet(SubSeq(queue, 1, cut))
           B(u) == ToSet(outgoing[u])
<1>1. /\ queue' = SubSeq(queue, cut + 1, Len(queue))
      /\ discarded' = discarded \cup front
      /\ UNCHANGED <<outgoing, observed, sent, pending>>
      /\ pc' = [pc EXCEPT ![Ticker] = "flush"] /\ pc[Ticker] = "scan"
  BY DEF Expire, Goto
<1>2. queue \in Seq(Message) /\ cut \in 0..Len(queue)
  <2>1. queue \in Seq(Message) /\ local[Ticker] \in Nat
    BY DEF Inv, TypeOK, Flushers
  <2>2. QED
    BY <2>1, LastStaleIndex
<1>3. /\ queue' \in Seq(Message)
      /\ ToSet(queue) = front \cup ToSet(queue')
      /\ IsInjective(queue')
      /\ front \cap ToSet(queue') = {}
  <2>1. IsInjective(queue)
    BY DEF Inv, EachMessageOnce
  <2>2. QED
    BY <1>1, <1>2, <2>1, ToSetCut
<1> HIDE DEF cut, front
<1>4. \A u \in Flushers : B(u) \cap ToSet(queue) = {}
  BY DEF Inv, EachMessageOnce, Queued
<1>5. front \subseteq Held /\ front \cap (observed \cup discarded) = {}
  BY <1>3, HeldMember DEF Inv, EachMessageOnce
<1>6. Held' = Held \ front
  <2>1. Held' = ToSet(queue') \cup UNION {B(u) : u \in Flushers}
    BY <1>1 DEF Held, Queued
  <2>2. Held = ToSet(queue) \cup UNION {B(u) : u \in Flushers}
    BY DEF Held, Queued
  <2>3. \A m \in UNION {B(u) : u \in Flushers} : m \notin front
    BY <1>3, <1>4
  <2>4. QED
    BY <1>3, <2>1, <2>2, <2>3
<1>7. TypeOK'
  <2>1. discarded' \subseteq Message
    BY <1>1, <1>5, KnownMessages DEF Inv, TypeOK
  <2>2. local' \in [Flushers -> Nat] /\ pc' \in [Threads -> PCs]
    BY <1>1 DEF Expire, Inv, TypeOK, PCs
  <2>3. QED
    BY <1>1, <1>3, <2>1, <2>2 DEF Inv, TypeOK, Expire
<1>8. Building' /\ EmptyHanded'
  BY <1>1 DEF Inv, Building, EmptyHanded, TypeOK, Expire,
              Threads, Flushers, Producers
<1>9. Numbered'
  <2>1. \A m \in Held \cup observed \cup discarded : Older(m)'
    BY <1>1, KnownMessages DEF Inv, Numbered, Older, Message, TypeOK, Threads
  <2>2. QED
    BY <1>1, <1>5, <1>6, <2>1 DEF Numbered
<1>10. EachMessageOnce'
  <2>1. /\ Held' \cap (observed' \cup discarded') = {}
        /\ observed' \cap discarded' = {}
    BY <1>1, <1>5, <1>6 DEF Inv, EachMessageOnce
  <2>2. QED
    BY <1>1, <1>3, <1>4, <2>1 DEF Inv, EachMessageOnce, Queued
<1>11. QED
  BY <1>1, <1>5, <1>6, <1>7, <1>8, <1>9, <1>10 DEF Inv

(* flush takes the queue: what is held stays held. *)
LEMMA TakeInv ==
    ASSUME Inv, NEW t \in Flushers, TakeOutgoing(t)
    PROVE  Inv' /\ Held' = Held /\ UNCHANGED <<observed, discarded>>
<1> USE QueueAssumption
<1>1. /\ queue' = <<>> /\ outgoing' = [outgoing EXCEPT ![t] = queue]
      /\ UNCHANGED <<observed, discarded, sent, pending>>
      /\ pc' = [pc EXCEPT ![t] = "push"] /\ pc[t] = "flush"
  BY DEF TakeOutgoing, Goto
<1>2. /\ queue \in Seq(Message) /\ outgoing \in [Flushers -> Seq(Message)]
      /\ pc \in [Threads -> PCs] /\ t \in Threads
  BY DEF Inv, TypeOK, Threads, Flushers, Producers
<1>3. outgoing[t] = <<>>
  BY <1>1 DEF Inv, EmptyHanded
<1>4. ToSet(queue') = {} /\ IsInjective(queue') /\ ToSet(outgoing[t]) = {}
  BY <1>1, <1>3, ToSetEmpty
<1>5. /\ ToSet(outgoing'[t]) = ToSet(queue)
      /\ \A u \in Flushers \ {t} : outgoing'[u] = outgoing[u]
  BY <1>1, <1>2
<1>6. \A m : m \in Held' <=> \E u \in Flushers : m \in ToSet(outgoing'[u])
  BY <1>4 DEF Held, Queued
<1>7. Held' = Held
  BY <1>4, <1>5, <1>6, HeldMember
<1>8. TypeOK'
  BY <1>1, <1>2 DEF TakeOutgoing, Inv, TypeOK, PCs
<1>9. Building' /\ EmptyHanded'
  BY <1>1, <1>2 DEF Inv, Building, EmptyHanded, TypeOK, TakeOutgoing,
                    Threads, Flushers, Producers
<1>10. Numbered'
  BY <1>1, <1>7, KnownMessages DEF Inv, Numbered, Older, Message, TypeOK, Threads
<1>11. EachMessageOnce'
  BY <1>1, <1>2, <1>4, <1>5, <1>7 DEF Inv, EachMessageOnce, Queued
<1>12. QED
  BY <1>1, <1>7, <1>8, <1>9, <1>10, <1>11 DEF Inv

(* The batch is handed over: all of it leaves for one of the final places. *)
LEMMA HandOverInv ==
    ASSUME Inv, TypeOK', NEW t \in Flushers, pc[t] = "push",
           NEW obs \in SUBSET ToSet(outgoing[t]), HandedOver(t, obs),
           NEW label \in {"idle", "dead"}, Goto(t, label),
           UNCHANGED <<queue, sent, pending, local>>
    PROVE  /\ Inv'
           /\ ToSet(outgoing[t]) \subseteq Held
           /\ Held' = Held \ ToSet(outgoing[t])
<1> USE QueueAssumption
<1> DEFINE B == ToSet(outgoing[t])
<1>1. /\ outgoing' = [outgoing EXCEPT ![t] = <<>>]
      /\ observed' = observed \cup obs
      /\ discarded' = discarded \cup (B \ obs)
      /\ pc' = [pc EXCEPT ![t] = label]
  BY DEF HandedOver, Goto
<1>2. /\ outgoing \in [Flushers -> Seq(Message)]
      /\ pc \in [Threads -> PCs] /\ t \in Threads
  BY DEF Inv, TypeOK, Threads, Flushers, Producers
<1>3. /\ ToSet(outgoing'[t]) = {} /\ IsInjective(outgoing'[t])
      /\ \A u \in Flushers \ {t} : outgoing'[u] = outgoing[u]
  BY <1>1, <1>2, ToSetEmpty
<1>4. B \subseteq Held
  BY HeldMember
<1>5. /\ B \cap ToSet(queue) = {}
      /\ \A u \in Flushers \ {t} : B \cap ToSet(outgoing[u]) = {}
  BY DEF Inv, EachMessageOnce, Queued
<1>6. Held' = Held \ B
  <2>1. \A m : m \in Held' <=> \/ m \in ToSet(queue)
                               \/ \E u \in Flushers : m \in ToSet(outgoing'[u])
    BY DEF Held, Queued
  <2>2. QED
    BY <1>3, <1>5, <2>1, HeldMember
<1>7. Building' /\ EmptyHanded'
  BY <1>1, <1>2, <1>3 DEF Inv, Building, EmptyHanded, Threads, Flushers, Producers
<1>8. Numbered'
  <2>1. \A m \in Held \cup observed \cup discarded : Older(m)'
    BY <1>1, <1>2, KnownMessages DEF Inv, Numbered, Older, Message, Threads
  <2>2. QED
    BY <1>1, <1>4, <1>6, <2>1 DEF Numbered
<1>9. EachMessageOnce'
  <2>1. B \cap (observed \cup discarded) = {}
    BY <1>4 DEF Inv, EachMessageOnce
  <2>2. /\ Held' \cap (observed' \cup discarded') = {}
        /\ observed' \cap discarded' = {}
    BY <1>1, <1>6, <2>1 DEF Inv, EachMessageOnce
  <2>3. QED
    BY <1>3, <2>2 DEF Inv, EachMessageOnce, Queued
<1>10. QED
  BY <1>4, <1>6, <1>7, <1>8, <1>9 DEF Inv

(* A failed batch goes back: what is held stays held. *)
LEMMA RestoreInv ==
    ASSUME Inv, NEW t \in Flushers, Restore(t)
    PROVE  Inv' /\ Held' = Held /\ UNCHANGED <<observed, discarded>>
<1> USE QueueAssumption
<1>1. /\ queue' = outgoing[t] \o queue
      /\ outgoing' = [outgoing EXCEPT ![t] = <<>>]
      /\ UNCHANGED <<observed, discarded, sent, pending>>
      /\ pc' = [pc EXCEPT ![t] = "backoff"]
  BY DEF Restore, Restored, Goto
<1>2. /\ queue \in Seq(Message) /\ outgoing \in [Flushers -> Seq(Message)]
      /\ pc \in [Threads -> PCs] /\ t \in Threads
  BY DEF Inv, TypeOK, Threads, Flushers, Producers
<1>3. /\ ToSet(outgoing'[t]) = {} /\ IsInjective(outgoing'[t])
      /\ \A u \in Flushers \ {t} : outgoing'[u] = outgoing[u]
  BY <1>1, <1>2, ToSetEmpty
<1>4. /\ IsInjective(queue) /\ IsInjective(outgoing[t])
      /\ ToSet(outgoing[t]) \cap ToSet(queue) = {}
  BY DEF Inv, EachMessageOnce, Queued
<1>5. /\ queue' \in Seq(Message)
      /\ ToSet(queue') = ToSet(outgoing[t]) \cup ToSet(queue)
      /\ IsInjective(queue')
  BY <1>1, <1>2, <1>4, ToSetConcat
<1>6. Held' = Held
  <2>1. \A m : m \in Held' <=> \/ m \in ToSet(queue')
                               \/ \E u \in Flushers : m \in ToSet(outgoing'[u])
    BY DEF Held, Queued
  <2>2. QED
    BY <1>3, <1>5, <2>1, HeldMember
<1>7. TypeOK'
  BY <1>1, <1>2, <1>5 DEF Restore, Inv, TypeOK, PCs
<1>8. Building' /\ EmptyHanded'
  BY <1>1, <1>2 DEF Inv, Building, EmptyHanded, TypeOK, Restore,
                    Threads, Flushers, Producers
<1>9. Numbered'
  BY <1>1, <1>6, KnownMessages DEF Inv, Numbered, Older, Message, TypeOK, Threads
<1>10. EachMessageOnce'
  BY <1>1, <1>3, <1>5, <1>6 DEF Inv, EachMessageOnce, Queued
<1>11. QED
  BY <1>1, <1>6, <1>7, <1>8, <1>9, <1>10 DEF Inv

(* push returns or panics: a step of HandOverInv, with what it observes. *)
LEMMA PushInv ==
    ASSUME Inv, NEW t \in Flushers, PushReturns(t) \/ PushPanics(t)
    PROVE  Inv' /\ \E obs \in SUBSET ToSet(outgoing[t]) :
              /\ HandedOver(t, obs)
              /\ ToSet(outgoing[t]) \subseteq Held
              /\ Held' = Held \ ToSet(outgoing[t])
<1> USE QueueAssumption
<1>1. PICK obs : HandedOver(t, obs) /\ obs \in SUBSET ToSet(outgoing[t])
  <2>1. Pushed(outgoing[t]) \subseteq ToSet(outgoing[t])
    BY DEF Pushed
  <2>2. QED
    BY <2>1 DEF PushReturns, PushPanics
<1>2. PICK label \in {"idle", "dead"} : Goto(t, label)
  BY DEF PushReturns, PushPanics
<1>3. UNCHANGED <<queue, sent, pending, local, clock, histo, overlapped, crowded>> /\ pc[t] = "push"
  BY DEF PushReturns, PushPanics
<1>4. TypeOK'
  <2>1. ToSet(outgoing[t]) \subseteq Message
    BY ToSetMember DEF Inv, TypeOK
  <2>2. observed' \subseteq Message /\ discarded' \subseteq Message
    BY <1>1, <2>1 DEF HandedOver, Inv, TypeOK
  <2>3. outgoing' \in [Flushers -> Seq(Message)]
    BY <1>1 DEF HandedOver, Inv, TypeOK
  <2>4. pc' \in [Threads -> PCs]
    BY <1>2 DEF Goto, Inv, TypeOK, PCs
  <2>5. backoffSeconds' \in Nat
    BY DEF PushReturns, PushPanics, Inv, TypeOK
  <2>6. QED
    BY <1>3, <2>2, <2>3, <2>4, <2>5 DEF Inv, TypeOK
<1>5. /\ Inv' /\ ToSet(outgoing[t]) \subseteq Held
      /\ Held' = Held \ ToSet(outgoing[t])
  BY <1>1, <1>2, <1>3, <1>4, HandOverInv
<1>6. QED
  BY <1>1, <1>5

(* The steps of flush's error branch behind the restore. *)
RaisesBackoff(t) == ReadBackoff(t) \/ CheckBackoff(t) \/ DoubleBackoff(t) \/ RaiseBackoff(t)

(* The steps that only move a goroutine on. *)
Quiet ==
    \/ Tick \/ TickerFires \/ ExpireReadsClock \/ BoundReached \/ UNCHANGED vars
    \/ \E t \in Flushers : PushFails(t) \/ RaisesBackoff(t)

LEMMA QuietInv ==
    ASSUME Inv, Quiet
    PROVE  Inv' /\ Held' = Held /\ UNCHANGED <<observed, discarded>>
<1> USE QueueAssumption
<1>1. UNCHANGED <<queue, outgoing, observed, discarded, sent, pending>>
  BY DEF Quiet, Tick, TickerFires, ExpireReadsClock, BoundReached, vars,
         PushFails, RaisesBackoff, ReadBackoff,
         CheckBackoff, DoubleBackoff, RaiseBackoff
<1>2. Held' = Held
  BY <1>1 DEF Held, Queued
<1>3. Inv'
  <2> USE <1>1
  <2>1. CASE Tick
    <3>1. TypeOK' /\ pc' = pc
      BY <2>1 DEF Tick, Inv, TypeOK
    <3>2. QED
      BY <3>1, QuietStep DEF Inv, EmptyHanded
  <2>2. CASE TickerFires
    <3>1. /\ pc[Ticker] = "idle" /\ pc \in [Threads -> PCs]
          /\ pc' = [pc EXCEPT ![Ticker] = IF Len(queue) > 0 THEN "expire" ELSE "idle"]
      BY <2>2 DEF TickerFires, Goto, Inv, TypeOK
    <3>2. TypeOK'
      BY <2>2, <3>1 DEF TickerFires, Inv, TypeOK, PCs
    <3>4. QED
      BY <3>1, <3>2, QuietStep DEF Inv, EmptyHanded, Threads, Flushers, Producers
  <2>3. CASE ExpireReadsClock
    <3>1. /\ pc[Ticker] = "expire" /\ pc \in [Threads -> PCs]
          /\ pc' = [pc EXCEPT ![Ticker] = "scan"]
      BY <2>3 DEF ExpireReadsClock, Goto, Inv, TypeOK
    <3>2. clock \in Nat
      BY DEF Inv, TypeOK
    <3>3. local' \in [Flushers -> Nat]
      BY <2>3, <3>2 DEF ExpireReadsClock, Inv, TypeOK
    <3>4. TypeOK'
      BY <2>3, <3>1, <3>3 DEF ExpireReadsClock, Inv, TypeOK, PCs
    <3>6. QED
      BY <3>1, <3>4, QuietStep DEF Inv, EmptyHanded, Threads, Flushers, Producers
  <2>4. CASE BoundReached \/ UNCHANGED vars
    <3>1. TypeOK' /\ pc' = pc
      BY <2>4 DEF BoundReached, vars, Inv, TypeOK
    <3>2. QED
      BY <3>1, QuietStep DEF Inv, EmptyHanded
  <2>5. ASSUME NEW t \in Flushers, PushFails(t) PROVE Inv'
    <3>1. pc \in [Threads -> PCs] /\ pc' = [pc EXCEPT ![t] = "restore"]
      BY <2>5 DEF PushFails, Goto, Inv, TypeOK
    <3>2. TypeOK'
      BY <2>5, <3>1 DEF PushFails, Inv, TypeOK, PCs
    <3>4. QED
      BY <3>1, <3>2, QuietStep DEF Inv, EmptyHanded, Threads, Flushers, Producers
  <2>6. ASSUME NEW t \in Flushers, RaisesBackoff(t) PROVE Inv'
    <3>1. \E label \in {"check", "double", "raise", "idle"} : Goto(t, label)
      BY <2>6 DEF RaisesBackoff, ReadBackoff, CheckBackoff, DoubleBackoff, RaiseBackoff
    <3>2. /\ pc[t] \notin {"push", "restore"} /\ pc \in [Threads -> PCs]
          /\ \E label \in {"check", "double", "raise", "idle"} : pc' = [pc EXCEPT ![t] = label]
      BY <2>6, <3>1 DEF RaisesBackoff, ReadBackoff, CheckBackoff, DoubleBackoff, RaiseBackoff,
                        Goto, Inv, TypeOK
    <3>3. local' \in [Flushers -> Nat] /\ backoffSeconds' \in Nat
      BY <2>6 DEF RaisesBackoff, ReadBackoff, CheckBackoff, DoubleBackoff, RaiseBackoff, Inv, TypeOK
    <3>4. crowded' \in BOOLEAN /\ UNCHANGED <<histo, clock, overlapped>>
      BY <2>6 DEF RaisesBackoff, ReadBackoff, CheckBackoff, DoubleBackoff, RaiseBackoff, Inv, TypeOK
    <3>5. pc' \in [Threads -> PCs]
      BY <3>2 DEF PCs
    <3>6. TypeOK'
      BY <3>3, <3>4, <3>5 DEF Inv, TypeOK
    <3>7. QED
      BY <3>2, <3>6, QuietStep DEF Inv, EmptyHanded, Threads, Flushers, Producers
  <2>7. QED
    BY <2>1, <2>2, <2>3, <2>4, <2>5, <2>6 DEF Quiet
<1>4. QED
  BY <1>1, <1>2, <1>3

(* Every step is one of these. *)
LEMMA Steps ==
    ASSUME [Next]_vars
    PROVE  \/ Quiet
           \/ \E t \in Producers : Build(t) \/ AppendMessage(t)
           \/ Expire
           \/ \E t \in Flushers :
                 TakeOutgoing(t) \/ PushReturns(t) \/ PushPanics(t) \/ Restore(t)
  BY DEF Next, Produce, Expiry, Flush, Quiet, RaisesBackoff

(* The invariant is inductive. *)
LEMMA InvNext == Inv /\ [Next]_vars => Inv'
  BY Steps, QuietInv, BuildInv, AppendInv, ExpireInv, TakeInv, PushInv, RestoreInv

(* The types of message_queue.go's variables: the backoff is a number, how *)
(* large it gets is BackoffBounded's.                                      *)
THEOREM TypeCorrect == Spec => []TypeOK
<1>1. Inv => TypeOK
  BY DEF Inv
<1>2. QED
  BY InitInv, InvNext, <1>1, PTL DEF Spec

(* No interleaving of appends, expiry and flushes, failing ones included, *)
(* duplicates a message or brings back one that is gone.                  *)
THEOREM NoDuplication == Spec => []EachMessageOnce
<1>1. Inv => EachMessageOnce
  BY DEF Inv
<1>2. QED
  BY InitInv, InvNext, <1>1, PTL DEF Spec
-------------------------------------------------------------------------------
(* A step of the queue is a step of the contract, or changes nothing it sees. *)
LEMMA ContractStep == Inv /\ [Next]_vars => [Contract!Next]_(Contract!vars)
<1> SUFFICES ASSUME Inv, [Next]_vars PROVE [Contract!Next]_(Contract!vars)
  OBVIOUS
<1>1. ASSUME UNCHANGED <<Held, observed, discarded>> PROVE UNCHANGED Contract!vars
  BY <1>1 DEF Contract!vars
<1>2. CASE Quiet
  BY <1>1, <1>2, QuietInv
<1>3. ASSUME NEW t \in Producers, Build(t) PROVE UNCHANGED Contract!vars
  <2>1. Held' = Held /\ UNCHANGED <<observed, discarded>>
    BY <1>3 DEF Build, Held, Queued
  <2>2. QED
    BY <1>1, <2>1
<1>4. ASSUME NEW t \in Producers, AppendMessage(t) PROVE Contract!Next
  <2>1. pending[t] \in AllMessages /\ Contract!Accept(pending[t])
    BY <1>4, AppendInv DEF Contract!Accept
  <2>2. QED
    BY <2>1 DEF Contract!Next
<1>5. CASE Expire
  <2> DEFINE lost == discarded' \ discarded
  <2>1. lost \subseteq Held /\ Held' = Held \ lost /\ observed' = observed
    BY <1>5, ExpireInv
  <2>2. discarded' = discarded \cup lost
    BY <1>5 DEF Expire
  <2>3. Contract!Release({}, lost) /\ lost \in SUBSET Held
    BY <2>1, <2>2 DEF Contract!Release
  <2>4. QED
    BY <2>3 DEF Contract!Next
<1>6. ASSUME NEW t \in Flushers, TakeOutgoing(t) \/ Restore(t)
      PROVE  UNCHANGED Contract!vars
  BY <1>1, <1>6, TakeInv, RestoreInv
<1>7. ASSUME NEW t \in Flushers, PushReturns(t) \/ PushPanics(t) PROVE Contract!Next
  <2>1. PICK obs \in SUBSET ToSet(outgoing[t]) :
           /\ HandedOver(t, obs)
           /\ ToSet(outgoing[t]) \subseteq Held
           /\ Held' = Held \ ToSet(outgoing[t])
    BY <1>7, PushInv
  <2> DEFINE lost == ToSet(outgoing[t]) \ obs
  <2>2. Contract!Release(obs, lost) /\ obs \in SUBSET Held /\ lost \in SUBSET Held
    BY <2>1 DEF HandedOver, Contract!Release
  <2>3. QED
    BY <2>2 DEF Contract!Next
<1>8. QED
  BY <1>2, <1>3, <1>4, <1>5, <1>6, <1>7, Steps

(* The initial states of the queue are initial states of the contract. *)
LEMMA ContractInit == Init => Contract!Init
<1> SUFFICES ASSUME Init PROVE Held = {}
  BY DEF Init, Contract!Init
<1>1. ToSet(queue) = {} /\ \A t \in Flushers : ToSet(outgoing[t]) = {}
  BY ToSetEmpty DEF Init
<1>2. QED
  BY <1>1, HeldMember

(* message_queue.go implements QueueContract, for every number of goroutines *)
(* and every histogram.                                                      *)
THEOREM Implementation == Spec => ImplementsContract
  BY InitInv, InvNext, ContractInit, ContractStep, PTL
     DEF Spec, ImplementsContract, Contract!Spec
-------------------------------------------------------------------------------
(* m may stand in front of l: it is not younger, and its producer built it first. *)
Before(m, l) == m.addedAt <= l.addedAt /\ (m.by = l.by => m.n < l.n)

Ordered(s) == \A i, j \in 1..Len(s) : i < j => Before(s[i], s[j])

(* No message is younger than the clock. *)
Aged ==
    /\ \A m \in Held : m.addedAt <= clock
    /\ \A p \in Producers : pc[p] = "append" => pending[p].addedAt <= clock

(* One goroutine at a time is about to append, and one flush has a batch. *)
OneAppends == \A p, q \in Producers : pc[p] = "append" /\ pc[q] = "append" => p = q
OneBatch ==
    \A t, u \in Flushers : outgoing[t] # <<>> /\ outgoing[u] # <<>> => t = u

(* The batch, then the queue, then the message being built, are in order. *)
InOrder ==
    /\ Ordered(queue)
    /\ \A t \in Flushers :
          /\ Ordered(outgoing[t])
          /\ \A m \in ToSet(outgoing[t]), l \in ToSet(queue) : Before(m, l)
    /\ \A p \in Producers : pc[p] = "append" => \A m \in Held : Before(m, pending[p])

OrderInv == Aged /\ (~overlapped => OneAppends /\ OneBatch /\ InOrder)

LEMMA OrderedAppend ==
    ASSUME NEW s \in Seq(Message), NEW x \in Message, Ordered(s),
           \A m \in ToSet(s) : Before(m, x)
    PROVE  Ordered(Append(s, x))
<1>1. /\ Len(Append(s, x)) = Len(s) + 1 /\ Append(s, x)[Len(s) + 1] = x
      /\ \A i \in 1..Len(s) : Append(s, x)[i] = s[i] /\ s[i] \in ToSet(s)
  BY ToSetMember
<1>2. SUFFICES ASSUME NEW i \in 1..(Len(s) + 1), NEW j \in 1..(Len(s) + 1), i < j
               PROVE  Before(Append(s, x)[i], Append(s, x)[j])
  BY <1>1 DEF Ordered
<1>3. i \in 1..Len(s)
  BY <1>2
<1>4. CASE j = Len(s) + 1
  BY <1>1, <1>3, <1>4
<1>5. CASE j # Len(s) + 1
  <2>1. j \in 1..Len(s)
    BY <1>5
  <2>2. QED
    BY <1>1, <1>2, <1>3, <2>1 DEF Ordered
<1>6. QED
  BY <1>4, <1>5

LEMMA OrderedConcat ==
    ASSUME NEW s \in Seq(Message), NEW u \in Seq(Message), Ordered(s), Ordered(u),
           \A m \in ToSet(s), l \in ToSet(u) : Before(m, l)
    PROVE  Ordered(s \o u)
<1>1. Len(s \o u) = Len(s) + Len(u) /\ Len(s) \in Nat /\ Len(u) \in Nat
  OBVIOUS
<1>2. \A i \in 1..Len(s) : (s \o u)[i] = s[i] /\ s[i] \in ToSet(s)
  BY ToSetMember
<1>3. \A i \in 1..(Len(s) + Len(u)) : i > Len(s) =>
         /\ i - Len(s) \in 1..Len(u) /\ (s \o u)[i] = u[i - Len(s)]
         /\ u[i - Len(s)] \in ToSet(u)
  BY <1>1, ToSetMember
<1>4. SUFFICES ASSUME NEW i \in 1..(Len(s) + Len(u)), NEW j \in 1..(Len(s) + Len(u)), i < j
               PROVE  Before((s \o u)[i], (s \o u)[j])
  BY <1>1 DEF Ordered
<1>5. CASE j <= Len(s)
  <2>1. i \in 1..Len(s) /\ j \in 1..Len(s)
    BY <1>1, <1>4, <1>5
  <2>2. QED
    BY <1>2, <1>4, <2>1 DEF Ordered
<1>6. CASE i <= Len(s) /\ j > Len(s)
  <2>1. i \in 1..Len(s)
    BY <1>1, <1>6
  <2>2. QED
    BY <1>2, <1>3, <1>6, <2>1
<1>7. CASE i > Len(s)
  <2>1. j > Len(s) /\ i - Len(s) < j - Len(s)
    BY <1>1, <1>4, <1>7
  <2>2. QED
    BY <1>3, <1>7, <2>1 DEF Ordered
<1>8. QED
  BY <1>1, <1>5, <1>6, <1>7

LEMMA OrderedCut ==
    ASSUME NEW s \in Seq(Message), NEW c \in 0..Len(s), Ordered(s)
    PROVE  Ordered(SubSeq(s, c + 1, Len(s)))
<1> DEFINE u == SubSeq(s, c + 1, Len(s))
<1>1. Len(u) = Len(s) - c /\ \A i \in 1..(Len(s) - c) : u[i] = s[c + i]
  OBVIOUS
<1>2. SUFFICES ASSUME NEW i \in 1..(Len(s) - c), NEW j \in 1..(Len(s) - c), i < j
               PROVE  Before(u[i], u[j])
  BY <1>1 DEF Ordered
<1>3. c + i \in 1..Len(s) /\ c + j \in 1..Len(s) /\ c + i < c + j
  BY <1>2
<1>4. QED
  BY <1>1, <1>3 DEF Ordered

LEMMA OrderedEmpty == Ordered(<<>>)
  BY DEF Ordered

LEMMA InitOrder == Init => OrderInv
<1> SUFFICES ASSUME Init PROVE OrderInv
  OBVIOUS
<1>1. /\ ToSet(queue) = {} /\ Ordered(queue)
      /\ \A t \in Flushers : ToSet(outgoing[t]) = {} /\ Ordered(outgoing[t])
  BY ToSetEmpty, OrderedEmpty DEF Init
<1>2. Held = {}
  BY <1>1, HeldMember
<1>3. \A p \in Producers : pc[p] # "append"
  BY DEF Init, Threads
<1>4. OneBatch
  BY DEF Init, OneBatch
<1>5. QED
  BY <1>1, <1>2, <1>3, <1>4 DEF OrderInv, Aged, OneAppends, InOrder

(* A goroutine that goes anywhere else is not about to append. *)
LEMMA StartsNoMessage ==
    ASSUME pc \in [Threads -> PCs], NEW t, NEW label, label # "append", Goto(t, label)
    PROVE  \A p \in Producers : pc'[p] = "append" => pc[p] = "append"
  BY DEF Goto, Threads

(* A step that moves no message and starts none keeps the order. *)
LEMMA QuietOrder ==
    ASSUME Inv, OrderInv, Quiet
    PROVE  OrderInv'
<1>1. UNCHANGED <<queue, outgoing, pending, overlapped>> /\ Held' = Held
  BY QuietInv DEF Quiet, Tick, TickerFires, ExpireReadsClock, BoundReached, vars,
         PushFails, RaisesBackoff, ReadBackoff,
         CheckBackoff, DoubleBackoff, RaiseBackoff
<1>2. clock \in Nat /\ clock' \in Nat /\ clock' >= clock
  BY QueueAssumption DEF Inv, TypeOK, Quiet, Tick, TickerFires, ExpireReadsClock,
         BoundReached, vars, PushFails, RaisesBackoff, ReadBackoff,
         CheckBackoff, DoubleBackoff, RaiseBackoff
<1>3. \A p \in Producers : pc'[p] = "append" => pc[p] = "append"
  <2>1. pc \in [Threads -> PCs]
    BY DEF Inv, TypeOK
  <2>2. CASE TickerFires \/ ExpireReadsClock
    BY <2>1, <2>2, StartsNoMessage DEF TickerFires, ExpireReadsClock
  <2>3. CASE \E t \in Flushers : PushFails(t) \/ RaisesBackoff(t)
    BY <2>1, <2>3, StartsNoMessage DEF PushFails, RaisesBackoff, ReadBackoff,
         CheckBackoff, DoubleBackoff, RaiseBackoff
  <2>4. CASE Tick \/ BoundReached \/ UNCHANGED vars
    BY <2>4 DEF Tick, BoundReached, vars
  <2>5. QED
    BY <2>2, <2>3, <2>4 DEF Quiet
<1>4. Aged'
  <2>1. \A m \in Held : m.addedAt \in Nat
    BY KnownMessages DEF Inv, Message
  <2>2. \A p \in Producers : pc[p] = "append" => pending[p].addedAt \in Nat
    BY DEF Inv, Building, Message
  <2>3. QED
    BY <1>1, <1>2, <1>3, <2>1, <2>2 DEF OrderInv, Aged
<1>5. ~overlapped' => OneAppends' /\ OneBatch' /\ InOrder'
  BY <1>1, <1>3 DEF OrderInv, OneAppends, OneBatch, InOrder
<1>6. QED
  BY <1>4, <1>5 DEF OrderInv

(* A message is built at the clock's time, behind all that is held. *)
LEMMA BuildOrder ==
    ASSUME Inv, OrderInv, NEW t \in Producers, Build(t)
    PROVE  OrderInv'
<1> DEFINE x == [by |-> t, n |-> sent[t] + 1, addedAt |-> clock]
<1>1. /\ pc' = [pc EXCEPT ![t] = "append"] /\ pc \in [Threads -> PCs] /\ t \in Threads
      /\ pending' = [pending EXCEPT ![t] = x]
      /\ UNCHANGED <<queue, outgoing, clock>> /\ Held' = Held
  BY DEF Build, Goto, Inv, TypeOK, Threads, Held, Queued
<1>2. pending'[t] = x /\ \A p \in Producers \ {t} : pending'[p] = pending[p] /\ pc'[p] = pc[p]
  BY <1>1 DEF Inv, TypeOK, Threads
<1>3. clock \in Nat /\ sent[t] \in Nat
  BY QueueAssumption DEF Inv, TypeOK
<1>4. Aged'
  BY <1>1, <1>2, <1>3 DEF OrderInv, Aged
<1>5. ASSUME ~overlapped' PROVE OneAppends' /\ OneBatch' /\ InOrder'
  <2>1. ~overlapped /\ \A p \in Producers \ {t} : pc[p] # "append"
    BY <1>5 DEF Build
  <2>2. OneAppends' /\ OneBatch'
    BY <1>1, <1>2, <2>1 DEF OneAppends, OneBatch, OrderInv
  <2>3. \A m \in Held : Before(m, x)
    <3>1. \A m \in Held : m \in Message /\ m.n <= sent[m.by] /\ m.addedAt <= clock
      BY KnownMessages DEF Inv, Numbered, Older, OrderInv, Aged
    <3>2. QED
      BY <1>3, <3>1 DEF Before, Message
  <2>4. InOrder'
    BY <1>1, <1>2, <2>1, <2>3 DEF InOrder, OrderInv
  <2>5. QED
    BY <2>2, <2>4
<1>6. QED
  BY <1>4, <1>5 DEF OrderInv

(* The only message being built goes to the end of the queue. *)
LEMMA AppendOrder ==
    ASSUME Inv, OrderInv, NEW t \in Producers, AppendMessage(t)
    PROVE  OrderInv'
<1> DEFINE x == pending[t]
<1>1. /\ pc[t] = "append" /\ pc \in [Threads -> PCs] /\ t \in Threads
      /\ pc' = [pc EXCEPT ![t] = IF t \in Pushers THEN "flush" ELSE "idle"]
      /\ queue' = Append(queue, x) /\ pending' = [pending EXCEPT ![t] = <<>>]
      /\ UNCHANGED <<outgoing, clock, overlapped>>
  BY DEF AppendMessage, Goto, Inv, TypeOK, Threads
<1>2. Held' = Held \cup {x}
  BY AppendInv
<1>3. \A p \in Producers : pc'[p] = "append" =>
          p # t /\ pc[p] = "append" /\ pending'[p] = pending[p]
  BY <1>1 DEF Inv, TypeOK, Threads
<1>4. x \in Message /\ queue \in Seq(Message)
  BY <1>1 DEF Inv, Building, TypeOK
<1>5. Aged'
  BY <1>1, <1>2, <1>3 DEF OrderInv, Aged
<1>6. ASSUME ~overlapped' PROVE OneAppends' /\ OneBatch' /\ InOrder'
  <2>1. OneAppends /\ OneBatch /\ InOrder
    BY <1>1, <1>6 DEF OrderInv
  <2>2. \A p \in Producers : pc'[p] # "append"
    BY <1>1, <1>3, <2>1 DEF OneAppends
  <2>3. \A m \in Held : Before(m, x)
    BY <1>1, <2>1 DEF InOrder
  <2>4. ToSet(queue') = ToSet(queue) \cup {x}
    BY <1>1, <1>4, ToSetAppend
  <2>5. Ordered(queue')
    BY <1>1, <1>4, <2>1, <2>3, OrderedAppend, HeldMember DEF InOrder
  <2>6. \A u \in Flushers : \A m \in ToSet(outgoing[u]) : Before(m, x)
    BY <2>3, HeldMember
  <2>7. InOrder'
    BY <1>1, <2>1, <2>2, <2>4, <2>5, <2>6 DEF InOrder
  <2>8. QED
    BY <1>1, <2>1, <2>2, <2>7 DEF OneAppends, OneBatch
<1>7. QED
  BY <1>5, <1>6 DEF OrderInv

(* What expire keeps is the end of the queue. *)
LEMMA ExpireOrder ==
    ASSUME Inv, OrderInv, Expire
    PROVE  OrderInv'
<1> DEFINE cut == LastStale(queue, local[Ticker])
<1>1. /\ queue' = SubSeq(queue, cut + 1, Len(queue))
      /\ UNCHANGED <<outgoing, pending, clock, overlapped>>
      /\ pc' = [pc EXCEPT ![Ticker] = "flush"]
  BY DEF Expire, Goto
<1>2. queue \in Seq(Message) /\ cut \in 0..Len(queue)
  BY LastStaleIndex DEF Inv, TypeOK, Flushers
<1> HIDE DEF cut
<1>3. ToSet(queue') \subseteq ToSet(queue) /\ Held' \subseteq Held
  BY <1>1, <1>2, ToSetCut, ExpireInv
<1>4. \A p \in Producers : pc'[p] = "append" => pc[p] = "append"
  BY <1>1 DEF Inv, TypeOK
<1>5. Aged'
  BY <1>1, <1>3, <1>4 DEF OrderInv, Aged
<1>6. ASSUME ~overlapped' PROVE OneAppends' /\ OneBatch' /\ InOrder'
  <2>1. OneAppends /\ OneBatch /\ InOrder
    BY <1>1, <1>6 DEF OrderInv
  <2>2. Ordered(queue')
    BY <1>1, <1>2, <2>1, OrderedCut DEF InOrder
  <2>3. QED
    BY <1>1, <1>3, <1>4, <2>1, <2>2 DEF OneAppends, OneBatch, InOrder
<1>7. QED
  BY <1>5, <1>6 DEF OrderInv

(* A batch is taken while no other flush has one, or it is empty. *)
LEMMA TakeOrder ==
    ASSUME Inv, OrderInv, NEW t \in Flushers, TakeOutgoing(t)
    PROVE  OrderInv'
<1>1. /\ queue' = <<>> /\ outgoing' = [outgoing EXCEPT ![t] = queue]
      /\ UNCHANGED <<pending, clock>> /\ Held' = Held
      /\ pc' = [pc EXCEPT ![t] = "push"] /\ outgoing \in [Flushers -> Seq(Message)]
  BY TakeInv DEF TakeOutgoing, Goto, Inv, TypeOK
<1>2. outgoing'[t] = queue /\ \A u \in Flushers \ {t} : outgoing'[u] = outgoing[u]
  BY <1>1
<1>3. \A p \in Producers : pc'[p] = "append" => pc[p] = "append"
  BY <1>1 DEF Inv, TypeOK
<1>4. Aged'
  BY <1>1, <1>3 DEF OrderInv, Aged
<1>5. ASSUME ~overlapped' PROVE OneAppends' /\ OneBatch' /\ InOrder'
  <2>1. /\ ~overlapped
        /\ queue = <<>> \/ \A u \in Flushers \ {t} : outgoing[u] = <<>>
    BY <1>5 DEF TakeOutgoing
  <2>2. OneAppends /\ OneBatch /\ InOrder
    BY <2>1 DEF OrderInv
  <2>3. OneAppends' /\ OneBatch'
    BY <1>2, <1>3, <2>1, <2>2 DEF OneAppends, OneBatch
  <2>4. ToSet(queue') = {} /\ Ordered(queue')
    BY <1>1, ToSetEmpty, OrderedEmpty
  <2>5. \A u \in Flushers : Ordered(outgoing'[u])
    BY <1>2, <2>2 DEF InOrder
  <2>6. InOrder'
    BY <1>1, <1>3, <2>2, <2>4, <2>5 DEF InOrder
  <2>7. QED
    BY <2>3, <2>6
<1>6. QED
  BY <1>4, <1>5 DEF OrderInv

(* A batch that is handed over leaves the rest in order. *)
LEMMA PushOrder ==
    ASSUME Inv, OrderInv, NEW t \in Flushers, PushReturns(t) \/ PushPanics(t)
    PROVE  OrderInv'
<1>1. /\ outgoing' = [outgoing EXCEPT ![t] = <<>>] /\ outgoing \in [Flushers -> Seq(Message)]
      /\ UNCHANGED <<queue, pending, clock, overlapped>> /\ Held' \subseteq Held
  BY PushInv DEF HandedOver, PushReturns, PushPanics, Inv, TypeOK
<1>2. /\ outgoing'[t] = <<>> /\ ToSet(outgoing'[t]) = {} /\ Ordered(outgoing'[t])
      /\ \A u \in Flushers \ {t} : outgoing'[u] = outgoing[u]
  BY <1>1, ToSetEmpty, OrderedEmpty
<1>3. \A p \in Producers : pc'[p] = "append" => pc[p] = "append"
  <2>1. pc \in [Threads -> PCs]
    BY DEF Inv, TypeOK
  <2>2. QED
    BY <2>1, StartsNoMessage DEF PushReturns, PushPanics
<1>4. Aged'
  BY <1>1, <1>3 DEF OrderInv, Aged
<1>5. ~overlapped' => OneAppends' /\ OneBatch' /\ InOrder'
  BY <1>1, <1>2, <1>3 DEF OrderInv, OneAppends, OneBatch, InOrder
<1>6. QED
  BY <1>4, <1>5 DEF OrderInv

(* The failed batch stands in front of all that was appended after it was taken. *)
LEMMA RestoreOrder ==
    ASSUME Inv, OrderInv, NEW t \in Flushers, Restore(t)
    PROVE  OrderInv'
<1> DEFINE batch == outgoing[t]
<1>1. /\ queue' = batch \o queue
      /\ outgoing' = [outgoing EXCEPT ![t] = <<>>] /\ outgoing \in [Flushers -> Seq(Message)]
      /\ queue \in Seq(Message) /\ batch \in Seq(Message)
      /\ UNCHANGED <<pending, clock, overlapped>> /\ Held' = Held
      /\ pc' = [pc EXCEPT ![t] = "backoff"]
  BY RestoreInv DEF Restore, Restored, Goto, Inv, TypeOK
<1>2. /\ outgoing'[t] = <<>> /\ ToSet(outgoing'[t]) = {} /\ Ordered(outgoing'[t])
      /\ \A u \in Flushers \ {t} : outgoing'[u] = outgoing[u]
  BY <1>1, ToSetEmpty, OrderedEmpty
<1>3. \A p \in Producers : pc'[p] = "append" => pc[p] = "append"
  BY <1>1 DEF Inv, TypeOK
<1>4. Aged'
  BY <1>1, <1>3 DEF OrderInv, Aged
<1>5. ASSUME ~overlapped' PROVE OneAppends' /\ OneBatch' /\ InOrder'
  <2>1. OneAppends /\ OneBatch /\ InOrder
    BY <1>1, <1>5 DEF OrderInv
  <2>2. Ordered(queue')
    BY <1>1, <2>1, OrderedConcat DEF InOrder
  <2>3. OneAppends' /\ OneBatch'
    BY <1>2, <1>3, <2>1 DEF OneAppends, OneBatch
  <2>4. \A u \in Flushers : \A m \in ToSet(outgoing'[u]), l \in ToSet(queue') : Before(m, l)
    <3>1. CASE batch = <<>>
      <4>1. queue' = queue
        BY <1>1, <3>1
      <4>2. QED
        BY <1>2, <2>1, <4>1 DEF InOrder
    <3>2. CASE batch # <<>>
      <4>1. \A u \in Flushers : outgoing'[u] = <<>>
        BY <1>2, <2>1, <3>2 DEF OneBatch
      <4>2. QED
        BY <4>1, ToSetEmpty
    <3>3. QED
      BY <3>1, <3>2
  <2>5. \A u \in Flushers : Ordered(outgoing'[u])
    BY <1>2, <2>1 DEF InOrder
  <2>6. InOrder'
    BY <1>1, <1>3, <2>1, <2>2, <2>4, <2>5 DEF InOrder
  <2>7. QED
    BY <2>3, <2>6
<1>6. QED
  BY <1>4, <1>5 DEF OrderInv

LEMMA OrderNext == Inv /\ OrderInv /\ [Next]_vars => OrderInv'
  BY Steps, QuietOrder, BuildOrder, AppendOrder, ExpireOrder, TakeOrder, PushOrder,
     RestoreOrder

(* Unless two appends or two flushes overlapped, the queue is in the order its   *)
(* messages were added in, however often an upload failed and its batch came     *)
(* back.                                                                         *)
THEOREM QueueInOrder == Spec => []OrderKept
<1>1. OrderInv => OrderKept
  BY DEF OrderInv, InOrder, Ordered, Before, OrderKept
<1>2. QED
  BY InitInv, InvNext, InitOrder, OrderNext, <1>1, PTL DEF Spec
-------------------------------------------------------------------------------
(* Reverse, index by index. *)
LEMMA Reversed ==
    ASSUME NEW s \in Seq(Message)
    PROVE  /\ Reverse(s) \in Seq(Message) /\ Len(Reverse(s)) = Len(s)
           /\ \A i \in 1..Len(s) : Reverse(s)[i] = s[Len(s) - i + 1]
  BY DEF Reverse

(* What is behind an index of a sequence is a suffix of it. *)
LEMMA CutIsSuffix ==
    ASSUME NEW s \in Seq(Message), NEW c \in 0..Len(s)
    PROVE  IsSuffix(SubSeq(s, c + 1, Len(s)), s)
<1> DEFINE u == SubSeq(s, c + 1, Len(s))
           n == Len(s) - c
<1>1. u \in Seq(Message) /\ Len(u) = n /\ n \in Nat /\ n <= Len(s)
      /\ \A i \in 1..n : u[i] = s[c + i]
  OBVIOUS
<1>2. /\ Reverse(s) \in Seq(Message) /\ Len(Reverse(s)) = Len(s)
      /\ \A i \in 1..Len(s) : Reverse(s)[i] = s[Len(s) - i + 1]
  BY Reversed
<1>3. /\ Reverse(u) \in Seq(Message) /\ Len(Reverse(u)) = n
      /\ \A i \in 1..n : Reverse(u)[i] = u[n - i + 1]
  <2> HIDE DEF u, n
  <2>1. u \in Seq(Message) /\ Len(u) = n
    BY <1>1
  <2>2. /\ Reverse(u) \in Seq(Message) /\ Len(Reverse(u)) = Len(u)
        /\ \A i \in 1..Len(u) : Reverse(u)[i] = u[Len(u) - i + 1]
    BY <2>1, Reversed
  <2>3. QED
    BY <2>1, <2>2
<1> HIDE DEF u
<1>4. \A i \in 1..n : Reverse(u)[i] = Reverse(s)[i]
  <2> TAKE i \in 1..n
  <2>1. n - i + 1 \in 1..n /\ c + (n - i + 1) = Len(s) - i + 1 /\ i \in 1..Len(s)
    BY <1>1
  <2>2. QED
    BY <1>1, <1>2, <1>3, <2>1
<1>5. SubSeq(Reverse(u), 1, n) = SubSeq(Reverse(s), 1, n)
  BY <1>1, <1>2, <1>3, <1>4
<1>6. QED
  BY <1>1, <1>2, <1>3, <1>5 DEF IsSuffix, IsPrefix, u

(* Behind the last stale message there is none, and it is stale itself. *)
LEMMA LastStaleIsLast ==
    ASSUME NEW q \in Seq(Message), NEW now \in Nat
    PROVE  LET c == LastStale(q, now)
           IN  /\ \A i \in 1..Len(q) : Stale(q[i], now) => i <= c
               /\ c # 0 => Stale(q[c], now)
<1> DEFINE I == {i \in 1..Len(q) : Stale(q[i], now)}
<1>1. LastStale(q, now) = IF I # {} THEN Max(I) ELSE 0
  BY DEF LastStale, SelectLastInSeq
<1>2. /\ Len(q) \in Nat /\ I \in SUBSET (1..Len(q))
      /\ \A i : i \in I <=> i \in 1..Len(q) /\ Stale(q[i], now)
  OBVIOUS
<1> HIDE DEF I
<1>3. I # {} => Max(I) \in I /\ \A i \in I : i <= Max(I)
  BY <1>2, MaxOfIndices
<1>4. QED
  BY <1>1, <1>2, <1>3

(* expire keeps no stale message and drops no other, unless goroutines overlapped. *)
LEMMA ExpireStep ==
    ASSUME Inv, OrderInv, Expire
    PROVE  /\ \A m \in ToSet(queue') : ~Stale(m, local[Ticker])
           /\ IsSuffix(queue', queue)
           /\ ~overlapped => \A m \in discarded' \ discarded : Stale(m, local[Ticker])
<1> USE QueueAssumption
<1> DEFINE now == local[Ticker]
           cut == LastStale(queue, now)
           front == SubSeq(queue, 1, cut)
<1>1. /\ queue' = SubSeq(queue, cut + 1, Len(queue))
      /\ discarded' \ discarded \subseteq ToSet(front)
  BY DEF Expire
<1>2. queue \in Seq(Message) /\ now \in Nat /\ Len(queue) \in Nat
  BY DEF Inv, TypeOK, Flushers
<1>3. /\ cut \in 0..Len(queue)
      /\ \A i \in 1..Len(queue) : Stale(queue[i], now) => i <= cut
      /\ cut # 0 => Stale(queue[cut], now)
  BY <1>2, LastStaleIndex, LastStaleIsLast
<1> HIDE DEF cut, now
<1>4. IsSuffix(queue', queue)
  BY <1>1, <1>2, <1>3, CutIsSuffix
<1>5. ASSUME NEW m \in ToSet(queue') PROVE ~Stale(m, now)
  <2>1. queue' \in Seq(Message) /\ Len(queue') = Len(queue) - cut
        /\ \A i \in 1..Len(queue') : queue'[i] = queue[cut + i]
    BY <1>1, <1>2, <1>3
  <2>2. PICK i \in 1..Len(queue') : queue'[i] = m
    BY <1>5, <2>1, ToSetMember
  <2>3. cut + i \in 1..Len(queue) /\ cut + i > cut /\ m = queue[cut + i]
    BY <1>2, <1>3, <2>1, <2>2
  <2>4. QED
    BY <1>2, <1>3, <2>3
<1>6. ASSUME ~overlapped, NEW m \in discarded' \ discarded PROVE Stale(m, now)
  <2>1. front \in Seq(Message) /\ Len(front) = cut
        /\ \A i \in 1..cut : front[i] = queue[i]
    BY <1>2, <1>3
  <2>2. m \in ToSet(front)
    BY <1>1, <1>6
  <2> HIDE DEF front
  <2>3. PICK i \in 1..cut : queue[i] = m
    BY <2>1, <2>2, ToSetMember
  <2>4. cut # 0 /\ i \in 1..Len(queue) /\ cut \in 1..Len(queue) /\ i <= cut
    BY <1>2, <1>3, <2>3
  <2>5. queue[i] \in Message /\ queue[cut] \in Message
    BY <1>2, <2>4
  <2>6. queue[i].addedAt \in Nat /\ queue[cut].addedAt \in Nat
    BY <2>5 DEF Message
  <2>7. queue[i].addedAt <= queue[cut].addedAt
    <3>1. Ordered(queue)
      BY <1>6 DEF OrderInv, InOrder
    <3>2. CASE i = cut
      BY <2>6, <3>2
    <3>3. CASE i < cut
      BY <2>4, <3>1, <3>3 DEF Ordered, Before
    <3>4. QED
      BY <1>2, <1>3, <2>4, <3>2, <3>3
  <2>8. queue[cut].addedAt < now - TTL /\ TTL \in Nat
    BY <1>3, <2>4 DEF Stale
  <2>9. QED
    BY <1>2, <2>3, <2>7, <2>6, <2>8 DEF Stale
<1>7. QED
  BY <1>4, <1>5, <1>6 DEF now

(* expire leaves nothing older than the ten minutes, keeps the order of the rest, *)
(* and drops no younger message unless appends or flushes overlapped.            *)
THEOREM ExpiryIsExact == Spec => ExpiresTheStale
<1>1. Inv /\ OrderInv /\ [Next]_vars =>
        [Expire =>
          /\ \A m \in ToSet(queue') : ~Stale(m, local[Ticker])
          /\ IsSuffix(queue', queue)
          /\ ~overlapped => \A m \in discarded' \ discarded : Stale(m, local[Ticker])]_vars
  BY ExpireStep
<1>2. QED
  BY InitInv, InvNext, InitOrder, OrderNext, <1>1, PTL DEF Spec, ExpiresTheStale
-------------------------------------------------------------------------------
(* As long as no two flushes raised the backoff at once, a flush that is about to *)
(* double it finds at most 20, whatever was reset meanwhile, and stores at most 40. *)
OneRaises == \A t, u \in Flushers : InRaise(t) /\ InRaise(u) => t = u
RaisesTo40 == \A t \in Flushers :
    /\ pc[t] = "double" => backoffSeconds \in {0, 10, 20}
    /\ pc[t] = "raise" => local[t] \in Backoffs
Calm == ~crowded => backoffSeconds \in Backoffs /\ OneRaises /\ RaisesTo40

(* A step that brings no flush to the backoff may at most reset it. *)
LEMMA CalmElsewhere ==
    ASSUME Calm, crowded' = crowded, backoffSeconds' \in {0, backoffSeconds},
           \A t \in Flushers : InRaise(t)' => pc'[t] = pc[t] /\ local'[t] = local[t]
    PROVE  Calm'
<1>1. \A t \in Flushers : InRaise(t)' => InRaise(t)
  BY DEF InRaise
<1>2. OneRaises => OneRaises'
  BY <1>1 DEF OneRaises
<1>3. RaisesTo40 => RaisesTo40'
  BY DEF RaisesTo40, InRaise
<1>4. backoffSeconds \in Backoffs => backoffSeconds' \in Backoffs
  BY DEF Backoffs
<1>5. QED
  BY <1>2, <1>3, <1>4 DEF Calm

LEMMA CalmRaise ==
    ASSUME Inv, Calm, NEW t \in Flushers, RaisesBackoff(t)
    PROVE  Calm'
<1> SUFFICES ASSUME ~crowded' PROVE backoffSeconds' \in Backoffs /\ OneRaises' /\ RaisesTo40'
  BY DEF Calm
<1>1. /\ pc \in [Threads -> PCs] /\ local \in [Flushers -> Nat] /\ backoffSeconds \in Nat
      /\ Flushers \subseteq Threads
  BY DEF Inv, TypeOK, Threads, Flushers, Producers
<1>2. ~crowded
  BY DEF RaisesBackoff, ReadBackoff, CheckBackoff, DoubleBackoff, RaiseBackoff
<1>3. /\ backoffSeconds \in {0, 10, 20, 40} /\ OneRaises
      /\ pc[t] = "double" => backoffSeconds \in {0, 10, 20}
      /\ pc[t] = "raise" => local[t] \in Backoffs
  BY <1>2 DEF Calm, RaisesTo40, Backoffs
<1>4. /\ \A u \in Flushers \ {t} : pc'[u] = pc[u] /\ local'[u] = local[u]
      /\ pc'[t] \in {"check", "double", "raise", "idle"}
  BY <1>1 DEF RaisesBackoff, ReadBackoff, CheckBackoff, DoubleBackoff, RaiseBackoff, Goto
<1>5. \A u \in Flushers \ {t} : ~InRaise(u)
  <2>1. CASE ReadBackoff(t)
    BY <2>1 DEF ReadBackoff
  <2>2. CASE pc[t] \in {"check", "double", "raise"}
    BY <1>3, <2>2 DEF OneRaises, InRaise
  <2>3. QED
    BY <2>1, <2>2 DEF RaisesBackoff, CheckBackoff, DoubleBackoff, RaiseBackoff
<1>6. OneRaises'
  BY <1>4, <1>5 DEF OneRaises, InRaise
<1>7. backoffSeconds' \in Backoffs
  BY <1>3 DEF RaisesBackoff, ReadBackoff, CheckBackoff, DoubleBackoff, RaiseBackoff, Backoffs
<1>8. /\ pc'[t] = "double" => backoffSeconds' \in {0, 10, 20}
      /\ pc'[t] = "raise" => local'[t] \in Backoffs
  <2>1. CASE ReadBackoff(t)
    BY <1>1, <2>1 DEF ReadBackoff, Goto, Backoffs
  <2>2. CASE CheckBackoff(t)
    BY <1>1, <1>3, <2>2 DEF CheckBackoff, Goto
  <2>3. CASE DoubleBackoff(t)
    BY <1>1, <1>3, <2>3 DEF DoubleBackoff, Goto, Backoffs
  <2>4. CASE RaiseBackoff(t)
    BY <1>1, <2>4 DEF RaiseBackoff, Goto
  <2>5. QED
    BY <2>1, <2>2, <2>3, <2>4 DEF RaisesBackoff
<1>9. RaisesTo40'
  BY <1>4, <1>5, <1>8 DEF RaisesTo40, InRaise
<1>10. QED
  BY <1>6, <1>7, <1>9

LEMMA CalmNext ==
    ASSUME Inv, Calm, [Next]_vars
    PROVE  Calm'
<1>1. pc \in [Threads -> PCs] /\ local \in [Flushers -> Nat] /\ Flushers \subseteq Threads
  BY DEF Inv, TypeOK, Threads, Flushers, Producers
<1>2. CASE Tick \/ BoundReached \/ UNCHANGED vars
  BY <1>2, CalmElsewhere DEF Tick, BoundReached, vars
<1>3. CASE TickerFires \/ ExpireReadsClock \/ Expire
  <2>1. /\ \A u \in Flushers \ {Ticker} : pc'[u] = pc[u] /\ local'[u] = local[u]
        /\ pc'[Ticker] \in {"expire", "idle", "scan", "flush"}
    BY <1>1, <1>3 DEF TickerFires, ExpireReadsClock, Expire, Goto, Threads
  <2>2. crowded' = crowded /\ backoffSeconds' = backoffSeconds
    BY <1>3 DEF TickerFires, ExpireReadsClock, Expire
  <2>3. QED
    BY <2>1, <2>2, CalmElsewhere DEF InRaise
<1>4. ASSUME NEW t \in Producers, Build(t) \/ AppendMessage(t) PROVE Calm'
  <2>1. /\ \A u \in Flushers \ {t} : pc'[u] = pc[u]
        /\ pc'[t] \in {"append", "flush", "idle"} /\ local' = local
    BY <1>1, <1>4 DEF Build, AppendMessage, Goto, Threads
  <2>2. crowded' = crowded /\ backoffSeconds' = backoffSeconds
    BY <1>4 DEF Build, AppendMessage
  <2>3. QED
    BY <2>1, <2>2, CalmElsewhere DEF InRaise
<1>5. ASSUME NEW t \in Flushers,
             TakeOutgoing(t) \/ PushReturns(t) \/ PushPanics(t) \/ PushFails(t) \/ Restore(t)
      PROVE  Calm'
  <2>1. /\ \A u \in Flushers \ {t} : pc'[u] = pc[u]
        /\ pc'[t] \in {"push", "idle", "dead", "restore", "backoff"} /\ local' = local
    BY <1>1, <1>5 DEF TakeOutgoing, PushReturns, PushPanics, PushFails, Restore, Goto, Threads
  <2>2. crowded' = crowded /\ backoffSeconds' \in {0, backoffSeconds}
    BY <1>5 DEF TakeOutgoing, PushReturns, PushPanics, PushFails, Restore
  <2>3. QED
    BY <2>1, <2>2, CalmElsewhere DEF InRaise
<1>6. QED
  BY <1>2, <1>3, <1>4, <1>5, CalmRaise DEF Next, Produce, Expiry, Flush, RaisesBackoff

(* However often uploads fail, the backoff stays within its minute unless two     *)
(* flushes raised it at once, for any number of goroutines that flush.            *)
THEOREM BackoffWithinAMinute == Spec => []BackoffBounded
<1>1. Init => Calm
  BY DEF Init, Calm, Backoffs, OneRaises, RaisesTo40, InRaise, Threads, Flushers, Producers
<1>2. Inv /\ Calm => BackoffBounded
  BY DEF Calm, BackoffBounded
<1>3. QED
  BY InitInv, InvNext, CalmNext, <1>1, <1>2, PTL DEF Spec
-------------------------------------------------------------------------------
(* The indices of the pushed messages of a batch: at most one. *)
PushedAt(batch) == {i \in DOMAIN batch : batch[i].by \in Pushers}
AtMostOne(batch) == \A i, j \in PushedAt(batch) : i = j

(* With one pusher whose uploads do not fail: its message is in the queue only  *)
(* between its append and the next flush, which is its own or the ticker's.     *)
Single ==
    /\ AtMostOne(queue)
    /\ PushedAt(queue) # {} => \A p \in Pushers : pc[p] = "flush"
    /\ \A t \in Flushers : AtMostOne(outgoing[t])
    /\ \A t \in Flushers : pc[t] # "restore"

LEMMA InitSingle == Init => Single
<1> SUFFICES ASSUME Init PROVE Single
  OBVIOUS
<1>1. queue = <<>> /\ \A t \in Flushers : outgoing[t] = <<>>
  BY DEF Init
<1>2. PushedAt(<<>>) = {}
  BY DEF PushedAt
<1>3. \A t \in Flushers : pc[t] = "idle"
  BY DEF Init, Threads, Flushers, Producers
<1>4. QED
  BY <1>1, <1>2, <1>3 DEF Single, AtMostOne

(* The pusher's message is the only one of its kind in the queue. *)
LEMMA AppendSingle ==
    ASSUME Inv, Single, NEW p, Pushers = {p}, NEW t \in Producers, AppendMessage(t)
    PROVE  Single'
<1> DEFINE m == pending[t]
<1>1. /\ m \in Message /\ m.by = t /\ queue \in Seq(Message) /\ pc \in [Threads -> PCs]
      /\ t \in Threads
  BY DEF Inv, TypeOK, Building, AppendMessage, Threads
<1>2. /\ queue' = Append(queue, m) /\ outgoing' = outgoing
      /\ pc' = [pc EXCEPT ![t] = IF t \in Pushers THEN "flush" ELSE "idle"]
  BY DEF AppendMessage, Goto
<1>3. /\ DOMAIN queue = 1..Len(queue) /\ DOMAIN queue' = 1..(Len(queue) + 1)
      /\ \A i \in 1..Len(queue) : queue'[i] = queue[i]
      /\ queue'[Len(queue) + 1] = m
  BY <1>1, <1>2
<1>4. CASE t \in Pushers
  <2>1. t = p /\ pc[p] = "append"
    BY <1>4 DEF AppendMessage
  <2>2. PushedAt(queue) = {}
    BY <2>1 DEF Single
  <2>3. PushedAt(queue') = {Len(queue) + 1}
    BY <1>1, <1>3, <1>4, <2>2 DEF PushedAt
  <2>4. \A u \in Pushers : pc'[u] = "flush"
    BY <1>1, <1>2, <1>4, <2>1
  <2>5. \A u \in Flushers : pc'[u] # "restore"
    BY <1>1, <1>2 DEF Single, Flushers, Threads, Producers
  <2>6. QED
    BY <1>2, <2>3, <2>4, <2>5 DEF Single, AtMostOne
<1>5. CASE t \notin Pushers
  <2>1. PushedAt(queue') = PushedAt(queue)
    BY <1>1, <1>3, <1>5 DEF PushedAt
  <2>2. \A u \in Pushers : pc'[u] = pc[u]
    BY <1>1, <1>2, <1>5 DEF Threads, Producers
  <2>3. \A u \in Flushers : pc'[u] # "restore"
    BY <1>1, <1>2 DEF Single, Flushers, Threads, Producers
  <2>4. QED
    BY <1>2, <2>1, <2>2, <2>3 DEF Single, AtMostOne
<1>6. QED
  BY <1>4, <1>5

(* Dropping a prefix of the queue shifts the indices that stay. *)
LEMMA CutPushed ==
    ASSUME NEW q \in Seq(Message), AtMostOne(q), NEW cut \in 0..Len(q)
    PROVE  LET r == SubSeq(q, cut + 1, Len(q))
           IN  AtMostOne(r) /\ (PushedAt(r) # {} => PushedAt(q) # {})
<1> DEFINE r == SubSeq(q, cut + 1, Len(q))
<1>1. /\ DOMAIN q = 1..Len(q) /\ DOMAIN r = 1..(Len(q) - cut) /\ Len(q) \in Nat
      /\ \A i \in 1..(Len(q) - cut) : r[i] = q[i + cut]
  OBVIOUS
<1> HIDE DEF r
<1>2. \A i \in PushedAt(r) : i \in Int /\ i + cut \in PushedAt(q)
  BY <1>1 DEF PushedAt
<1>3. QED
  BY <1>2 DEF AtMostOne, r

LEMMA ExpireSingle ==
    ASSUME Inv, Single, Expire
    PROVE  Single'
<1> DEFINE cut == LastStale(queue, local[Ticker])
<1>1. cut \in 0..Len(queue) /\ queue \in Seq(Message)
  BY LastStaleIndex DEF Inv, TypeOK, Flushers
<1>2. AtMostOne(queue') /\ (PushedAt(queue') # {} => PushedAt(queue) # {})
  BY <1>1, CutPushed DEF Expire, Single
<1>3. /\ outgoing' = outgoing /\ pc' = [pc EXCEPT ![Ticker] = "flush"]
      /\ pc \in [Threads -> PCs]
  BY DEF Expire, Goto, Inv, TypeOK
<1>4. \A p \in Pushers : pc'[p] = pc[p]
  BY <1>3, QueueAssumption DEF Threads, Producers
<1>5. \A u \in Flushers : pc'[u] # "restore"
  BY <1>3 DEF Single, Flushers, Threads, Producers
<1>6. QED
  BY <1>2, <1>3, <1>4, <1>5 DEF Single

LEMMA TakeSingle ==
    ASSUME Inv, Single, NEW t \in Flushers, TakeOutgoing(t)
    PROVE  Single'
<1>1. /\ queue' = <<>> /\ outgoing' = [outgoing EXCEPT ![t] = queue]
      /\ pc' = [pc EXCEPT ![t] = "push"]
      /\ pc \in [Threads -> PCs] /\ outgoing \in [Flushers -> Seq(Message)]
  BY DEF TakeOutgoing, Goto, Inv, TypeOK
<1>2. PushedAt(queue') = {}
  BY <1>1 DEF PushedAt
<1>3. \A u \in Flushers : AtMostOne(outgoing'[u])
  BY <1>1 DEF Single
<1>4. \A u \in Flushers : pc'[u] # "restore"
  BY <1>1 DEF Single, Flushers, Threads, Producers
<1>5. QED
  BY <1>2, <1>3, <1>4 DEF Single, AtMostOne

(* The batch that is handed over, whether push returns or panics, is gone. *)
LEMMA PushSingle ==
    ASSUME Inv, Single, NEW t \in Flushers, PushReturns(t) \/ PushPanics(t)
    PROVE  Single'
<1>1. /\ queue' = queue /\ outgoing' = [outgoing EXCEPT ![t] = <<>>]
      /\ pc[t] = "push" /\ \E l \in {"idle", "dead"} : pc' = [pc EXCEPT ![t] = l]
      /\ pc \in [Threads -> PCs] /\ outgoing \in [Flushers -> Seq(Message)]
  BY DEF PushReturns, PushPanics, HandedOver, Goto, Inv, TypeOK
<1>2. AtMostOne(<<>>)
  BY DEF AtMostOne, PushedAt
<1>3. \A u \in Flushers : AtMostOne(outgoing'[u])
  BY <1>1, <1>2 DEF Single
<1>4. \A u \in Flushers : pc'[u] # "restore"
  BY <1>1 DEF Single, Flushers, Threads, Producers
<1>5. PushedAt(queue') # {} => \A p \in Pushers : pc'[p] = "flush"
  <2> SUFFICES ASSUME PushedAt(queue) # {}, NEW p \in Pushers PROVE pc'[p] = "flush"
    BY <1>1
  <2>1. pc[p] = "flush" /\ p # t
    BY <1>1 DEF Single
  <2>2. QED
    BY <1>1, <2>1 DEF Threads, Producers
<1>6. QED
  BY <1>1, <1>3, <1>4, <1>5 DEF Single

(* The steps that neither move a message nor reach an upload's error branch. *)
LEMMA QuietSingle ==
    ASSUME Inv, Single,
           \/ Tick \/ TickerFires \/ ExpireReadsClock \/ BoundReached \/ UNCHANGED vars
           \/ \E t \in Producers : Build(t)
           \/ \E t \in Flushers : RaisesBackoff(t)
    PROVE  Single'
<1>1. UNCHANGED <<queue, outgoing>>
  BY DEF Tick, TickerFires, ExpireReadsClock, BoundReached, Build, RaisesBackoff, ReadBackoff,
         CheckBackoff, DoubleBackoff, RaiseBackoff, vars
<1>2. \/ pc' = pc
      \/ \E t \in Threads, l \in PCs \ {"restore"} : pc[t] # "flush" /\ pc' = [pc EXCEPT ![t] = l]
  BY DEF Tick, TickerFires, ExpireReadsClock, BoundReached, Build, RaisesBackoff, ReadBackoff,
         CheckBackoff, DoubleBackoff, RaiseBackoff, vars,
         Goto, PCs, Threads, Flushers, Producers
<1>3. pc \in [Threads -> PCs] /\ Pushers \subseteq Threads /\ Flushers \subseteq Threads
  BY DEF Inv, TypeOK, Threads, Flushers, Producers
<1>4. (\A p \in Pushers : pc[p] = "flush" => pc'[p] = "flush") /\ \A t \in Flushers : pc'[t] # "restore"
  BY <1>2, <1>3 DEF Single
<1>5. QED
  BY <1>1, <1>4 DEF Single

LEMMA SingleNext ==
    ASSUME Inv, Single, NEW p, Pushers = {p}, ~UploadMayFail, [Next]_vars
    PROVE  Single'
<1>1. ASSUME NEW t \in Flushers, Restore(t) PROVE FALSE
  BY <1>1 DEF Restore, Single
<1>2. ASSUME NEW t \in Flushers, PushFails(t) PROVE FALSE
  BY <1>2 DEF PushFails
<1>3. QED
  BY <1>1, <1>2, AppendSingle, ExpireSingle, TakeSingle, PushSingle, QuietSingle
     DEF Next, Produce, Expiry, Flush, RaisesBackoff

(* One goroutine pushes, push reports no error, and a message has as many labels *)
(* as the histogram: the payload of a flush is then empty or fits the histogram, *)
(* for any number of goroutines that add metrics and any schedule.               *)
THEOREM PayloadFits ==
    ASSUME NEW p, Pushers = {p}, ~UploadMayFail, HistoLabels = LabelStrings
    PROVE  Spec => []OnePushPerBatch
<1>1. Inv /\ Single => OnePushPerBatch
  <2> SUFFICES ASSUME Single, NEW t \in Flushers
               PROVE PayloadLen(outgoing[t]) \in {0, HistoLabels}
    BY DEF OnePushPerBatch
  <2>1. PayloadLen(outgoing[t]) = LabelStrings * Cardinality(PushedAt(outgoing[t]))
    BY DEF PayloadLen, PushedAt
  <2>2. PushedAt(outgoing[t]) = {} \/ \E i : PushedAt(outgoing[t]) = {i}
    BY DEF Single, AtMostOne
  <2>3. Cardinality(PushedAt(outgoing[t])) \in {0, 1}
    BY <2>2, FS_EmptySet, FS_Singleton
  <2>4. QED
    BY <2>1, <2>3, QueueAssumption
<1>2. Inv /\ Single /\ [Next]_vars => Single'
  BY SingleNext
<1>3. QED
  BY InitInv, InvNext, InitSingle, <1>1, <1>2, PTL DEF Spec
=============================================================================
