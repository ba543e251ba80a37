------------------------------ MODULE InputsProofs ------------------------------
(***************************************************************************)
(* What comes from outside, without a bound on it.                         *)
(*                                                                         *)
(* For any number of clients, proxies and hops, and any headers:           *)
(*                                                                         *)
(*   RefusedForOwnCorrect  a client is refused for its own requests        *)
(*   LimitHeldCorrect      and is served no more than the limit            *)
(*                                                                         *)
(* Both follow from one fact: the key a request is charged to is the one   *)
(* of its sender (KeyIsSender), because a trusted proxy wrote the header   *)
(* that ClientIP believes.                                                 *)
(*                                                                         *)
(* For paths and queries of any length and characters:                     *)
(*                                                                         *)
(*   TargetKeptCorrect     the login ends on the page asked for            *)
(*                                                                         *)
(* It follows from two facts: Get reads back what withNext has escaped     *)
(* into an address (NextRead), and the server reads in the target what it  *)
(* read in the address asked for (TargetRead).                             *)
(*                                                                         *)
(* For alphabets, codes and groups of any size, and any spelling:          *)
(*                                                                         *)
(*   ReadAsShownCorrect        a code is read as it was drawn              *)
(*   MistakeNotForgivenCorrect and not when it is typed with a mistake     *)
(*                                                                         *)
(* Both follow from what is read keeping its order when a character is     *)
(* added or removed (ReadOneMore), and from the dashes of a code standing  *)
(* between its symbols (FormatRead).                                       *)
(*                                                                         *)
(* For any languages, weights and headers:                                 *)
(*                                                                         *)
(*   TextInBestLanguageCorrect the texts are in the language asked for     *)
(*   LangNamesTextCorrect      and Lang() names it at full weight          *)
(*                                                                         *)
(* Both follow from the sorted list having the best entry first            *)
(* (ParsedSorted, MatchParsed).                                            *)
(*                                                                         *)
(* For any drivers and statements:                                         *)
(*                                                                         *)
(*   BoundInOrderCorrect       the k-th argument goes to the k-th place    *)
(*                                                                         *)
(* It follows by induction over what the loop of Rebind has read           *)
(* (ReboundNumbered).                                                      *)
(***************************************************************************)
EXTENDS Limiter, NextTarget, RecoveryFormat, Language, Placeholders, InductionLemmas,
        SequenceTheorems, FiniteSetTheorems, TLAPS


Packet == [client : Clients, account : Accounts \cup {Empty},
           peer : [host : Hosts, port : Ports],
           forwarded : Seq(Hosts \cup {Garbage}),
           real : Hosts \cup {Garbage, Empty}, hops : Nat]

\* The last hop of X-Forwarded-For that is no proxy is the client.
ClientIsLast(p) ==
    \E k \in DOMAIN p.forwarded :
        /\ p.forwarded[k] = p.client
        /\ \A j \in DOMAIN p.forwarded : j > k => p.forwarded[j] \in Proxies

\* A request comes from its client, or from a trusted proxy that left the client in
\* the header the deployment uses.
OnItsWay(p) ==
    \/ p.hops = 0 /\ p.peer.host = p.client
    \/ /\ p.hops > 0 /\ p.peer.host \in Proxies /\ trusted = Proxies
       /\ \/ custom = "X-Real-IP" /\ p.forwarded = <<>> /\ p.real = p.client
          \/ custom = "X-Forwarded-For" /\ ClientIsLast(p)

\* The inductive invariant: what is charged to a key was served to its sender.
ChargeInv ==
    /\ limit \in Limits \cup {Empty} /\ trusted \in {{}, Proxies} /\ custom \in Customs
    /\ limit = Empty => packet = Empty /\ refused = {} /\ served = [k \in Keys |-> 0]
    /\ packet # Empty => packet \in Packet /\ OnItsWay(packet)
    /\ served \in [Keys -> Nat] /\ charged = served
    /\ RefusedForOwn /\ LimitHeld

\* The last untrusted hop is found wherever the proxies put it.
LEMMA LastIsFound ==
  ASSUME NEW p \in Packet, trusted = Proxies, ClientIsLast(p)
  PROVE  RightmostUntrusted(p.forwarded) = p.client
  <1> DEFINE outside == {i \in DOMAIN p.forwarded : p.forwarded[i] \notin trusted}
  <1>1. p.client \in Clients /\ p.client \notin Proxies /\ p.forwarded \in Seq(Hosts \cup {Garbage})
    BY LimiterAssumption DEF Packet
  <1>2. PICK k \in DOMAIN p.forwarded :
          /\ p.forwarded[k] = p.client
          /\ \A j \in DOMAIN p.forwarded : j > k => p.forwarded[j] \in Proxies
    BY DEF ClientIsLast
  <1>3. k \in outside /\ (\A j \in outside : k >= j) /\ outside \subseteq Nat
    BY <1>1, <1>2
  <1>4. Max(outside) = k
    BY <1>3 DEF Max
  <1> QED
    BY <1>2, <1>3, <1>4 DEF RightmostUntrusted

LEMMA KeyIsSender ==
  ASSUME NEW p \in Packet, trusted \in {{}, Proxies}, OnItsWay(p)
  PROVE  Key(p) = Sender(p) /\ Sender(p) \in Keys
  <1>0. /\ p.client \in Clients /\ p.client \in Hosts /\ p.client \notin Proxies
        /\ p.client # Empty /\ p.account \in Accounts \cup {Empty}
    BY LimiterAssumption DEF Packet, Hosts
  <1>1. ClientIP(p) = p.client
    <2>1. CASE p.hops = 0 /\ p.peer.host = p.client
      BY <1>0, <2>1 DEF ClientIP, HostOnly, PeerTrusted
    <2>2. CASE p.peer.host \in Proxies /\ trusted = Proxies /\ ClientIsLast(p)
      BY <1>0, <2>2, LastIsFound DEF ClientIP, HostOnly, PeerTrusted, Resolved
    <2>3. CASE /\ p.peer.host \in Proxies /\ trusted = Proxies
               /\ p.forwarded = <<>> /\ p.real = p.client
      <3>1. RightmostUntrusted(p.forwarded) = Empty /\ Empty \notin Hosts
        BY <2>3, LimiterAssumption DEF RightmostUntrusted
      <3> QED
        BY <1>0, <2>3, <3>1 DEF ClientIP, HostOnly, PeerTrusted, Resolved
    <2> QED
      BY <2>1, <2>2, <2>3 DEF OnItsWay
  <1> QED
    BY <1>0, <1>1 DEF Key, Sender, Keys

\* A trusted proxy leaves the client where ClientIP finds it.
LEMMA ForwardCharges ==
  ASSUME ChargeInv, Forward
  PROVE  ChargeInv'
  <1>1. packet \in Packet /\ OnItsWay(packet) /\ trusted = Proxies
    BY DEF ChargeInv, Forward
  <1>2. PICK p \in trusted, port \in Ports :
          packet' = [packet EXCEPT
              !.peer = [host |-> p, port |-> port],
              !.hops = @ + 1,
              !.forwarded = IF custom = "X-Real-IP" THEN <<>>
                            ELSE Append(@, packet.peer.host),
              !.real = IF custom = "X-Real-IP" /\ packet.hops = 0
                       THEN packet.peer.host ELSE @]
    BY DEF Forward
  <1> DEFINE hops == packet.forwarded
  <1>3. /\ packet.client \in Clients /\ packet.hops \in Nat /\ packet.peer.host \in Hosts
        /\ hops \in Seq(Hosts \cup {Garbage}) /\ p \in Proxies /\ p \in Hosts
        /\ packet.real \in Hosts \cup {Garbage, Empty}
    BY <1>1 DEF Packet, Hosts
  <1>4. packet' \in Packet
    <2>1. Append(hops, packet.peer.host) \in Seq(Hosts \cup {Garbage})
      BY <1>3
    <2>2. <<>> \in Seq(Hosts \cup {Garbage}) /\ packet.hops + 1 \in Nat
          /\ [host |-> p, port |-> port] \in [host : Hosts, port : Ports]
      BY <1>3
    <2> HIDE DEF hops
    <2> QED
      BY <1>1, <1>2, <1>3, <2>1, <2>2 DEF Packet, hops
  <1>5. /\ packet'.client = packet.client /\ packet'.peer.host = p
        /\ packet'.hops = packet.hops + 1
    BY <1>1, <1>2 DEF Packet
  <1>6. CASE custom = "X-Real-IP"
    <2>1. packet'.forwarded = <<>> /\ packet'.real = packet.client
      BY <1>1, <1>2, <1>3, <1>6 DEF Packet, OnItsWay
    <2> QED
      BY <1>1, <1>3, <1>4, <1>5, <1>6, <2>1
      DEF ChargeInv, Forward, OnItsWay, RefusedForOwn, LimitHeld
  <1>7. CASE custom = "X-Forwarded-For"
    <2>1. packet'.forwarded = Append(hops, packet.peer.host)
      BY <1>1, <1>2, <1>7 DEF Packet
    <2>2. /\ DOMAIN packet'.forwarded = 1..(Len(hops) + 1) /\ DOMAIN hops = 1..Len(hops)
          /\ Len(hops) \in Nat
          /\ packet'.forwarded[Len(hops) + 1] = packet.peer.host
          /\ \A i \in 1..Len(hops) : packet'.forwarded[i] = hops[i]
      BY <1>3, <2>1
    <2>3. ClientIsLast(packet')
      <3>1. CASE packet.hops = 0 /\ packet.peer.host = packet.client
        BY <1>5, <2>2, <3>1 DEF ClientIsLast
      <3>2. CASE packet.peer.host \in Proxies /\ ClientIsLast(packet)
        <4>1. PICK k \in DOMAIN hops :
                /\ hops[k] = packet.client
                /\ \A j \in DOMAIN hops : j > k => hops[j] \in Proxies
          BY <3>2 DEF ClientIsLast
        <4>2. /\ k \in DOMAIN packet'.forwarded /\ packet'.forwarded[k] = packet'.client
              /\ \A j \in DOMAIN packet'.forwarded : j > k => packet'.forwarded[j] \in Proxies
          BY <1>5, <2>2, <3>2, <4>1
        <4> QED
          BY <4>2 DEF ClientIsLast
      <3> QED
        BY <1>1, <1>7, <3>1, <3>2 DEF OnItsWay
    <2> QED
      BY <1>1, <1>3, <1>4, <1>5, <1>7, <2>3
      DEF ChargeInv, Forward, OnItsWay, RefusedForOwn, LimitHeld
  <1> QED
    BY <1>6, <1>7 DEF ChargeInv, Customs

\* httprate counts a request under the key of its sender.
LEMMA ServeCharges ==
  ASSUME ChargeInv, Serve
  PROVE  ChargeInv'
  <1>1. /\ packet \in Packet /\ OnItsWay(packet) /\ limit # Empty
        /\ Key(packet) = Sender(packet) /\ Sender(packet) \in Keys /\ packet' = Empty
    BY KeyIsSender DEF ChargeInv, Serve
  <1>2. CASE UNCHANGED <<charged, served>>
    BY <1>1, <1>2 DEF ChargeInv, Serve, RefusedForOwn, LimitHeld
  <1>3. CASE /\ limit > 0 /\ charged[Key(packet)] < limit
             /\ charged' = [charged EXCEPT ![Key(packet)] = @ + 1]
             /\ served' = [served EXCEPT ![Sender(packet)] = @ + 1]
    <2>1. limit \in Nat /\ UNCHANGED <<limit, trusted, custom, refused>>
      BY <1>1, LimiterAssumption DEF ChargeInv, Serve
    <2>2. /\ charged' = served' /\ served' \in [Keys -> Nat]
          /\ \A s \in Keys : served'[s] = IF s = Sender(packet) THEN served[s] + 1 ELSE served[s]
          /\ served[Sender(packet)] < limit
      BY <1>1, <1>3 DEF ChargeInv
    <2>3. LimitHeld'
      BY <1>1, <2>1, <2>2 DEF ChargeInv, LimitHeld
    <2>4. RefusedForOwn'
      <3>1. Sender(packet) \notin refused
        BY <2>1, <2>2, <1>1 DEF ChargeInv, RefusedForOwn
      <3>2. \A s \in refused : served'[s] = served[s]
        BY <1>3, <3>1 DEF ChargeInv
      <3> QED
        BY <2>1, <3>2 DEF ChargeInv, RefusedForOwn
    <2> QED
      BY <1>1, <2>1, <2>2, <2>3, <2>4 DEF ChargeInv
  <1> QED
    BY <1>2, <1>3 DEF Serve

LEMMA RefuseCharges ==
  ASSUME ChargeInv, Refuse
  PROVE  ChargeInv'
  <1>1. /\ packet \in Packet /\ OnItsWay(packet) /\ limit # Empty
        /\ Key(packet) = Sender(packet) /\ packet' = Empty
    BY KeyIsSender DEF ChargeInv, Refuse
  <1> QED
    BY <1>1 DEF ChargeInv, Refuse, RefusedForOwn, LimitHeld

LEMMA ChargeKept ==
  ASSUME ChargeInv, [LimiterNext]_limiterVars
  PROVE  ChargeInv'
  <1>1. CASE New
    BY <1>1, LimiterAssumption DEF ChargeInv, New, RefusedForOwn, LimitHeld
  <1>2. CASE Send
    <2>1. PICK c \in Clients, port \in Ports, account \in Accounts \cup {Empty},
               real \in Hosts \cup {Garbage, Empty}, n \in 0..1 :
            \E forwarded \in [1..n -> Hosts \cup {Garbage}] :
               packet' = [client |-> c, account |-> account,
                          peer |-> [host |-> c, port |-> port],
                          forwarded |-> forwarded, real |-> real, hops |-> 0]
      BY <1>2 DEF Send
    <2>2. packet' \in Packet /\ packet'.hops = 0 /\ packet'.peer.host = packet'.client
      BY <2>1 DEF Packet, Hosts
    <2> QED
      BY <1>2, <2>2 DEF ChargeInv, Send, OnItsWay, RefusedForOwn, LimitHeld
  <1>3. CASE UNCHANGED limiterVars
    BY <1>3 DEF limiterVars, ChargeInv, OnItsWay, RefusedForOwn, LimitHeld
  <1> QED
    BY <1>1, <1>2, <1>3, ForwardCharges, ServeCharges, RefuseCharges DEF LimiterNext

LEMMA ChargeStarts == LimiterInit => ChargeInv
  BY DEF LimiterInit, ChargeInv, Customs, RefusedForOwn, LimitHeld

\* Whatever the others send, with whatever headers and through however many trusted
\* proxies, a client is refused for requests of its own (Limiter.ClientIP and the key
\* function of New).
THEOREM RefusedForOwnCorrect == LimiterSpec => []RefusedForOwn
  <1>1. ChargeInv => RefusedForOwn
    BY DEF ChargeInv
  <1> QED
    BY <1>1, ChargeStarts, ChargeKept, PTL DEF LimiterSpec

\* However a client varies its ports, its headers and its way through the proxies, it
\* is served at most requestLimit times in a window (Limiter.Middleware).
THEOREM LimitHeldCorrect == LimiterSpec => []LimitHeld
  <1>1. ChargeInv => LimitHeld
    BY DEF ChargeInv
  <1> QED
    BY <1>1, ChargeStarts, ChargeKept, PTL DEF LimiterSpec

--------------------------------------------------------------------------------
(* NextTarget: texts. *)

\* The smallest member of a set of numbers.
LEMMA MinIsFirst ==
  ASSUME NEW S, S \subseteq Nat, S # {}
  PROVE  Min(S) \in S /\ \A n \in S : Min(S) <= n
  <1>1. PICK k \in S : \A n \in S : k <= n
    BY Smallest
  <1> QED
    BY <1>1 DEF Min

\* Two texts joined by one character, and the places of a character in a text.
Join(s, x, t) == s \o <<x>> \o t
Places(x, w) == {i \in 1..Len(w) : w[i] = x}

\* What stands where in two joined texts.
LEMMA Joined ==
  ASSUME NEW x \in Char, NEW s \in Seq(Char), NEW t \in Seq(Char)
  PROVE  /\ Join(s, x, t) \in Seq(Char) /\ Len(s) \in Nat /\ Len(t) \in Nat
         /\ Len(Join(s, x, t)) = Len(s) + 1 + Len(t)
         /\ Join(s, x, t)[Len(s) + 1] = x
         /\ \A i \in 1..Len(s) : Join(s, x, t)[i] = s[i]
         /\ \A i \in 1..Len(t) : Join(s, x, t)[Len(s) + 1 + i] = t[i]
  <1>0. Len(s) \in Nat /\ Len(t) \in Nat
    BY LenProperties
  <1>1. <<x>> \in Seq(Char) /\ Len(<<x>>) = 1 /\ <<x>>[1] = x
    OBVIOUS
  <1> DEFINE v == s \o <<x>>
  <1>2. /\ v \in Seq(Char) /\ Len(v) = Len(s) + 1
        /\ \A i \in 1..(Len(s) + 1) : v[i] = IF i <= Len(s) THEN s[i] ELSE <<x>>[i - Len(s)]
    BY <1>1, ConcatProperties
  <1>3. v[Len(s) + 1] = x /\ \A i \in 1..Len(s) : v[i] = s[i]
    BY <1>0, <1>1, <1>2
  <1> HIDE DEF v
  <1>4. /\ v \o t \in Seq(Char) /\ Len(v \o t) = Len(v) + Len(t)
        /\ \A i \in 1..(Len(v) + Len(t)) : (v \o t)[i] = IF i <= Len(v) THEN v[i] ELSE t[i - Len(v)]
    BY <1>2, ConcatProperties
  <1>5. Join(s, x, t) = v \o t
    BY DEF v, Join
  <1> QED
    BY <1>0, <1>2, <1>3, <1>4, <1>5

\* The first place of a character in a text.
LEMMA FirstPlace ==
  ASSUME NEW x, NEW w \in Seq(Char), NEW k \in 1..Len(w), w[k] = x,
         \A i \in 1..Len(w) : i < k => w[i] # x
  PROVE  Places(x, w) # {} /\ Min(Places(x, w)) = k
  <1>0. PICK I : I = Places(x, w)
    OBVIOUS
  <1>1. I \subseteq Nat /\ k \in I /\ (\A i \in I : k <= i) /\ k \in Nat
    BY <1>0, LenProperties DEF Places
  <1>2. Min(I) \in I /\ \A i \in I : Min(I) <= i
    BY <1>1, MinIsFirst
  <1> QED
    BY <1>0, <1>1, <1>2

\* The first place of a character cuts a text in what comes before and what after.
LEMMA CutThere ==
  ASSUME NEW x \in Char, NEW s \in Seq(Char), NEW t \in Seq(Char), x \notin Range(s)
  PROVE  /\ Places(x, Join(s, x, t)) # {} /\ Min(Places(x, Join(s, x, t))) # 0
         /\ SubSeq(Join(s, x, t), 1, Min(Places(x, Join(s, x, t))) - 1) = s
         /\ SubSeq(Join(s, x, t), Min(Places(x, Join(s, x, t))) + 1, Len(Join(s, x, t))) = t
  <1>0. /\ Join(s, x, t) \in Seq(Char) /\ Len(s) \in Nat /\ Len(t) \in Nat
        /\ Len(Join(s, x, t)) = Len(s) + 1 + Len(t) /\ Join(s, x, t)[Len(s) + 1] = x
        /\ \A i \in 1..Len(s) : Join(s, x, t)[i] = s[i]
        /\ \A i \in 1..Len(t) : Join(s, x, t)[Len(s) + 1 + i] = t[i]
    BY Joined
  <1>1. PICK w \in Seq(Char) : w = Join(s, x, t)
    BY <1>0
  <1>2. PICK k \in Nat : k = Len(s) + 1
    BY <1>0
  <1>3. /\ Len(w) = k + Len(t) /\ w[k] = x /\ Len(s) \in Nat /\ Len(t) \in Nat
        /\ \A i \in 1..Len(s) : w[i] = s[i]
        /\ \A i \in 1..Len(t) : w[k + i] = t[i]
    BY <1>0, <1>1, <1>2
  <1>4. \A i \in 1..Len(s) : s[i] # x
    BY LenProperties DEF Range
  <1>5. k \in 1..Len(w) /\ k # 0 /\ k - 1 = Len(s)
    BY <1>2, <1>3
  <1>6. \A i \in 1..Len(w) : i < k => w[i] # x
    BY <1>2, <1>3, <1>4, <1>5
  <1>7. Places(x, w) # {} /\ Min(Places(x, w)) = k
    BY <1>3, <1>5, <1>6, FirstPlace
  <1>a. \A i \in 1..Len(w) : w[i] \in Char
    BY ElementOfSeq
  <1>8. SubSeq(w, 1, k - 1) = s
    <2>1. /\ SubSeq(w, 1, k - 1) \in Seq(Char) /\ Len(SubSeq(w, 1, k - 1)) = Len(s)
          /\ \A i \in 1..Len(s) : SubSeq(w, 1, k - 1)[i] = s[i]
      BY <1>3, <1>5, <1>a, SubSeqProperties
    <2> QED
      BY <2>1, SeqEqual
  <1>9. SubSeq(w, k + 1, Len(w)) = t
    <2>1. /\ SubSeq(w, k + 1, Len(w)) \in Seq(Char) /\ Len(SubSeq(w, k + 1, Len(w))) = Len(t)
          /\ \A i \in 1..Len(t) : SubSeq(w, k + 1, Len(w))[i] = t[i]
      BY <1>3, <1>5, <1>a, SubSeqProperties
    <2> QED
      BY <2>1, SeqEqual
  <1> QED
    BY <1>1, <1>5, <1>7, <1>8, <1>9

\* A text is cut at the first c of it.
LEMMA Cut ==
  ASSUME NEW c, Raw(c) \in Char, NEW s \in Seq(Char), NEW t \in Seq(Char), Raw(c) \notin Range(s)
  PROVE  Before(Join(s, Raw(c), t), c) = s /\ After(Join(s, Raw(c), t), c) = t
  <1>1. /\ Places(Raw(c), Join(s, Raw(c), t)) # {} /\ Min(Places(Raw(c), Join(s, Raw(c), t))) # 0
        /\ SubSeq(Join(s, Raw(c), t), 1, Min(Places(Raw(c), Join(s, Raw(c), t))) - 1) = s
        /\ SubSeq(Join(s, Raw(c), t), Min(Places(Raw(c), Join(s, Raw(c), t))) + 1,
                  Len(Join(s, Raw(c), t))) = t
    BY CutThere
  <1> QED
    BY <1>1 DEF Before, After, SelectInSeq, Places

\* A text without c is not cut.
LEMMA Uncut ==
  ASSUME NEW c, NEW s \in Seq(Char), Raw(c) \notin Range(s)
  PROVE  Before(s, c) = s /\ After(s, c) = <<>>
  <1>1. \A i \in 1..Len(s) : s[i] # Raw(c)
    BY LenProperties DEF Range
  <1> QED
    BY <1>1 DEF Before, After, SelectInSeq

\* A text is cut at its first c, if there is one.
LEMMA CutAtFirst ==
  ASSUME NEW x \in Char, NEW w \in Seq(Char), x \in Range(w)
  PROVE  \E s \in Seq(Char), t \in Seq(Char) :
            w = Join(s, x, t) /\ x \notin Range(s)
  <1>1. PICK I : I = {i \in 1..Len(w) : w[i] = x}
    OBVIOUS
  <1>2. I \subseteq Nat /\ I # {}
    <2>1. Len(w) \in Nat /\ DOMAIN w = 1..Len(w)
      BY LenProperties
    <2>2. PICK i \in DOMAIN w : w[i] = x
      BY DEF Range
    <2> QED
      BY <1>1, <2>1, <2>2
  <1>3. PICK k \in I : \A i \in I : k <= i
    BY <1>2, MinIsFirst
  <1>4. Len(w) \in Nat /\ k \in 1..Len(w) /\ w[k] = x
    BY <1>1, <1>3, LenProperties
  <1>5. \A i \in 1..(k - 1) : w[i] # x
    BY <1>1, <1>3, <1>4
  <1>a. PICK s, t : s = SubSeq(w, 1, k - 1) /\ t = SubSeq(w, k + 1, Len(w))
    OBVIOUS
  <1>6. /\ s \in Seq(Char) /\ Len(s) = k - 1 /\ \A i \in 1..(k - 1) : s[i] = w[i]
        /\ t \in Seq(Char) /\ Len(t) = Len(w) - k /\ \A i \in 1..(Len(w) - k) : t[i] = w[k + i]
    <2>1. \A i \in 1..Len(w) : w[i] \in Char
      BY ElementOfSeq
    <2> QED
      BY <1>a, <1>4, <2>1, SubSeqProperties
  <1>7. x \notin Range(s)
    <2>1. DOMAIN s = 1..(k - 1)
      BY <1>6, LenProperties
    <2> QED
      BY <1>5, <1>6, <2>1 DEF Range
  <1>b. PICK v : v = Join(s, x, t)
    OBVIOUS
  <1>8. /\ v \in Seq(Char) /\ Len(v) = Len(s) + 1 + Len(t) /\ v[Len(s) + 1] = x
        /\ \A i \in 1..Len(s) : v[i] = s[i]
        /\ \A i \in 1..Len(t) : v[Len(s) + 1 + i] = t[i]
    <2>1. /\ Join(s, x, t) \in Seq(Char) /\ Len(Join(s, x, t)) = Len(s) + 1 + Len(t)
          /\ Join(s, x, t)[Len(s) + 1] = x
          /\ \A i \in 1..Len(s) : Join(s, x, t)[i] = s[i]
          /\ \A i \in 1..Len(t) : Join(s, x, t)[Len(s) + 1 + i] = t[i]
      <3>1. s \in Seq(Char) /\ t \in Seq(Char)
        BY <1>6
      <3> QED
        BY <3>1, Joined
    <2> QED
      BY <1>b, <2>1
  <1>9. ASSUME NEW i \in 1..Len(w) PROVE v[i] = w[i]
    <2>1. CASE i < k
      BY <1>4, <1>6, <1>8, <2>1
    <2>2. CASE i = k
      <3>1. Len(s) + 1 = k
        BY <1>4, <1>6
      <3> QED
        BY <1>4, <1>8, <2>2, <3>1
    <2>3. CASE i > k
      <3>1. i - k \in 1..Len(t) /\ i - k \in 1..(Len(w) - k) /\ Len(s) + 1 + (i - k) = i
            /\ k + (i - k) = i
        BY <1>4, <1>6, <2>3
      <3>2. v[Len(s) + 1 + (i - k)] = t[i - k] /\ t[i - k] = w[k + (i - k)]
        BY <1>6, <1>8, <3>1
      <3> QED
        BY <3>1, <3>2
    <2> QED
      BY <1>4, <2>1, <2>2, <2>3
  <1>10. v = w
    <2>1. Len(v) = Len(w)
      BY <1>4, <1>6, <1>8
    <2> QED
      BY <1>8, <1>9, <2>1, SeqEqual
  <1> QED
    BY <1>6, <1>7, <1>10, <1>b

\* Characters are pairs, and the separators are characters.
LEMMA CharFacts ==
  /\ \A c \in Symbols, n \in Nat : <<c, n>> \in Char /\ <<c, n>>[1] = c /\ <<c, n>>[2] = n
  /\ \A e \in Char : e[1] \in Symbols /\ e[2] \in Nat /\ e = <<e[1], e[2]>>
  /\ \A c \in Symbols : Raw(c) \in Char
  /\ {"&", "?", "/", "=", "+", " ", "next", "login", "err"} \subseteq Symbols
  <1>1. ASSUME NEW c \in Symbols, NEW n \in Nat
        PROVE  <<c, n>> \in Char /\ <<c, n>>[1] = c /\ <<c, n>>[2] = n
    <2>1. <<c, n>> \in Char
      BY Zenon DEF Char
    <2> QED
      BY <2>1
  <1>2. \A e \in Char : e[1] \in Symbols /\ e[2] \in Nat /\ e = <<e[1], e[2]>>
    BY DEF Char
  <1>3. \A c \in Symbols : Raw(c) \in Char
    BY <1>1 DEF Raw
  <1>4. {"&", "?", "/", "=", "+", " ", "next", "login", "err"} \subseteq Symbols
    BY TargetAssumption
  <1> QED
    BY <1>1, <1>2, <1>3, <1>4

\* A character escaped is no separator, and unescaping gives it back.
LEMMA CharBack ==
  ASSUME NEW e \in Char
  PROVE  Escaped(e) \in Char /\ Escaped(e) # Raw("&") /\ Unescaped(Escaped(e)) = e
  <1> DEFINE c == e[1]
             n == e[2]
  <1>1. c \in Symbols /\ n \in Nat /\ e = <<c, n>>
    BY CharFacts
  <1>2. \A d : Raw(d)[1] = d /\ Raw(d)[2] = 0
    BY DEF Raw
  <1>3. CASE n = 0 /\ c \in Letters
    <2>1. Escaped(e) = e /\ Decoded(e) = e
      BY <1>3 DEF Escaped, Decoded
    <2>2. c # "+" /\ c # "&"
      BY <1>3, TargetAssumption
    <2>3. e # Raw("+") /\ e # Raw("&")
      BY <1>2, <2>2
    <2> QED
      BY <2>1, <2>3 DEF Unescaped
  <1>4. CASE e = Raw(" ")
    <2>1. c = " " /\ " " \notin Letters
      BY <1>2, <1>4, TargetAssumption
    <2>2. Escaped(e) = Raw("+")
      BY <1>4, <2>1 DEF Escaped
    <2>3. Raw("+") # Raw("&")
      <3>1. Raw("+")[1] = "+" /\ Raw("&")[1] = "&" /\ "+" # "&"
        BY <1>2
      <3> QED
        BY <3>1
    <2>4. Raw("+") \in Char
      BY CharFacts
    <2> QED
      BY <1>4, <2>2, <2>3, <2>4 DEF Unescaped
  <1>5. CASE e # Raw(" ") /\ ~(n = 0 /\ c \in Letters)
    <2>1. Escaped(e) = <<c, n + 1>>
      BY <1>5 DEF Escaped
    <2> HIDE DEF c, n
    <2>2. n + 1 \in Nat /\ n + 1 # 0 /\ n + 1 > 0 /\ (n + 1) - 1 = n
      BY <1>1
    <2>3. Escaped(e)[1] = c /\ Escaped(e)[2] = n + 1 /\ Escaped(e) \in Char
      <3>1. PICK m \in Nat : m = n + 1
        BY <2>2
      <3>2. <<c, m>> \in Char /\ <<c, m>>[1] = c /\ <<c, m>>[2] = m
        BY <1>1, CharFacts, Zenon
      <3> QED
        BY <2>1, <3>1, <3>2
    <2>4. Escaped(e) # Raw("+") /\ Escaped(e) # Raw("&")
      BY <1>2, <2>2, <2>3
    <2>5. Decoded(Escaped(e)) = e
      BY <1>1, <2>2, <2>3 DEF Decoded
    <2> QED
      BY <2>3, <2>4, <2>5 DEF Unescaped
  <1> QED
    BY <1>3, <1>4, <1>5

\* Escaping leaves no separator in a text and is undone by unescaping.
LEMMA EscapedOnce ==
  ASSUME NEW x \in Seq(Char)
  PROVE  /\ QueryEscape(x) \in Seq(Char) /\ Raw("&") \notin Range(QueryEscape(x))
         /\ QueryUnescape(QueryEscape(x)) = x
  <1>0. Len(x) \in Nat /\ DOMAIN x = 1..Len(x) /\ \A i \in 1..Len(x) : x[i] \in Char
    BY LenProperties, ElementOfSeq
  <1>1. PICK e : e = [i \in 1..Len(x) |-> Escaped(x[i])]
    OBVIOUS
  <1>2. DOMAIN e = 1..Len(x) /\ \A i \in 1..Len(x) : e[i] = Escaped(x[i])
    BY <1>1
  <1>3. \A i \in 1..Len(x) : e[i] \in Char /\ e[i] # Raw("&") /\ Unescaped(e[i]) = x[i]
    BY <1>0, <1>2, CharBack
  <1>4. e \in [1..Len(x) -> Char]
    BY <1>1, <1>2, <1>3
  <1>5. e \in Seq(Char) /\ Raw("&") \notin Range(e)
    BY <1>0, <1>2, <1>3, <1>4 DEF Range
  <1>6. QueryUnescape(e) = x
    <2>1. QueryUnescape(e) = [i \in 1..Len(x) |-> x[i]]
      BY <1>2, <1>3 DEF QueryUnescape
    <2>2. x = [i \in 1..Len(x) |-> x[i]]
      BY LenProperties
    <2> QED
      BY <2>1, <2>2
  <1>7. QueryEscape(x) = e
    BY <1>0, <1>1 DEF QueryEscape
  <1> QED
    BY <1>5, <1>6, <1>7

\* A parameter "next" starts at three characters.
LEMMA KeyAt ==
  ASSUME NEW w \in Seq(Char), NEW i \in 1..(Len(w) - 2)
  PROVE  i \in NextKeys(w) <=>
            w[i] = Raw("&") /\ w[i + 1] = Raw("next") /\ w[i + 2] = Raw("=")
  <1>0. /\ Len(w) \in Nat /\ \A j \in 1..Len(w) : w[j] \in Char
    BY LenProperties, ElementOfSeq
  <1>1. PICK v : v = SubSeq(w, i, i + 2)
    OBVIOUS
  <1>2. v \in Seq(Char) /\ Len(v) = 3 /\ v[1] = w[i] /\ v[2] = w[i + 1] /\ v[3] = w[i + 2]
    <2>1. i \in Int /\ i + 2 \in Int /\ \A j \in i..(i + 2) : w[j] \in Char
      BY <1>0
    <2>2. /\ v \in Seq(Char) /\ Len(v) = 3
          /\ \A j \in 1..3 : v[j] = w[i + j - 1]
      BY <1>1, <2>1, SubSeqProperties
    <2> QED
      BY <1>0, <2>2
  <1>3. v = <<Raw("&"), Raw("next"), Raw("=")>> <=>
           v[1] = Raw("&") /\ v[2] = Raw("next") /\ v[3] = Raw("=")
    BY <1>2
  <1> QED
    BY <1>1, <1>2, <1>3 DEF NextKeys

\* The parameter with its value.
LEMMA NextEqualsText ==
  ASSUME NEW t \in Seq(Char)
  PROVE  /\ NextEquals \o t \in Seq(Char) /\ Len(NextEquals \o t) = 2 + Len(t) /\ Len(t) \in Nat
         /\ (NextEquals \o t)[1] = Raw("next") /\ (NextEquals \o t)[2] = Raw("=")
         /\ \A i \in 1..Len(t) : (NextEquals \o t)[2 + i] = t[i]
  <1>0. Len(t) \in Nat
    BY LenProperties
  <1>1. Raw("next") \in Char /\ Raw("=") \in Char
    BY CharFacts
  <1>2. NextEquals \in Seq(Char) /\ Len(NextEquals) = 2
        /\ NextEquals[1] = Raw("next") /\ NextEquals[2] = Raw("=")
    BY <1>1 DEF NextEquals
  <1>3. /\ NextEquals \o t \in Seq(Char) /\ Len(NextEquals \o t) = Len(NextEquals) + Len(t)
        /\ \A i \in 1..(Len(NextEquals) + Len(t)) :
              (NextEquals \o t)[i] = IF i <= Len(NextEquals) THEN NextEquals[i]
                                     ELSE t[i - Len(NextEquals)]
    BY <1>2, ConcatProperties
  <1> QED
    BY <1>0, <1>2, <1>3

\* The separators of a query differ.
LEMMA SeparatorsDiffer ==
  Raw("&") # Raw("=") /\ Raw("&") # Raw("next") /\ Raw("&") # Raw("?")
  <1>1. \A d : Raw(d)[1] = d
    BY DEF Raw
  <1>2. "&" # "=" /\ "&" # "next" /\ "&" # "?"
    OBVIOUS
  <1> QED
    BY <1>1, <1>2

\* The parameter that withNext appends is the one that Get finds.
LEMMA KeyFound ==
  ASSUME NEW p \in Seq(Char), NEW t \in Seq(Char), NextKeys(p) = {}
  PROVE  /\ Join(p, Raw("&"), NextEquals \o t) \in Seq(Char)
         /\ NextKeys(Join(p, Raw("&"), NextEquals \o t)) # {}
         /\ SubSeq(Join(p, Raw("&"), NextEquals \o t),
                   Min(NextKeys(Join(p, Raw("&"), NextEquals \o t))) + 3,
                   Len(Join(p, Raw("&"), NextEquals \o t))) = t
  <1> DEFINE u == NextEquals \o t
  <1>1. /\ u \in Seq(Char) /\ Len(u) = 2 + Len(t) /\ Len(t) \in Nat
        /\ u[1] = Raw("next") /\ u[2] = Raw("=") /\ \A i \in 1..Len(t) : u[2 + i] = t[i]
    BY NextEqualsText
  <1> HIDE DEF u
  <1>2. Raw("&") \in Char
    BY CharFacts
  <1>3. /\ Join(p, Raw("&"), u) \in Seq(Char) /\ Len(p) \in Nat
        /\ Len(Join(p, Raw("&"), u)) = Len(p) + 1 + Len(u)
        /\ Join(p, Raw("&"), u)[Len(p) + 1] = Raw("&")
        /\ \A i \in 1..Len(p) : Join(p, Raw("&"), u)[i] = p[i]
        /\ \A i \in 1..Len(u) : Join(p, Raw("&"), u)[Len(p) + 1 + i] = u[i]
    <2>1. PICK x \in Char : x = Raw("&")
      BY <1>2
    <2>2. PICK v \in Seq(Char) : v = u
      BY <1>1
    <2>3. /\ Join(p, x, v) \in Seq(Char) /\ Len(p) \in Nat /\ Len(v) \in Nat
          /\ Len(Join(p, x, v)) = Len(p) + 1 + Len(v)
          /\ Join(p, x, v)[Len(p) + 1] = x
          /\ \A i \in 1..Len(p) : Join(p, x, v)[i] = p[i]
          /\ \A i \in 1..Len(v) : Join(p, x, v)[Len(p) + 1 + i] = v[i]
      BY Joined
    <2> QED
      BY <2>1, <2>2, <2>3
  <1>4. PICK w \in Seq(Char) : w = Join(p, Raw("&"), u)
    BY <1>3
  <1>5. PICK m \in Nat : m = Len(p)
    BY <1>3
  <1>6. /\ Len(w) = m + 3 + Len(t) /\ Len(w) \in Nat /\ w[m + 1] = Raw("&")
        /\ \A i \in 1..m : w[i] = p[i]
        /\ \A i \in 1..Len(u) : w[m + 1 + i] = u[i]
    BY <1>1, <1>3, <1>4, <1>5
  <1>7. w[m + 2] = Raw("next") /\ w[m + 3] = Raw("=")
    <2>1. 1 \in 1..Len(u) /\ 2 \in 1..Len(u)
      BY <1>1
    <2>2. w[m + 1 + 1] = u[1] /\ w[m + 1 + 2] = u[2]
      BY <1>6, <2>1
    <2>3. m + 1 + 1 = m + 2 /\ m + 1 + 2 = m + 3
      OBVIOUS
    <2> QED
      BY <1>1, <2>2, <2>3
  <1>8. ASSUME NEW i \in 1..Len(t) PROVE w[m + 3 + i] = t[i]
    <2>1. 2 + i \in 1..Len(u) /\ m + 1 + (2 + i) = m + 3 + i
      BY <1>1
    <2>2. w[m + 1 + (2 + i)] = u[2 + i] /\ u[2 + i] = t[i]
      BY <1>1, <1>6, <2>1
    <2> QED
      BY <2>1, <2>2
  <1>9. PICK K : K = NextKeys(w)
    OBVIOUS
  <1>10. K \subseteq Nat
    BY <1>6, <1>9 DEF NextKeys
  <1>11. m + 1 \in K
    <2>1. m + 1 \in 1..(Len(w) - 2) /\ (m + 1) + 1 = m + 2 /\ (m + 1) + 2 = m + 3
      BY <1>1, <1>6
    <2>2. m + 1 \in NextKeys(w) <=>
            w[m + 1] = Raw("&") /\ w[m + 1 + 1] = Raw("next") /\ w[m + 1 + 2] = Raw("=")
      BY <2>1, KeyAt
    <2> QED
      BY <1>6, <1>7, <1>9, <2>1, <2>2
  <1>12. ASSUME NEW i \in K PROVE m + 1 <= i
    <2> SUFFICES ASSUME i < m + 1 PROVE FALSE
      BY <1>10
    <2>1. i \in 1..(Len(w) - 2) /\ i \in Nat /\ i <= m
      BY <1>6, <1>9, <1>10 DEF NextKeys
    <2>2. w[i] = Raw("&") /\ w[i + 1] = Raw("next") /\ w[i + 2] = Raw("=")
      BY <1>9, <2>1, KeyAt
    <2>3. CASE i + 2 <= m
      <3>1. i \in 1..m /\ i + 1 \in 1..m /\ i + 2 \in 1..m /\ i \in 1..(Len(p) - 2)
        BY <1>5, <2>1, <2>3
      <3>2. p[i] = Raw("&") /\ p[i + 1] = Raw("next") /\ p[i + 2] = Raw("=")
        BY <1>6, <2>2, <3>1
      <3>3. i \in NextKeys(p)
        BY <3>1, <3>2, KeyAt
      <3> QED
        BY <3>3
    <2>4. CASE i + 2 = m + 1
      BY <1>6, <2>2, <2>4, SeparatorsDiffer
    <2>5. CASE i + 2 = m + 2
      <3>1. i + 1 = m + 1
        BY <2>1, <2>5
      <3> QED
        BY <1>6, <2>2, <3>1, SeparatorsDiffer
    <2> QED
      BY <2>1, <2>3, <2>4, <2>5
  <1>13. Min(K) = m + 1
    <2>1. Min(K) \in K /\ \A n \in K : Min(K) <= n
      BY <1>10, <1>11, MinIsFirst
    <2>2. PICK k \in Nat : k = Min(K)
      BY <1>10, <2>1
    <2>3. m + 1 <= k
      BY <1>12, <2>1, <2>2
    <2>4. k <= m + 1
      BY <1>11, <2>1, <2>2
    <2> QED
      BY <2>2, <2>3, <2>4
  <1>14. SubSeq(w, m + 1 + 3, Len(w)) = t
    <2>a. \A i \in 1..Len(w) : w[i] \in Char
      BY ElementOfSeq
    <2>b. \A i \in m + 4 .. Len(w) : w[i] \in Char
      BY <1>6, <2>a
    <2>1. PICK v : v = SubSeq(w, m + 4, Len(w))
      OBVIOUS
    <2>2. /\ v \in Seq(Char) /\ Len(v) = IF m + 4 <= Len(w) THEN Len(w) - (m + 4) + 1 ELSE 0
          /\ \A i \in 1 .. Len(w) - (m + 4) + 1 : v[i] = w[m + 4 + i - 1]
      BY <1>6, <2>b, <2>1, SubSeqProperties
    <2>3. Len(v) = Len(t)
      BY <1>1, <1>6, <2>2
    <2>4. ASSUME NEW i \in 1..Len(t) PROVE v[i] = t[i]
      <3>1. i \in 1 .. Len(w) - (m + 4) + 1 /\ m + 4 + i - 1 = m + 3 + i
        BY <1>1, <1>6
      <3> QED
        BY <1>8, <2>2, <3>1
    <2>5. v = t
      BY <2>2, <2>3, <2>4, SeqEqual
    <2>6. m + 1 + 3 = m + 4
      OBVIOUS
    <2> QED
      BY <2>1, <2>5, <2>6
  <1>15. K # {}
    BY <1>11
  <1> QED
    BY <1>3, <1>4, <1>9, <1>13, <1>14, <1>15 DEF u

\* Get reads the value of the parameter that follows p.
LEMMA KeyRead ==
  ASSUME NEW url, NEW p \in Seq(Char), NEW x \in Seq(Char), NextKeys(p) = {},
         <<Raw("&")>> \o RawQuery(url) = Join(p, Raw("&"), NextEquals \o QueryEscape(x))
  PROVE  GetNext(url) = x
  <1>1. PICK t \in Seq(Char) : t = QueryEscape(x)
    BY EscapedOnce
  <1>2. Raw("&") \notin Range(t) /\ QueryUnescape(t) = x
    BY <1>1, EscapedOnce
  <1>3. PICK w : w = <<Raw("&")>> \o RawQuery(url)
    OBVIOUS
  <1>4. w = Join(p, Raw("&"), NextEquals \o t)
    BY <1>1, <1>3
  <1>5. NextKeys(w) # {} /\ SubSeq(w, Min(NextKeys(w)) + 3, Len(w)) = t
    BY <1>4, KeyFound
  <1>6. Before(t, "&") = t
    BY <1>2, Uncut
  <1>7. GetNext(url) = IF NextKeys(w) = {} THEN <<>>
                       ELSE QueryUnescape(Before(SubSeq(w, Min(NextKeys(w)) + 3, Len(w)), "&"))
    BY <1>3 DEF GetNext
  <1> QED
    BY <1>2, <1>5, <1>6, <1>7

\* A query too short for the parameter.
LEMMA NoKey ==
  ASSUME NEW w \in Seq(Char), Len(w) <= 2
  PROVE  NextKeys(w) = {}
  <1>1. Len(w) \in Nat /\ 1..(Len(w) - 2) = {}
    BY LenProperties
  <1> QED
    BY <1>1 DEF NextKeys

\* Joining is associative.
LEMMA Rejoined ==
  \A a \in Seq(Char), b \in Seq(Char), c \in Seq(Char) : (a \o b) \o c = a \o (b \o c)
  BY ConcatAssociative

\* Texts of one character and of two.
LEMMA OneChar ==
  ASSUME NEW x \in Char
  PROVE  \E a \in Seq(Char) : a = <<x>>
  <1>1. <<x>> \in Seq(Char)
    OBVIOUS
  <1> QED
    BY <1>1

LEMMA TwoChars ==
  ASSUME NEW c \in Char, NEW d \in Char
  PROVE  <<c>> \o <<d>> = <<c, d>>
  <1>1. PICK a \in Seq(Char), b \in Seq(Char), e \in Seq(Char) :
           a = <<c>> /\ b = <<d>> /\ e = <<c, d>>
    <2>1. <<c>> \in Seq(Char) /\ <<d>> \in Seq(Char) /\ <<c, d>> \in Seq(Char)
      OBVIOUS
    <2> QED
      BY <2>1
  <1>2. Len(a) = 1 /\ Len(b) = 1 /\ a[1] = c /\ b[1] = d /\ Len(e) = 2 /\ e[1] = c /\ e[2] = d
    BY <1>1
  <1>3. /\ a \o b \in Seq(Char) /\ Len(a \o b) = Len(a) + Len(b)
        /\ \A i \in 1..(Len(a) + Len(b)) : (a \o b)[i] = IF i <= Len(a) THEN a[i] ELSE b[i - Len(a)]
    BY ConcatProperties
  <1>4. PICK w \in Seq(Char) : w = a \o b
    BY <1>3
  <1>5. Len(w) = 2 /\ w[1] = c /\ w[2] = d
    BY <1>2, <1>3, <1>4
  <1>6. w = e
    <2>1. \A i \in 1..Len(w) : w[i] = e[i]
      BY <1>2, <1>5
    <2> QED
      BY <1>2, <1>5, <2>1, SeqEqual
  <1> QED
    BY <1>1, <1>4, <1>6

\* The "&" before a query that starts with the parameter, and before one that ends with it.
LEMMA QueryJoined ==
  ASSUME NEW u \in Seq(Char), NEW q \in Seq(Char)
  PROVE  /\ <<>> \in Seq(Char) /\ NextKeys(<<>>) = {}
         /\ <<Raw("&")>> \o u = Join(<<>>, Raw("&"), u)
         /\ <<Raw("&")>> \o q \in Seq(Char)
         /\ <<Raw("&")>> \o Join(q, Raw("&"), u) = Join(<<Raw("&")>> \o q, Raw("&"), u)
  <1>1. PICK y \in Char : y = Raw("&")
    BY CharFacts
  <1>2. PICK a \in Seq(Char) : a = <<y>>
    BY OneChar
  <1>3. <<>> \in Seq(Char) /\ Len(<<>>) = 0
    OBVIOUS
  <1>4. NextKeys(<<>>) = {}
    <2>1. PICK w \in Seq(Char) : w = <<>>
      BY <1>3
    <2>2. Len(w) <= 2
      BY <1>3, <2>1
    <2> QED
      BY <2>1, <2>2, NoKey
  <1>5. <<>> \o a = a
    BY ConcatEmptySeq
  <1>6. a \o q \in Seq(Char)
    BY ConcatProperties
  <1>7. a \o ((q \o a) \o u) = (a \o (q \o a)) \o u
    <2>1. PICK qa \in Seq(Char) : qa = q \o a
      BY ConcatProperties
    <2> QED
      BY <2>1, Rejoined
  <1>8. a \o (q \o a) = (a \o q) \o a
    BY Rejoined
  <1> QED
    BY <1>1, <1>2, <1>3, <1>4, <1>5, <1>6, <1>7, <1>8 DEF Join

\* A text put before the first part, and one character after another.
LEMMA JoinJoin ==
  ASSUME NEW x \in Char, NEW y \in Char,
         NEW s \in Seq(Char), NEW t \in Seq(Char), NEW u \in Seq(Char)
  PROVE  Join(Join(s, x, t), y, u) = Join(s, x, Join(t, y, u))
  <1>1. PICK a \in Seq(Char) : a = <<x>>
    BY OneChar
  <1>2. PICK b \in Seq(Char) : b = <<y>>
    BY OneChar
  <1>3. PICK sa \in Seq(Char) : sa = s \o a
    BY ConcatProperties
  <1>4. PICK tb \in Seq(Char) : tb = t \o b
    BY ConcatProperties
  <1>5. (sa \o t) \o b = sa \o tb
    BY <1>4, Rejoined
  <1>6. (sa \o tb) \o u = sa \o (tb \o u)
    BY Rejoined
  <1> QED
    BY <1>1, <1>2, <1>3, <1>4, <1>5, <1>6 DEF Join

\* Get reads back what withNext has escaped into an address that has no "next".
LEMMA NextRead ==
  ASSUME NEW base \in Seq(Char), NEW x \in Seq(Char),
         NextKeys(<<Raw("&")>> \o RawQuery(base)) = {}
  PROVE  GetNext(base \o <<Raw(IF Raw("?") \in Range(base) THEN "&" ELSE "?")>>
                      \o NextEquals \o QueryEscape(x)) = x
  <1>1. PICK enc \in Seq(Char) : enc = QueryEscape(x)
    BY EscapedOnce
  <1>2. PICK u \in Seq(Char) : u = NextEquals \o enc
    BY NextEqualsText
  <1>3. NextEquals \in Seq(Char)
    <2>1. Raw("next") \in Char /\ Raw("=") \in Char
      BY CharFacts
    <2> QED
      BY <2>1 DEF NextEquals
  <1>4. PICK sep \in {"&", "?"} : sep = IF Raw("?") \in Range(base) THEN "&" ELSE "?"
    OBVIOUS
  <1>5. PICK y \in Char : y = Raw(sep)
    BY CharFacts
  <1>6. PICK url : url = base \o <<Raw(sep)>> \o NextEquals \o enc
    OBVIOUS
  <1>7. url = Join(base, y, u)
    <2>1. PICK b \in Seq(Char) : b = <<y>>
      BY OneChar
    <2>2. PICK v \in Seq(Char) : v = base \o b
      BY ConcatProperties
    <2>3. (v \o NextEquals) \o enc = v \o (NextEquals \o enc)
      BY <1>3, Rejoined
    <2> QED
      BY <1>2, <1>5, <1>6, <2>1, <2>2, <2>3 DEF Join
  <1>8. CASE Raw("?") \notin Range(base)
    <2>1. y = Raw("?")
      BY <1>4, <1>5, <1>8
    <2>2. After(Join(base, Raw("?"), u), "?") = u
      BY <1>5, <1>8, <2>1, Cut
    <2>3. RawQuery(url) = u
      BY <1>7, <2>1, <2>2 DEF RawQuery
    <2>4. /\ <<>> \in Seq(Char) /\ NextKeys(<<>>) = {}
          /\ <<Raw("&")>> \o RawQuery(url) = Join(<<>>, Raw("&"), NextEquals \o QueryEscape(x))
      BY <1>1, <1>2, <2>3, QueryJoined
    <2>5. GetNext(url) = x
      BY <2>4, KeyRead
    <2> QED
      BY <1>1, <1>4, <1>6, <2>5
  <1>9. CASE Raw("?") \in Range(base)
    <2>1. y = Raw("&") /\ Raw("?") \in Char /\ Raw("&") \in Char
      BY <1>4, <1>5, <1>9, CharFacts
    <2>2. PICK p \in Seq(Char), q \in Seq(Char) :
             base = Join(p, Raw("?"), q) /\ Raw("?") \notin Range(p)
      BY <1>9, <2>1, CutAtFirst
    <2>3. RawQuery(base) = q
      BY <2>1, <2>2, Cut DEF RawQuery
    <2>4. PICK v \in Seq(Char) : v = Join(q, Raw("&"), u)
      BY <2>1, Joined
    <2>5. url = Join(p, Raw("?"), v)
      BY <1>7, <2>1, <2>2, <2>4, JoinJoin
    <2>6. RawQuery(url) = v
      BY <2>1, <2>2, <2>5, Cut DEF RawQuery
    <2>7. PICK r \in Seq(Char) : r = <<Raw("&")>> \o q
      BY QueryJoined
    <2>8. <<Raw("&")>> \o RawQuery(url) = Join(r, Raw("&"), NextEquals \o QueryEscape(x))
      <3>1. <<Raw("&")>> \o Join(q, Raw("&"), u) = Join(<<Raw("&")>> \o q, Raw("&"), u)
        BY QueryJoined
      <3>2. u = NextEquals \o QueryEscape(x)
        BY <1>1, <1>2
      <3> QED
        BY <2>4, <2>6, <2>7, <3>1, <3>2
    <2>9. NextKeys(r) = {}
      BY <2>3, <2>7
    <2>10. GetNext(url) = x
      BY <2>8, <2>9, KeyRead
    <2> QED
      BY <1>1, <1>4, <1>6, <2>10
  <1> QED
    BY <1>8, <1>9

\* The addresses of the login have no "next" of their own.
LEMMA NoNext ==
  /\ Login \in Seq(Char) /\ LoginErr \in Seq(Char)
  /\ Raw("?") \notin Range(Login) /\ NextKeys(<<Raw("&")>> \o RawQuery(Login)) = {}
  /\ GetNext(Login) = <<>> /\ GetNext(Verify) = <<>>
  /\ NextKeys(<<Raw("&")>> \o RawQuery(LoginErr)) = {} /\ GetNext(LoginErr) = <<>>
  <1>1. PICK a \in Char, b \in Char, c \in Char, d \in Char, e \in Char :
           a = Raw("/") /\ b = Raw("login") /\ c = Raw("?") /\ d = Raw("err") /\ e = Raw("&")
    BY CharFacts
  <1>2. Login = <<a, b>> /\ Login \in Seq(Char) /\ Len(Login) = 2
    BY <1>1 DEF Login
  <1>3. a # c /\ b # c
    <2>1. \A x : Raw(x)[1] = x
      BY DEF Raw
    <2> QED
      BY <1>1, <2>1
  <1>4. c \notin Range(Login)
    <2>1. DOMAIN Login = {1, 2} /\ Login[1] = a /\ Login[2] = b
      BY <1>2
    <2> QED
      BY <1>3, <2>1 DEF Range
  <1>5. RawQuery(Login) = <<>>
    BY <1>1, <1>2, <1>4, Uncut DEF RawQuery
  <1>6. NextKeys(<<Raw("&")>> \o RawQuery(Login)) = {} /\ GetNext(Login) = <<>>
    <2>1. PICK w \in Seq(Char) : w = <<e>>
      BY OneChar
    <2>2. Len(w) = 1 /\ w \o <<>> = w
      BY <2>1, ConcatEmptySeq
    <2>3. NextKeys(w) = {}
      <3>1. Len(w) <= 2
        BY <2>2
      <3> QED
        BY <3>1, NoKey
    <2> QED
      BY <1>1, <1>5, <2>1, <2>2, <2>3 DEF GetNext
  <1>7. PICK u \in Seq(Char) : u = <<d>>
    BY OneChar
  <1>8. LoginErr = Join(Login, c, u) /\ LoginErr \in Seq(Char)
    <2>1. PICK v \in Seq(Char) : v = <<c>>
      BY OneChar
    <2>2. <<c, d>> = v \o u
      BY <1>7, <2>1, TwoChars
    <2>3. (Login \o v) \o u = Login \o (v \o u)
      BY <1>2, Rejoined
    <2>4. LoginErr = Join(Login, c, u)
      BY <1>1, <2>1, <2>2, <2>3 DEF LoginErr, Join
    <2> QED
      BY <1>2, <2>4, Joined
  <1>9. RawQuery(LoginErr) = u
    BY <1>1, <1>2, <1>4, <1>8, Cut DEF RawQuery
  <1>10. NextKeys(<<Raw("&")>> \o RawQuery(LoginErr)) = {}
    <2>1. PICK v \in Seq(Char) : v = <<e>>
      BY OneChar
    <2>2. PICK w \in Seq(Char) : w = v \o u /\ Len(w) = Len(v) + Len(u)
      BY ConcatProperties
    <2>3. Len(w) <= 2
      BY <1>7, <2>1, <2>2
    <2> QED
      BY <1>1, <1>9, <2>1, <2>2, <2>3, NoKey
  <1>11. GetNext(LoginErr) = <<>>
    BY <1>10 DEF GetNext
  <1>12. GetNext(Verify) = <<>>
    BY TargetAssumption DEF GetNext
  <1> QED
    BY <1>1, <1>2, <1>4, <1>6, <1>8, <1>10, <1>11, <1>12

\* What the path of an address holds once it has been decoded.
LEMMA PathText ==
  ASSUME NEW p \in Seq(Char)
  PROVE  PathUnescape(p) \in Seq(Char)
  <1>0. Len(p) \in Nat /\ DOMAIN p = 1..Len(p) /\ \A i \in 1..Len(p) : p[i] \in Char
    BY LenProperties, ElementOfSeq
  <1>1. ASSUME NEW e \in Char PROVE Decoded(e) \in Char
    <2>1. PICK c \in Symbols, n \in Nat : e = <<c, n>> /\ e[1] = c /\ e[2] = n
      BY CharFacts
    <2>2. CASE n = 0
      BY <2>1, <2>2 DEF Decoded
    <2>3. CASE n > 0
      <3>1. PICK m \in Nat : m = n - 1
        BY <2>1, <2>3
      <3>2. <<c, m>> \in Char
        BY CharFacts
      <3> QED
        BY <2>1, <2>3, <3>1, <3>2 DEF Decoded
    <2> QED
      BY <2>1, <2>2, <2>3
  <1>2. PathUnescape(p) \in [1..Len(p) -> Char]
    BY <1>0, <1>1 DEF PathUnescape
  <1> QED
    BY <1>0, <1>2

\* An address in its parts.
LEMMA Parts ==
  ASSUME NEW url \in Seq(Char)
  PROVE  /\ Path(url) \in Seq(Char) /\ RawQuery(url) \in Seq(Char)
         /\ CurrentTarget(url) \in Seq(Char)
         /\ RawQuery(url) = <<>> => CurrentTarget(url) = Path(url)
         /\ RawQuery(url) # <<>> => CurrentTarget(url) = Join(Path(url), Raw("?"), RawQuery(url))
  <1>0. Raw("?") \in Char
    BY CharFacts
  <1>1. \E p \in Seq(Char) : Path(url) = PathUnescape(p) /\ RawQuery(url) \in Seq(Char)
    <2>1. CASE Raw("?") \notin Range(url)
      <3>1. <<>> \in Seq(Char)
        OBVIOUS
      <3> QED
        BY <2>1, <3>1, Uncut DEF Path, RawQuery
    <2>2. CASE Raw("?") \in Range(url)
      <3>1. PICK p \in Seq(Char), q \in Seq(Char) :
               url = Join(p, Raw("?"), q) /\ Raw("?") \notin Range(p)
        BY <1>0, <2>2, CutAtFirst
      <3>2. Before(url, "?") = p /\ After(url, "?") = q
        BY <1>0, <3>1, Cut
      <3> QED
        BY <3>2 DEF Path, RawQuery
    <2> QED
      BY <2>1, <2>2
  <1>2. PICK p \in Seq(Char), q \in Seq(Char) : p = Path(url) /\ q = RawQuery(url)
    BY <1>1, PathText
  <1>3. p \o <<>> = p
    BY ConcatEmptySeq
  <1>4. p \o (<<Raw("?")>> \o q) = Join(p, Raw("?"), q)
    <2>1. PICK v \in Seq(Char) : v = <<Raw("?")>>
      BY <1>0, OneChar
    <2>2. (p \o v) \o q = p \o (v \o q)
      BY Rejoined
    <2> QED
      BY <2>1, <2>2 DEF Join
  <1>5. Join(p, Raw("?"), q) \in Seq(Char)
    <2>1. PICK x \in Char : x = Raw("?")
      BY <1>0
    <2>2. Join(p, x, q) \in Seq(Char)
      BY Joined
    <2> QED
      BY <2>1, <2>2
  <1> QED
    BY <1>2, <1>3, <1>4, <1>5 DEF CurrentTarget

\* The server reads in the kept target what it read in the address asked for.
LEMMA TargetRead ==
  ASSUME NEW url \in Seq(Char), Decodable(url)
  PROVE  /\ Path(CurrentTarget(url)) = Path(url)
         /\ RawQuery(CurrentTarget(url)) = RawQuery(url)
  <1>0. Raw("?") \in Char
    BY CharFacts
  <1>1. PICK p \in Seq(Char), q \in Seq(Char) : p = Path(url) /\ q = RawQuery(url)
    BY Parts
  <1>2. PathUnescape(p) = p /\ Raw("?") \notin Range(p)
    BY <1>1 DEF Decodable
  <1>3. PICK t : t = CurrentTarget(url)
    OBVIOUS
  <1>4. CASE q = <<>>
    <2>1. t = p
      BY <1>1, <1>3, <1>4, Parts
    <2>2. Before(t, "?") = p /\ After(t, "?") = <<>>
      BY <1>2, <2>1, Uncut
    <2> QED
      BY <1>1, <1>2, <1>3, <1>4, <2>2 DEF Path, RawQuery
  <1>5. CASE q # <<>>
    <2>1. t = Join(p, Raw("?"), q)
      BY <1>1, <1>3, <1>5, Parts
    <2>2. Before(t, "?") = p /\ After(t, "?") = q
      BY <1>0, <1>2, <2>1, Cut
    <2> QED
      BY <1>1, <1>2, <1>3, <2>2 DEF Path, RawQuery
  <1> QED
    BY <1>4, <1>5

--------------------------------------------------------------------------------
(* NextTarget: the target on its way. *)

\* The address asked for is a text.
LEMMA AskedText ==
  ASSUME NEW path \in Texts(PathChars, MaxPath), NEW query \in Texts(QueryChars, MaxQuery)
  PROVE  Home \o path \o (IF query = <<>> THEN <<>> ELSE <<Raw("?")>> \o query) \in Seq(Char)
  <1>1. ASSUME NEW chars, chars \subseteq Char, NEW n \in Nat, NEW t \in Texts(chars, n)
        PROVE  t \in Seq(Char)
    <2>1. PICK k \in 0..n : t \in [1..k -> chars]
      BY <1>1 DEF Texts
    <2>2. t \in [1..k -> Char] /\ k \in Nat
      BY <1>1, <2>1
    <2> QED
      BY <2>2
  <1>2. path \in Seq(Char) /\ query \in Seq(Char)
    BY <1>1, TargetAssumption
  <1>3. PICK h \in Seq(Char), m \in Seq(Char) : h = Home /\ m = <<Raw("?")>>
    <2>1. PICK a \in Char, b \in Char : a = Raw("/") /\ b = Raw("?")
      BY CharFacts
    <2> QED
      BY <2>1, OneChar DEF Home
  <1>4. PICK u \in Seq(Char) : u = h \o path
    BY <1>2, ConcatProperties
  <1>5. PICK v \in Seq(Char) : v = m \o query
    BY <1>2, ConcatProperties
  <1>6. <<>> \in Seq(Char)
    OBVIOUS
  <1>7. PICK w \in Seq(Char) : w = IF query = <<>> THEN <<>> ELSE <<Raw("?")>> \o query
    BY <1>3, <1>5, <1>6
  <1>8. u \o w \in Seq(Char)
    BY ConcatProperties
  <1> QED
    BY <1>3, <1>4, <1>7, <1>8

\* A parameter or a field carries the target t; it may be empty once the login was
\* started over (l), or for a target that no step would carry.
Carries(t, l, f) ==
  \/ f = t
  \/ f = <<>> /\ (l \/ t \in {Home, Login} \/ ~isLocalPath(t))

\* The inductive invariant: the address, then the field, carries the target.
TargetInv ==
  /\ place \in {"out", "login", "loginForm", "verify", "verifyForm", "landed"}
  /\ place # "out" => asked \in Seq(Char)
  /\ place \in {"login", "verify"} => Carries(CurrentTarget(asked), lost, GetNext(address))
  /\ place \in {"loginForm", "verifyForm"} => Carries(CurrentTarget(asked), lost, field)
  /\ TargetKept

\* Appended to an address without "next", what is carried is read there again.
LEMMA CarriedOn ==
  ASSUME NEW base \in Seq(Char), NEW t \in Seq(Char), NEW l, NEW f, Carries(t, l, f),
         NextKeys(<<Raw("&")>> \o RawQuery(base)) = {}
  PROVE  Carries(t, l, GetNext(withNext(base, f)))
  <1>1. f \in Seq(Char)
    <2>1. <<>> \in Seq(Char)
      OBVIOUS
    <2> QED
      BY <2>1 DEF Carries
  <1>2. CASE isLocalPath(f)
    <2>1. GetNext(withNext(base, f)) = f
      BY <1>1, <1>2, NextRead DEF withNext
    <2> QED
      BY <2>1
  <1>3. CASE ~isLocalPath(f)
    <2>1. withNext(base, f) = base
      BY <1>3 DEF withNext
    <2>2. GetNext(base) = <<>>
      BY DEF GetNext
    <2> QED
      BY <1>3, <2>1, <2>2 DEF Carries
  <1> QED
    BY <1>2, <1>3

\* Where the login ends, for what its field carries.
LEMMA CarriedHome ==
  ASSUME NEW a \in Seq(Char), NEW l, NEW f, Carries(CurrentTarget(a), l, f),
         NEW end, end = SafeRedirectPath(f, Home)
  PROVE  \/ l /\ end = Home
         \/ ~isLocalPath(CurrentTarget(a)) /\ end = Home
         \/ CurrentTarget(a) \in {Home, Login} /\ end = Home
         \/ ~Decodable(a)
         \/ Path(end) = Path(a) /\ RawQuery(end) = RawQuery(a)
  <1>1. CASE isLocalPath(f)
    <2>1. ~isLocalPath(<<>>)
      BY DEF isLocalPath
    <2>2. f = CurrentTarget(a) /\ end = f
      BY <1>1, <2>1 DEF Carries, SafeRedirectPath
    <2> QED
      BY <2>2, TargetRead
  <1>2. CASE ~isLocalPath(f)
    BY <1>2 DEF Carries, SafeRedirectPath
  <1> QED
    BY <1>1, <1>2

\* It holds at the start and every step preserves it.
LEMMA TargetInvInit == TargetInit => TargetInv
  BY DEF TargetInit, TargetInv, TargetKept

LEMMA TargetInvNext == TargetInv /\ [TargetNext]_targetVars => TargetInv'
  <1> SUFFICES ASSUME TargetInv, [TargetNext]_targetVars PROVE TargetInv'
    OBVIOUS
  <1>1. CASE RedirectToLogin
    <2>1. PICK url \in Seq(Char), next \in Seq(Char) :
            /\ next = CurrentTarget(url)
            /\ asked' = url /\ place' = "login" /\ lost' = lost
            /\ address' = Login \o (IF next \in {Home, Login} THEN <<>>
                                    ELSE <<Raw("?")>> \o NextEquals \o QueryEscape(next))
      BY <1>1, AskedText, Parts DEF RedirectToLogin
    <2>3. CASE next \in {Home, Login}
      <3>1. Login \o <<>> = Login
        BY NoNext, ConcatEmptySeq
      <3>2. GetNext(address') = <<>>
        BY <2>1, <2>3, <3>1, NoNext
      <3> QED
        BY <2>1, <2>3, <3>2 DEF TargetInv, TargetKept, Carries
    <2>4. CASE next \notin {Home, Login}
      <3>1. PICK e \in Seq(Char) : e = QueryEscape(next)
        BY EscapedOnce
      <3>2. PICK u \in Seq(Char), v \in Seq(Char), h \in Seq(Char) :
               u = NextEquals /\ v = <<Raw("?")>> /\ h = Login
        <4>1. Raw("next") \in Char /\ Raw("=") \in Char /\ Raw("?") \in Char
          BY CharFacts
        <4>2. NextEquals \in Seq(Char) /\ <<Raw("?")>> \in Seq(Char)
          BY <4>1 DEF NextEquals
        <4> QED
          BY <4>2, NoNext
      <3>3. h \o ((v \o u) \o e) = ((h \o v) \o u) \o e
        <4>1. PICK ue \in Seq(Char) : ue = u \o e
          BY ConcatProperties
        <4>2. PICK hv \in Seq(Char) : hv = h \o v
          BY ConcatProperties
        <4>3. (v \o u) \o e = v \o ue
          BY <4>1, Rejoined
        <4>4. (hv \o u) \o e = hv \o ue
          BY <4>1, Rejoined
        <4>5. (h \o v) \o ue = h \o (v \o ue)
          BY Rejoined
        <4> QED
          BY <4>2, <4>3, <4>4, <4>5
      <3>4. address' = Login \o <<Raw("?")>> \o NextEquals \o QueryEscape(next)
        BY <2>1, <2>4, <3>1, <3>2, <3>3
      <3>5. NextKeys(<<Raw("&")>> \o RawQuery(Login)) = {}
        BY NoNext
      <3>6. GetNext(address') = next
        BY <3>4, <3>5, NoNext, NextRead
      <3>7. Carries(next, lost', GetNext(address'))
        BY <3>6 DEF Carries
      <3> QED
        BY <2>1, <3>7 DEF TargetInv, TargetKept
    <2> QED
      BY <2>3, <2>4
  <1>2. CASE LoginGET
    BY <1>2 DEF LoginGET, TargetInv, TargetKept
  <1>3. CASE LoginPOST
    <2>1. /\ asked \in Seq(Char) /\ CurrentTarget(asked) \in Seq(Char)
          /\ Carries(CurrentTarget(asked), lost, field)
          /\ asked' = asked /\ lost' = lost /\ field' = field
      BY <1>3, Parts DEF LoginPOST, TargetInv
    <2>2. CASE UNCHANGED <<address, place>>
      BY <2>1, <2>2 DEF TargetInv, TargetKept
    <2>3. CASE address' = withNext(Verify, field) /\ place' = "verify"
      <3>1. Carries(CurrentTarget(asked), lost, GetNext(address'))
        BY <2>1, <2>3, CarriedOn, TargetAssumption
      <3> QED
        BY <2>1, <2>3, <3>1 DEF TargetInv, TargetKept
    <2>4. CASE address' = withNext(LoginErr, field) /\ place' = "login"
      <3>1. Carries(CurrentTarget(asked), lost, GetNext(address'))
        BY <2>1, <2>4, CarriedOn, NoNext
      <3> QED
        BY <2>1, <2>4, <3>1 DEF TargetInv, TargetKept
    <2>5. CASE address' = SafeRedirectPath(field, Home) /\ place' = "landed"
      <3>1. TargetKept'
        BY <2>1, <2>5, CarriedHome DEF TargetKept
      <3> QED
        BY <2>1, <2>5, <3>1 DEF TargetInv
    <2> QED
      BY <1>3, <2>2, <2>3, <2>4, <2>5 DEF LoginPOST
  <1>4. CASE VerifyGET
    BY <1>4, NoNext DEF VerifyGET, TargetInv, TargetKept, Carries
  <1>5. CASE VerifyPOST
    <2>1. /\ asked \in Seq(Char) /\ Carries(CurrentTarget(asked), lost, field)
          /\ asked' = asked /\ field' = field
      BY <1>5 DEF VerifyPOST, TargetInv
    <2>2. CASE UNCHANGED <<address, place, lost>>
      BY <2>1, <2>2 DEF TargetInv, TargetKept
    <2>3. CASE address' \in {Login, LoginErr} /\ place' = "login" /\ lost' = TRUE
      <3>1. GetNext(address') = <<>>
        BY <2>3, NoNext
      <3> QED
        BY <2>1, <2>3, <3>1 DEF TargetInv, TargetKept, Carries
    <2>4. CASE /\ address' = SafeRedirectPath(field, Home)
               /\ place' = "landed" /\ UNCHANGED lost
      <3>1. TargetKept'
        BY <2>1, <2>4, CarriedHome DEF TargetKept
      <3> QED
        BY <2>1, <2>4, <3>1 DEF TargetInv
    <2>5. CASE /\ Landing # <<>> /\ address' = Landing
               /\ place' = "landed" /\ UNCHANGED lost
      BY <2>1, <2>5 DEF TargetInv, TargetKept
    <2> QED
      BY <1>5, <2>2, <2>3, <2>4, <2>5 DEF VerifyPOST
  <1>6. CASE UNCHANGED targetVars
    BY <1>6 DEF targetVars, TargetInv, TargetKept
  <1> QED
    BY <1>1, <1>2, <1>3, <1>4, <1>5, <1>6 DEF TargetNext

\* Whoever asked for a page of the site ends on it with its query intact, whatever the
\* paths, the queries, the failures and the page of the second factor (RedirectToLogin,
\* withNext, LoginPOST, VerifyPOST).
THEOREM TargetKeptCorrect == TargetSpec => []TargetKept
  <1>1. TargetInv => TargetKept
    BY DEF TargetInv
  <1> QED
    BY <1>1, TargetInvInit, TargetInvNext, PTL DEF TargetSpec

--------------------------------------------------------------------------------
(* The members of a finite set in their order. *)

\* How many members of S come no later than i in the order R.
RankBy(R, S, i) == Cardinality({j \in S : <<j, i>> \in R})

\* R puts the members of S in a line.
Orders(R, S) ==
  /\ \A i \in S : <<i, i>> \in R
  /\ \A i, j \in S : <<i, j>> \in R \/ <<j, i>> \in R
  /\ \A i, j \in S : <<i, j>> \in R /\ <<j, i>> \in R => i = j
  /\ \A i, j, k \in S : <<i, j>> \in R /\ <<j, k>> \in R => <<i, k>> \in R

\* The members of a finite set are numbered from 1 up in their order, each number once.
LEMMA RanksBy ==
  ASSUME NEW S, IsFiniteSet(S), NEW R, Orders(R, S)
  PROVE  /\ Cardinality(S) \in Nat
         /\ \A i \in S : RankBy(R, S, i) \in 1..Cardinality(S)
         /\ \A i, j \in S : RankBy(R, S, i) <= RankBy(R, S, j) <=> <<i, j>> \in R
         /\ \A k \in 1..Cardinality(S) : \E i \in S : RankBy(R, S, i) = k
  <1>0. PICK n \in Nat : n = Cardinality(S)
    BY FS_CardinalityType
  <1> DEFINE upTo(i) == {j \in S : <<j, i>> \in R}
  <1>1. ASSUME NEW i \in S
        PROVE  /\ IsFiniteSet(upTo(i)) /\ i \in upTo(i)
               /\ Cardinality(upTo(i)) \in 1..n
    <2>1. IsFiniteSet(upTo(i)) /\ Cardinality(upTo(i)) <= n
      BY <1>0, FS_Subset
    <2>2. Cardinality(upTo(i)) \in Nat
      BY <2>1, FS_CardinalityType
    <2>3. i \in upTo(i)
      BY DEF Orders
    <2>4. Cardinality(upTo(i)) # 0
      BY <2>1, <2>3, FS_EmptySet
    <2> QED
      BY <2>1, <2>2, <2>3, <2>4
  <1>2. ASSUME NEW i \in S, NEW j \in S, <<i, j>> \in R, i # j
        PROVE  Cardinality(upTo(i)) < Cardinality(upTo(j))
    <2>1. upTo(i) \subseteq upTo(j) /\ j \notin upTo(i)
      BY <1>2 DEF Orders
    <2>2. PICK A, B : A = upTo(i) /\ B = upTo(j)
      OBVIOUS
    <2>3. A \in SUBSET B /\ A # B /\ IsFiniteSet(B)
      <3>1. j \in upTo(j) /\ IsFiniteSet(upTo(j))
        BY <1>1
      <3> QED
        BY <2>1, <2>2, <3>1
    <2>4. Cardinality(A) <= Cardinality(B) /\ Cardinality(A) # Cardinality(B)
      BY <2>3, FS_Subset
    <2>5. Cardinality(A) \in Nat /\ Cardinality(B) \in Nat
      <3>1. Cardinality(upTo(i)) \in 1..n /\ Cardinality(upTo(j)) \in 1..n
        BY <1>1
      <3> QED
        BY <2>2, <3>1
    <2> QED
      BY <2>2, <2>4, <2>5
  <1>3. PICK f : f = [i \in S |-> Cardinality(upTo(i))]
    OBVIOUS
  <1> HIDE DEF upTo
  <1>4. f \in [S -> 1..n] /\ \A i, j \in S : f[i] <= f[j] <=> <<i, j>> \in R
    <2>1. f \in [S -> 1..n]
      BY <1>1, <1>3
    <2>2. ASSUME NEW i \in S, NEW j \in S PROVE f[i] <= f[j] <=> <<i, j>> \in R
      <3>1. f[i] = Cardinality(upTo(i)) /\ f[j] = Cardinality(upTo(j)) /\ f[i] \in Nat /\ f[j] \in Nat
        BY <1>3, <2>1
      <3>2. CASE i = j
        BY <3>1, <3>2 DEF Orders
      <3>3. CASE i # j /\ <<i, j>> \in R
        BY <1>2, <3>1, <3>3
      <3>4. CASE i # j /\ <<i, j>> \notin R
        <4>1. <<j, i>> \in R
          BY <3>4 DEF Orders
        <4>2. f[j] < f[i]
          BY <1>2, <3>1, <3>4, <4>1
        <4> QED
          BY <3>1, <3>4, <4>2
      <3> QED
        BY <3>2, <3>3, <3>4
    <2> QED
      BY <2>1, <2>2
  <1>5. f \in Injection(S, 1..n)
    <2> SUFFICES ASSUME NEW i \in S, NEW j \in S, f[i] = f[j] PROVE i = j
      BY <1>4 DEF Injection, IsInjective
    <2>1. f[i] \in Nat /\ f[j] \in Nat
      BY <1>4
    <2>2. <<i, j>> \in R /\ <<j, i>> \in R
      BY <1>4, <2>1
    <2> QED
      BY <2>2 DEF Orders
  <1>6. IsFiniteSet(1..n) /\ Cardinality(1..n) = n
    BY FS_Interval
  <1>7. f \in Surjection(S, 1..n)
    BY <1>0, <1>5, <1>6, FS_Injection
  <1>8. \A k \in 1..n : \E i \in S : f[i] = k
    BY <1>7 DEF Surjection
  <1>9. \A i \in S : f[i] = RankBy(R, S, i)
    BY <1>3 DEF upTo, RankBy
  <1> QED
    BY <1>0, <1>4, <1>8, <1>9

\* How many places of S are not behind i.
Rank(S, i) == Cardinality({j \in S : j <= i})

\* The places of a finite set are numbered from 1 up, each number once.
LEMMA Ranks ==
  ASSUME NEW S, S \subseteq Nat, IsFiniteSet(S)
  PROVE  /\ Cardinality(S) \in Nat
         /\ \A i \in S : Rank(S, i) \in 1..Cardinality(S)
         /\ \A i, j \in S : Rank(S, i) = Rank(S, j) => i = j
         /\ \A k \in 1..Cardinality(S) : \E i \in S : Rank(S, i) = k
  <1>1. PICK R : R = {p \in S \X S : p[1] <= p[2]}
    OBVIOUS
  <1>2. \A i, j \in S : <<i, j>> \in R <=> i <= j
    BY <1>1
  <1>3. Orders(R, S)
    BY <1>2 DEF Orders
  <1>4. \A i \in S : Rank(S, i) = RankBy(R, S, i)
    BY <1>2 DEF Rank, RankBy
  <1>5. ASSUME NEW i \in S, NEW j \in S, Rank(S, i) = Rank(S, j) PROVE i = j
    <2>1. Rank(S, i) \in Nat /\ RankBy(R, S, i) = Rank(S, i) /\ RankBy(R, S, j) = Rank(S, i)
      <3>1. RankBy(R, S, i) \in 1..Cardinality(S)
        BY <1>3, RanksBy
      <3> QED
        BY <1>4, <1>5, <3>1, FS_CardinalityType
    <2>2. <<i, j>> \in R /\ <<j, i>> \in R
      BY <1>3, <2>1, RanksBy
    <2>3. i \in Nat /\ j \in Nat
      OBVIOUS
    <2> QED
      BY <1>2, <2>2, <2>3
  <1>6. Cardinality(S) \in Nat
        /\ (\A i \in S : RankBy(R, S, i) \in 1..Cardinality(S))
        /\ (\A k \in 1..Cardinality(S) : \E i \in S : RankBy(R, S, i) = k)
    BY <1>3, RanksBy
  <1> QED
    BY <1>4, <1>5, <1>6

\* InOrder lists every place of S once, each at its rank.
LEMMA Ordered ==
  ASSUME NEW S, S \subseteq Nat, IsFiniteSet(S)
  PROVE  /\ DOMAIN InOrder(S) = 1..Cardinality(S) /\ Cardinality(S) \in Nat
         /\ \A k \in 1..Cardinality(S) :
               InOrder(S)[k] \in S /\ Rank(S, InOrder(S)[k]) = k
         /\ \A i \in S : Rank(S, i) \in 1..Cardinality(S) /\ InOrder(S)[Rank(S, i)] = i
  <1>1. DOMAIN InOrder(S) = 1..Cardinality(S)
    BY DEF InOrder
  <1>2. ASSUME NEW k \in 1..Cardinality(S)
        PROVE  InOrder(S)[k] \in S /\ Rank(S, InOrder(S)[k]) = k
    <2>1. \E i \in S : Cardinality({j \in S : j <= i}) = k
      BY Ranks DEF Rank
    <2>2. InOrder(S)[k] = CHOOSE i \in S : Cardinality({j \in S : j <= i}) = k
      BY DEF InOrder
    <2> QED
      BY <2>1, <2>2 DEF Rank
  <1>3. ASSUME NEW i \in S
        PROVE  Rank(S, i) \in 1..Cardinality(S) /\ InOrder(S)[Rank(S, i)] = i
    <2>1. PICK k \in 1..Cardinality(S) : k = Rank(S, i)
      BY Ranks
    <2>2. InOrder(S)[k] \in S /\ Rank(S, InOrder(S)[k]) = Rank(S, i)
      BY <1>2, <2>1
    <2>3. InOrder(S)[k] = i
      BY <2>2, Ranks
    <2> QED
      BY <2>1, <2>3
  <1> QED
    BY <1>1, <1>2, <1>3, FS_CardinalityType

\* f moves the places of S to those of T and keeps their order.
Moves(f, S, T) ==
  /\ f \in [S -> T]
  /\ \A j \in T : \E i \in S : f[i] = j
  /\ \A i, j \in S : i <= j <=> f[i] <= f[j]

\* The k-th place of S is moved to the k-th of T.
Follows(f, S, T) == \A k \in 1..Cardinality(S) : InOrder(T)[k] = f[InOrder(S)[k]]

\* Moved without a change of their order, the places keep their ranks.
LEMMA Moved ==
  ASSUME NEW S, S \subseteq Nat, IsFiniteSet(S), NEW T, T \subseteq Nat,
         NEW f, Moves(f, S, T)
  PROVE  /\ IsFiniteSet(T) /\ Cardinality(T) = Cardinality(S)
         /\ \A i \in S : Rank(T, f[i]) = Rank(S, i)
         /\ Follows(f, S, T)
  <1>0. /\ f \in [S -> T] /\ \A j \in T : \E i \in S : f[i] = j
        /\ \A i, j \in S : i <= j <=> f[i] <= f[j]
    BY DEF Moves
  <1>1. \A i, j \in S : f[i] = f[j] => i = j
    <2> SUFFICES ASSUME NEW i \in S, NEW j \in S, f[i] = f[j] PROVE i = j
      OBVIOUS
    <2>1. i \in Nat /\ j \in Nat /\ f[i] \in Nat /\ f[j] \in Nat
      BY <1>0
    <2>2. i <= j /\ j <= i
      BY <1>0, <2>1
    <2> QED
      BY <2>1, <2>2
  <1>2. ASSUME NEW A, A \subseteq S, NEW B, B \subseteq T, \A i \in S : i \in A <=> f[i] \in B
        PROVE  IsFiniteSet(B) /\ Cardinality(B) = Cardinality(A)
    <2>1. PICK g : g = [i \in A |-> f[i]]
      OBVIOUS
    <2>2. g \in [A -> B] /\ (\A i, j \in A : g[i] = g[j] => i = j)
          /\ \A j \in B : \E i \in A : g[i] = j
      BY <1>0, <1>1, <1>2, <2>1
    <2>3. g \in Bijection(A, B)
      BY <2>2 DEF Bijection, Injection, Surjection, IsInjective
    <2>4. IsFiniteSet(A)
      BY <1>2, FS_Subset
    <2> QED
      BY <2>3, <2>4, FS_Bijection DEF ExistsBijection
  <1>3. IsFiniteSet(T) /\ Cardinality(T) = Cardinality(S)
    BY <1>0, <1>2
  <1>4. ASSUME NEW i \in S PROVE Rank(T, f[i]) = Rank(S, i)
    <2>1. PICK A, B : A = {j \in S : j <= i} /\ B = {j \in T : j <= f[i]}
      OBVIOUS
    <2>2. A \subseteq S /\ B \subseteq T /\ \A j \in S : j \in A <=> f[j] \in B
      BY <1>0, <2>1
    <2>3. Cardinality(B) = Cardinality(A)
      BY <1>2, <2>2
    <2> QED
      BY <2>1, <2>3 DEF Rank
  <1>5. ASSUME NEW k \in 1..Cardinality(S) PROVE InOrder(T)[k] = f[InOrder(S)[k]]
    <2>1. PICK i \in S : i = InOrder(S)[k] /\ Rank(S, i) = k
      BY Ordered
    <2>2. f[i] \in T /\ Rank(T, f[i]) = k
      BY <1>0, <1>4, <2>1
    <2>3. InOrder(T)[Rank(T, f[i])] = f[i]
      BY <1>3, <2>2, Ordered
    <2> QED
      BY <2>1, <2>2, <2>3
  <1> QED
    BY <1>3, <1>4, <1>5 DEF Follows

--------------------------------------------------------------------------------
(* RecoveryFormat: lemmas about Read and Format. *)

\* The places of a text that are read.
ReadPlaces(t) == {i \in DOMAIN t : ~IsSeparator(t[i])}

\* The k-th character read is the one at the k-th place that is no separator.
LEMMA ReadOf ==
  ASSUME NEW t \in Seq(Chars)
  PROVE  /\ ReadPlaces(t) \subseteq 1..Len(t) /\ ReadPlaces(t) \subseteq Nat /\ IsFiniteSet(ReadPlaces(t))
         /\ DOMAIN Read(t) = 1..Cardinality(ReadPlaces(t)) /\ Cardinality(ReadPlaces(t)) \in Nat
         /\ \A k \in 1..Cardinality(ReadPlaces(t)) :
               Read(t)[k] = Letter(t[InOrder(ReadPlaces(t))[k]])
  <1>1. Len(t) \in Nat /\ DOMAIN t = 1..Len(t)
    BY LenProperties
  <1>2. PICK S : S = ReadPlaces(t)
    OBVIOUS
  <1>3. S \subseteq 1..Len(t) /\ S \subseteq Nat
    BY <1>1, <1>2 DEF ReadPlaces
  <1>4. IsFiniteSet(S)
    <2>1. IsFiniteSet(1..Len(t))
      BY <1>1, FS_Interval
    <2>2. S \in SUBSET (1..Len(t))
      BY <1>3
    <2> QED
      BY <2>1, <2>2, FS_Subset
  <1>5. Read(t) = [k \in DOMAIN InOrder(S) |-> Letter(t[InOrder(S)[k]])]
    BY <1>2 DEF Read, ReadPlaces
  <1>6. DOMAIN InOrder(S) = 1..Cardinality(S) /\ Cardinality(S) \in Nat
    BY <1>3, <1>4, Ordered
  <1> QED
    BY <1>2, <1>3, <1>4, <1>5, <1>6

\* v is t with one more character, at i.
OneMore(v, t, i) ==
  /\ i \in 1..Len(v) /\ Len(v) = Len(t) + 1
  /\ \A j \in 1..Len(t) : t[j] = v[IF j < i THEN j ELSE j + 1]

\* A separator more changes nothing of what is read, any other character does.
LEMMA ReadOneMore ==
  ASSUME NEW v \in Seq(Chars), NEW t \in Seq(Chars), NEW i, OneMore(v, t, i)
  PROVE  /\ IsSeparator(v[i]) => Read(v) = Read(t)
         /\ ~IsSeparator(v[i]) => Read(v) # Read(t)
  <1>1. /\ Len(t) \in Nat /\ DOMAIN t = 1..Len(t) /\ DOMAIN v = 1..(Len(t) + 1)
        /\ i \in 1..(Len(t) + 1)
    BY LenProperties DEF OneMore
  <1>2. PICK S : S = ReadPlaces(t)
    OBVIOUS
  <1>3. PICK T : T = ReadPlaces(v) \ {i}
    OBVIOUS
  <1>4. PICK f : f = [j \in S |-> IF j < i THEN j ELSE j + 1]
    OBVIOUS
  <1>5. S \subseteq 1..Len(t) /\ S \subseteq Nat /\ IsFiniteSet(S) /\ T \subseteq Nat
    BY <1>2, <1>3, ReadOf
  <1>6. f \in [S -> T] /\ \A j \in S : t[j] = v[f[j]]
    <2> SUFFICES ASSUME NEW j \in S PROVE f[j] \in T /\ t[j] = v[f[j]]
      BY <1>4
    <2>1. j \in 1..Len(t) /\ ~IsSeparator(t[j]) /\ f[j] = IF j < i THEN j ELSE j + 1
      BY <1>2, <1>4, <1>5 DEF ReadPlaces
    <2>2. t[j] = v[f[j]]
      BY <2>1 DEF OneMore
    <2>3. f[j] \in DOMAIN v /\ f[j] # i
      BY <1>1, <2>1
    <2> QED
      BY <1>3, <2>1, <2>2, <2>3 DEF ReadPlaces
  <1>7. \A j \in T : \E k \in S : f[k] = j
    <2> SUFFICES ASSUME NEW j \in T PROVE \E k \in S : f[k] = j
      OBVIOUS
    <2>1. j \in 1..(Len(t) + 1) /\ j # i /\ ~IsSeparator(v[j])
      BY <1>1, <1>3 DEF ReadPlaces
    <2>2. PICK k \in 1..Len(t) : j = IF k < i THEN k ELSE k + 1
      <3>1. CASE j < i
        BY <1>1, <2>1, <3>1
      <3>2. CASE j > i
        <4>1. j - 1 \in 1..Len(t) /\ ~(j - 1 < i) /\ (j - 1) + 1 = j
          BY <1>1, <2>1, <3>2
        <4> QED
          BY <4>1
      <3> QED
        BY <1>1, <2>1, <3>1, <3>2
    <2>3. t[k] = v[j]
      BY <2>2 DEF OneMore
    <2>4. k \in S
      BY <1>1, <1>2, <2>1, <2>3 DEF ReadPlaces
    <2> QED
      BY <1>4, <2>2, <2>4
  <1>8. \A j, k \in S : j <= k <=> f[j] <= f[k]
    BY <1>1, <1>4, <1>5
  <1>9. /\ IsFiniteSet(T) /\ Cardinality(T) = Cardinality(S)
        /\ \A k \in 1..Cardinality(S) : InOrder(T)[k] = f[InOrder(S)[k]]
    <2>1. Moves(f, S, T)
      BY <1>6, <1>7, <1>8 DEF Moves
    <2> QED
      <3>1. IsFiniteSet(T) /\ Cardinality(T) = Cardinality(S) /\ Follows(f, S, T)
        BY <1>5, <2>1, Moved
      <3> QED
        BY <3>1 DEF Follows
  <1>10. CASE IsSeparator(v[i])
    <2>1. ReadPlaces(v) = T
      BY <1>3, <1>10 DEF ReadPlaces
    <2>2. DOMAIN Read(v) = DOMAIN Read(t) /\ DOMAIN Read(t) = 1..Cardinality(S)
      BY <1>2, <1>9, <2>1, ReadOf
    <2>3. ASSUME NEW k \in 1..Cardinality(S) PROVE Read(v)[k] = Read(t)[k]
      <3>1. PICK j : j = InOrder(S)[k]
        OBVIOUS
      <3>2. j \in S
        BY <1>5, <3>1, Ordered
      <3>3. Read(t)[k] = Letter(t[j])
        BY <1>2, <3>1, ReadOf
      <3>4. Read(v)[k] = Letter(v[f[j]])
        BY <1>9, <2>1, <3>1, ReadOf
      <3> QED
        BY <1>6, <3>2, <3>3, <3>4
    <2>4. Read(v) = [k \in 1..Cardinality(S) |-> Read(v)[k]]
          /\ Read(t) = [k \in 1..Cardinality(S) |-> Read(t)[k]]
      BY <2>2 DEF Read
    <2> QED
      BY <1>10, <2>3, <2>4
  <1>11. CASE ~IsSeparator(v[i])
    <2>1. ReadPlaces(v) = T \cup {i} /\ i \notin T
      BY <1>1, <1>3, <1>11 DEF ReadPlaces
    <2>2. Cardinality(ReadPlaces(v)) = Cardinality(S) + 1
      BY <1>9, <2>1, FS_AddElement
    <2>3. PICK n \in Nat : n = Cardinality(S)
      BY <1>5, FS_CardinalityType
    <2>4. DOMAIN Read(v) = 1..(n + 1) /\ DOMAIN Read(t) = 1..n
      BY <1>2, <2>2, <2>3, ReadOf
    <2>5. 1..(n + 1) # 1..n
      <3>1. n + 1 \in 1..(n + 1) /\ n + 1 \notin 1..n
        OBVIOUS
      <3> QED
        BY <3>1
    <2> QED
      BY <1>11, <2>4, <2>5
  <1> QED
    BY <1>10, <1>11

\* One character exchanged for another: what is read is the same if they are the same
\* letter, and only then.
LEMMA ReadExchanged ==
  ASSUME NEW t \in Seq(Chars), NEW i \in DOMAIN t, NEW c \in Chars,
         ~IsSeparator(t[i]), ~IsSeparator(c)
  PROVE  /\ [t EXCEPT ![i] = c] \in Seq(Chars)
         /\ Read([t EXCEPT ![i] = c]) = Read(t) <=> Letter(c) = Letter(t[i])
  <1>1. PICK v : v = [t EXCEPT ![i] = c]
    OBVIOUS
  <1>2. Len(t) \in Nat /\ DOMAIN t = 1..Len(t) /\ \A j \in 1..Len(t) : t[j] \in Chars
    BY LenProperties, ElementOfSeq
  <1>3. v \in [1..Len(t) -> Chars] /\ v[i] = c /\ \A j \in 1..Len(t) : j # i => v[j] = t[j]
    <2>1. t \in [1..Len(t) -> Chars]
      BY LenProperties
    <2> QED
      BY <1>1, <1>2, <2>1
  <1>4. v \in Seq(Chars) /\ DOMAIN v = DOMAIN t
    BY <1>2, <1>3
  <1>5. PICK S : S = ReadPlaces(t)
    OBVIOUS
  <1>6. ReadPlaces(v) = S /\ i \in S
    BY <1>2, <1>3, <1>4, <1>5 DEF ReadPlaces
  <1>7. /\ S \subseteq Nat /\ IsFiniteSet(S) /\ S \subseteq 1..Len(t)
        /\ DOMAIN Read(t) = 1..Cardinality(S) /\ DOMAIN Read(v) = 1..Cardinality(S)
    BY <1>4, <1>5, <1>6, ReadOf
  <1>8. ASSUME NEW k \in 1..Cardinality(S)
        PROVE  /\ InOrder(S)[k] \in S
               /\ Read(t)[k] = Letter(t[InOrder(S)[k]]) /\ Read(v)[k] = Letter(v[InOrder(S)[k]])
    BY <1>4, <1>5, <1>6, <1>7, ReadOf, Ordered
  <1>9. ASSUME Letter(c) = Letter(t[i]) PROVE Read(v) = Read(t)
    <2>1. \A k \in 1..Cardinality(S) : Read(v)[k] = Read(t)[k]
      BY <1>3, <1>7, <1>8, <1>9
    <2>2. Read(v) = [k \in 1..Cardinality(S) |-> Read(v)[k]]
          /\ Read(t) = [k \in 1..Cardinality(S) |-> Read(t)[k]]
      BY <1>7 DEF Read
    <2> QED
      BY <2>1, <2>2
  <1>10. ASSUME Read(v) = Read(t) PROVE Letter(c) = Letter(t[i])
    <2>1. PICK k \in 1..Cardinality(S) : InOrder(S)[k] = i
      BY <1>6, <1>7, Ordered
    <2> QED
      BY <1>3, <1>8, <1>10, <2>1
  <1> QED
    BY <1>1, <1>4, <1>9, <1>10

\* A symbol of the alphabet is read as itself, a dash is not read.
LEMMA SymbolRead ==
  /\ \A c \in Alphabet : c \in Chars /\ ~IsSeparator(c) /\ Letter(c) = c
  /\ "-" \in Chars /\ IsSeparator("-")
  /\ \A c \in Separators : c \in Chars /\ IsSeparator(c)
  /\ \A c : Means(c) = Letter(c)
  BY FormatAssumption DEF IsSeparator, Letter, Substituted, Means

\* More symbols, no fewer complete groups.
LEMMA WholeGroups ==
  ASSUME NEW a \in Nat, NEW b \in Nat, a <= b, NEW g \in Nat \ {0}
  PROVE  a \div g \in Nat /\ a \div g <= b \div g
  <1>1. PICK q \in Int, r \in 0..(g - 1) : q = a \div g /\ a = g * q + r
    BY Z3
  <1>2. PICK p \in Int, s \in 0..(g - 1) : p = b \div g /\ b = g * p + s
    BY Z3
  <1>3. q <= p
    BY <1>1, <1>2, Z3
  <1>4. q >= 0
    BY <1>1, Z3
  <1> QED
    BY <1>1, <1>2, <1>3, <1>4

\* Format keeps the order of the symbols.
LEMMA PlacesAscend ==
  ASSUME NEW i \in Nat \ {0}, NEW j \in Nat \ {0}
  PROVE  PlaceOf(i) \in Nat \ {0} /\ (i <= j <=> PlaceOf(i) <= PlaceOf(j))
  <1>0. Group \in Nat \ {0}
    BY FormatAssumption
  <1>1. PICK a \in Nat, b \in Nat : a = i - 1 /\ b = j - 1
    OBVIOUS
  <1>2. PICK p \in Nat, q \in Nat : p = a \div Group /\ q = b \div Group
    BY <1>0, WholeGroups
  <1>3. (a <= b => p <= q) /\ (b <= a => q <= p)
    BY <1>0, <1>2, WholeGroups
  <1>4. PlaceOf(i) = i + p /\ PlaceOf(j) = j + q
    BY <1>1, <1>2 DEF PlaceOf
  <1> QED
    BY <1>1, <1>3, <1>4

\* Every place from 1 to n, in order.
LEMMA InOrderWhole ==
  ASSUME NEW n \in Nat, NEW k \in 1..n
  PROVE  InOrder(1..n)[k] = k
  <1>1. PICK S : S = 1..n
    OBVIOUS
  <1>2. S \subseteq Nat /\ IsFiniteSet(S)
    BY <1>1, FS_Interval
  <1>3. Rank(S, k) = k
    <2>1. {j \in S : j <= k} = 1..k
      BY <1>1
    <2>2. Cardinality(1..k) = k
      BY FS_Interval
    <2> QED
      BY <2>1, <2>2 DEF Rank
  <1>4. InOrder(S)[Rank(S, k)] = k
    BY <1>1, <1>2, Ordered
  <1> QED
    BY <1>1, <1>3, <1>4

\* Read undoes Format.
LEMMA FormatRead ==
  ASSUME NEW raw \in RawCodes
  PROVE  Format(raw) \in Seq(Chars) /\ Read(Format(raw)) = raw
  <1>0. CodeLen \in Nat \ {0}
    BY FormatAssumption
  <1>1. \A i \in 1..CodeLen : raw[i] \in Alphabet
    BY DEF RawCodes
  <1>2. \A i, j \in 1..CodeLen :
           PlaceOf(i) \in Nat \ {0} /\ (i <= j <=> PlaceOf(i) <= PlaceOf(j))
    BY <1>0, PlacesAscend
  <1>3. \A i, j \in 1..CodeLen : PlaceOf(i) = PlaceOf(j) => i = j
    <2> SUFFICES ASSUME NEW i \in 1..CodeLen, NEW j \in 1..CodeLen, PlaceOf(i) = PlaceOf(j)
                 PROVE  i = j
      OBVIOUS
    <2>1. PlaceOf(i) \in Nat /\ PlaceOf(j) \in Nat /\ i \in Nat /\ j \in Nat
      BY <1>0, <1>2
    <2>2. i <= j /\ j <= i
      BY <1>2, <2>1
    <2> QED
      BY <2>1, <2>2
  <1>4. PICK n \in Nat : n = PlaceOf(CodeLen)
    BY <1>0, <1>2
  <1>5. PICK w : w = Format(raw)
    OBVIOUS
  <1>6. DOMAIN w = 1..n
    BY <1>4, <1>5 DEF Format
  <1>7. ASSUME NEW i \in 1..CodeLen
        PROVE  PlaceOf(i) \in 1..n /\ w[PlaceOf(i)] = raw[i]
    <2>1. PlaceOf(i) \in 1..n
      <3>1. CodeLen \in 1..CodeLen /\ i <= CodeLen
        BY <1>0
      <3>2. PlaceOf(i) \in Nat \ {0} /\ PlaceOf(i) <= PlaceOf(CodeLen)
        BY <1>2, <3>1
      <3> QED
        BY <1>4, <3>2
    <2>2. \E k \in 1..CodeLen : PlaceOf(k) = PlaceOf(i)
      OBVIOUS
    <2>3. (CHOOSE k \in 1..CodeLen : PlaceOf(k) = PlaceOf(i)) = i
      BY <1>3
    <2> QED
      BY <1>4, <1>5, <2>1, <2>2, <2>3 DEF Format
  <1>8. ASSUME NEW p \in 1..n, \A i \in 1..CodeLen : PlaceOf(i) # p
        PROVE  w[p] = "-"
    BY <1>4, <1>5, <1>8 DEF Format
  <1>9. w \in Seq(Chars)
    <2>1. \A p \in 1..n : w[p] \in Chars
      BY <1>1, <1>7, <1>8, SymbolRead
    <2>2. w = [p \in 1..n |-> w[p]]
      BY <1>4, <1>5, <1>6 DEF Format
    <2> QED
      BY <2>1, <2>2
  <1>10. PICK S : S = 1..CodeLen
    OBVIOUS
  <1>11. PICK T : T = ReadPlaces(w)
    OBVIOUS
  <1>12. PICK f : f = [i \in S |-> PlaceOf(i)]
    OBVIOUS
  <1>13. S \subseteq Nat /\ IsFiniteSet(S) /\ Cardinality(S) = CodeLen /\ T \subseteq Nat
    <2>1. S \subseteq Nat /\ IsFiniteSet(S) /\ Cardinality(S) = CodeLen
      BY <1>0, <1>10, FS_Interval
    <2>2. T \subseteq Nat
      BY <1>9, <1>11, ReadOf
    <2> QED
      BY <2>1, <2>2
  <1>14. Moves(f, S, T)
    <2>1. f \in [S -> T]
      <3> SUFFICES ASSUME NEW i \in S PROVE PlaceOf(i) \in T
        BY <1>12
      <3>1. PlaceOf(i) \in DOMAIN w /\ ~IsSeparator(w[PlaceOf(i)])
        BY <1>1, <1>6, <1>7, <1>10, SymbolRead
      <3> QED
        BY <1>11, <3>1 DEF ReadPlaces
    <2>2. ASSUME NEW p \in T PROVE \E i \in S : f[i] = p
      <3>1. p \in 1..n /\ ~IsSeparator(w[p])
        BY <1>6, <1>11 DEF ReadPlaces
      <3>2. PICK i \in 1..CodeLen : PlaceOf(i) = p
        BY <1>8, <3>1, SymbolRead
      <3> QED
        BY <1>10, <1>12, <3>2
    <2>3. \A i, j \in S : i <= j <=> f[i] <= f[j]
      BY <1>2, <1>10, <1>12
    <2> QED
      BY <2>1, <2>2, <2>3 DEF Moves
  <1>15. IsFiniteSet(T) /\ Cardinality(T) = CodeLen /\ Follows(f, S, T)
    BY <1>13, <1>14, Moved
  <1>16. ASSUME NEW k \in 1..CodeLen PROVE Read(w)[k] = raw[k]
    <2>1. InOrder(S)[k] = k
      BY <1>0, <1>10, InOrderWhole
    <2>2. InOrder(T)[k] = f[k]
      BY <1>13, <1>15, <2>1 DEF Follows
    <2>3. Read(w)[k] = Letter(w[InOrder(T)[k]])
      BY <1>9, <1>11, <1>15, ReadOf
    <2>4. f[k] = PlaceOf(k)
      BY <1>10, <1>12
    <2> QED
      BY <1>1, <1>7, <2>2, <2>3, <2>4, SymbolRead
  <1>17. Read(w) = [k \in 1..CodeLen |-> Read(w)[k]]
    <2>1. DOMAIN Read(w) = 1..CodeLen
      BY <1>9, <1>11, <1>15, ReadOf
    <2> QED
      BY <2>1 DEF Read
  <1>18. raw = [k \in 1..CodeLen |-> raw[k]]
    BY DEF RawCodes
  <1> QED
    BY <1>5, <1>9, <1>16, <1>17, <1>18

\* RemoveAt takes one character away.
LEMMA Removed ==
  ASSUME NEW t \in Seq(Chars), NEW i \in DOMAIN t
  PROVE  RemoveAt(t, i) \in Seq(Chars) /\ OneMore(t, RemoveAt(t, i), i)
  <1>0. Len(t) \in Nat /\ i \in 1..Len(t) /\ \A j \in 1..Len(t) : t[j] \in Chars
    BY LenProperties, ElementOfSeq
  <1>1. PICK a, b : a = SubSeq(t, 1, i - 1) /\ b = SubSeq(t, i + 1, Len(t))
    OBVIOUS
  <1>2. a \in Seq(Chars) /\ Len(a) = i - 1 /\ \A j \in 1..(i - 1) : a[j] = t[j]
    BY <1>0, <1>1, SubSeqProperties
  <1>3. b \in Seq(Chars) /\ Len(b) = Len(t) - i /\ \A j \in 1..(Len(t) - i) : b[j] = t[i + j]
    BY <1>0, <1>1, SubSeqProperties
  <1>4. PICK u : u = a \o b
    OBVIOUS
  <1>5. /\ u \in Seq(Chars) /\ Len(u) = Len(a) + Len(b)
        /\ \A j \in 1..(Len(a) + Len(b)) : u[j] = IF j <= Len(a) THEN a[j] ELSE b[j - Len(a)]
    <2>1. a \in Seq(Chars) /\ b \in Seq(Chars)
      BY <1>2, <1>3
    <2> QED
      BY <1>4, <2>1, ConcatProperties
  <1>6. ASSUME NEW j \in 1..(Len(t) - 1) PROVE u[j] = t[IF j < i THEN j ELSE j + 1]
    <2>1. CASE j < i
      BY <1>0, <1>2, <1>3, <1>5, <2>1
    <2>2. CASE ~(j < i)
      <3>1. j - (i - 1) \in 1..(Len(t) - i) /\ i + (j - (i - 1)) = j + 1
        BY <1>0, <2>2
      <3>2. u[j] = b[j - (i - 1)]
        BY <1>0, <1>2, <1>3, <1>5, <2>2
      <3> QED
        BY <1>3, <2>2, <3>1, <3>2
    <2> QED
      BY <2>1, <2>2
  <1>7. Len(u) = Len(t) - 1
    BY <1>0, <1>2, <1>3, <1>5
  <1>8. RemoveAt(t, i) = u
    BY <1>1, <1>4 DEF RemoveAt
  <1> QED
    BY <1>0, <1>5, <1>6, <1>7, <1>8 DEF OneMore

\* InsertAt adds one character.
LEMMA Inserted ==
  ASSUME NEW t \in Seq(Chars), NEW i \in 1..(Len(t) + 1), NEW c \in Chars
  PROVE  /\ InsertAt(t, i, c) \in Seq(Chars) /\ InsertAt(t, i, c)[i] = c
         /\ OneMore(InsertAt(t, i, c), t, i)
  <1>0. Len(t) \in Nat /\ \A j \in 1..Len(t) : t[j] \in Chars
    BY LenProperties, ElementOfSeq
  <1>1. PICK a, b : a = SubSeq(t, 1, i - 1) /\ b = SubSeq(t, i, Len(t))
    OBVIOUS
  <1>2. a \in Seq(Chars) /\ Len(a) = i - 1 /\ \A j \in 1..(i - 1) : a[j] = t[j]
    BY <1>0, <1>1, SubSeqProperties
  <1>3. /\ b \in Seq(Chars) /\ Len(b) = Len(t) - i + 1
        /\ \A j \in 1..(Len(t) - i + 1) : b[j] = t[i + j - 1]
    BY <1>0, <1>1, SubSeqProperties
  <1>4. PICK m : m = <<c>>
    OBVIOUS
  <1>5. m \in Seq(Chars) /\ Len(m) = 1 /\ m[1] = c
    BY <1>4
  <1>6. PICK u : u = a \o m
    OBVIOUS
  <1>7. /\ u \in Seq(Chars) /\ Len(u) = i /\ u[i] = c /\ \A j \in 1..(i - 1) : u[j] = t[j]
    <2>1. a \in Seq(Chars) /\ m \in Seq(Chars)
      BY <1>2, <1>5
    <2>2. /\ u \in Seq(Chars) /\ Len(u) = Len(a) + Len(m)
          /\ \A j \in 1..(Len(a) + Len(m)) : u[j] = IF j <= Len(a) THEN a[j] ELSE m[j - Len(a)]
      BY <1>6, <2>1, ConcatProperties
    <2> QED
      BY <1>0, <1>2, <1>5, <2>2
  <1>8. PICK v : v = u \o b
    OBVIOUS
  <1>9. /\ v \in Seq(Chars) /\ Len(v) = Len(u) + Len(b)
        /\ \A j \in 1..(Len(u) + Len(b)) : v[j] = IF j <= Len(u) THEN u[j] ELSE b[j - Len(u)]
    <2>1. u \in Seq(Chars) /\ b \in Seq(Chars)
      BY <1>3, <1>7
    <2> QED
      BY <1>8, <2>1, ConcatProperties
  <1>10. Len(v) = Len(t) + 1 /\ i \in 1..Len(v)
    BY <1>0, <1>3, <1>7, <1>9
  <1>11. v[i] = c
    BY <1>7, <1>9, <1>10
  <1>12. ASSUME NEW j \in 1..Len(t) PROVE t[j] = v[IF j < i THEN j ELSE j + 1]
    <2>1. CASE j < i
      BY <1>0, <1>7, <1>9, <1>10, <2>1
    <2>2. CASE ~(j < i)
      <3>1. j + 1 - i \in 1..(Len(t) - i + 1) /\ i + (j + 1 - i) - 1 = j
        BY <1>0, <2>2
      <3>2. v[j + 1] = b[j + 1 - i]
        BY <1>0, <1>7, <1>9, <1>10, <2>2
      <3> QED
        BY <1>3, <2>2, <3>1, <3>2
    <2> QED
      BY <2>1, <2>2
  <1>13. InsertAt(t, i, c) = v
    BY <1>1, <1>4, <1>6, <1>8 DEF InsertAt
  <1> QED
    BY <1>9, <1>10, <1>11, <1>12, <1>13 DEF OneMore

\* The inductive invariant: what is typed reads as the code shown until a mistake is
\* made, and no longer then.
FormatInv ==
  /\ typed \in Seq(Chars)
  /\ shown = <<>> => typed = <<>> /\ mistaken = FALSE
  /\ shown # <<>> => shown \in RawCodes /\ (mistaken <=> Read(typed) # shown)

\* The invariant holds at the start,
LEMMA FormatInvInit == FormatInit => FormatInv
  BY DEF FormatInit, FormatInv

\* and every step keeps it.
LEMMA FormatInvNext == FormatInv /\ [FormatNext]_formatVars => FormatInv'
  <1> SUFFICES ASSUME FormatInv, [FormatNext]_formatVars PROVE FormatInv'
    OBVIOUS
  <1>0. typed \in Seq(Chars) /\ DOMAIN typed = 1..Len(typed)
    BY LenProperties DEF FormatInv
  <1>1. CASE Show
    <2>1. shown' \in RawCodes /\ typed' = Format(shown') /\ mistaken = FALSE /\ mistaken' = mistaken
      BY <1>1 DEF Show, FormatInv
    <2>2. typed' \in Seq(Chars) /\ Read(typed') = shown'
      BY <2>1, FormatRead
    <2>3. shown' # <<>>
      <3>1. 1 \in DOMAIN shown'
        BY <2>1, FormatAssumption DEF RawCodes
      <3> QED
        BY <3>1
    <2> QED
      BY <2>1, <2>2, <2>3 DEF FormatInv
  <1>2. CASE Respell
    <2>1. PICK i \in DOMAIN typed, c \in Chars :
             /\ ~IsSeparator(typed[i]) /\ ~IsSeparator(c) /\ Letter(c) = Letter(typed[i])
             /\ typed' = [typed EXCEPT ![i] = c]
      BY <1>2, SymbolRead DEF Respell
    <2>2. typed' \in Seq(Chars) /\ Read(typed') = Read(typed)
      BY <1>0, <2>1, ReadExchanged
    <2>3. shown # <<>>
      BY <2>1 DEF FormatInv
    <2> QED
      BY <1>2, <2>2, <2>3 DEF Respell, FormatInv
  <1>3. CASE Regroup
    <2>1. ASSUME NEW i \in DOMAIN typed, IsSeparator(typed[i]), typed' = RemoveAt(typed, i)
          PROVE  typed' \in Seq(Chars) /\ Read(typed') = Read(typed)
      BY <1>0, <2>1, Removed, ReadOneMore
    <2>2. ASSUME NEW i \in 1..(Len(typed) + 1), NEW c \in Separators,
                 typed' = InsertAt(typed, i, c)
          PROVE  typed' \in Seq(Chars) /\ Read(typed') = Read(typed)
      <3>1. c \in Chars /\ IsSeparator(c)
        BY SymbolRead
      <3>2. typed' \in Seq(Chars) /\ typed'[i] = c /\ OneMore(typed', typed, i)
        BY <1>0, <2>2, <3>1, Inserted
      <3> QED
        BY <1>0, <3>1, <3>2, ReadOneMore
    <2>3. typed' \in Seq(Chars) /\ Read(typed') = Read(typed)
      BY <1>3, <2>1, <2>2 DEF Regroup
    <2> QED
      BY <1>3, <2>3 DEF Regroup, FormatInv
  <1>4. CASE Mistype
    <2>1. ASSUME NEW i \in DOMAIN typed, ~IsSeparator(typed[i]), typed' = RemoveAt(typed, i)
          PROVE  typed' \in Seq(Chars) /\ Read(typed') # Read(typed)
      BY <1>0, <2>1, Removed, ReadOneMore
    <2>2. ASSUME NEW i \in 1..(Len(typed) + 1), NEW c \in Chars, ~IsSeparator(c),
                 typed' = InsertAt(typed, i, c)
          PROVE  typed' \in Seq(Chars) /\ Read(typed') # Read(typed)
      <3>1. typed' \in Seq(Chars) /\ typed'[i] = c /\ OneMore(typed', typed, i)
        BY <1>0, <2>2, Inserted
      <3> QED
        BY <1>0, <2>2, <3>1, ReadOneMore
    <2>3. ASSUME NEW i \in DOMAIN typed, NEW c \in Chars, ~IsSeparator(typed[i]),
                 ~IsSeparator(c), Means(c) # Means(typed[i]), typed' = [typed EXCEPT ![i] = c]
          PROVE  typed' \in Seq(Chars) /\ Read(typed') # Read(typed)
      BY <1>0, <2>3, SymbolRead, ReadExchanged
    <2>4. typed' \in Seq(Chars) /\ Read(typed') # Read(typed)
      BY <1>4, <2>1, <2>2, <2>3 DEF Mistype
    <2> QED
      BY <1>4, <2>4 DEF Mistype, FormatInv
  <1>5. CASE UNCHANGED formatVars
    BY <1>5 DEF formatVars, FormatInv
  <1> QED
    BY <1>1, <1>2, <1>3, <1>4, <1>5 DEF FormatNext

\* A code is read as it was drawn, however it is spelled and grouped when it is typed
\* (randomRecoveryCode, formatRecoveryCode, normalizeRecoveryCode).
THEOREM ReadAsShownCorrect == FormatSpec => []ReadAsShown
  <1>1. FormatInv => ReadAsShown
    <2> SUFFICES ASSUME FormatInv, shown # <<>>, ~mistaken PROVE Normalize(typed) = shown
      BY DEF ReadAsShown
    <2>1. shown \in RawCodes /\ Read(typed) = shown
      BY DEF FormatInv
    <2>2. CodeLen \in Nat
      BY FormatAssumption
    <2>3. Range(shown) \subseteq Alphabet /\ Len(shown) = CodeLen
      BY <2>1, <2>2 DEF RawCodes, Range
    <2> QED
      BY <2>1, <2>3 DEF Normalize
  <1> QED
    BY <1>1, FormatInvInit, FormatInvNext, PTL DEF FormatSpec

\* A code typed with a mistake is not read as the one that was drawn
\* (normalizeRecoveryCode).
THEOREM MistakeNotForgivenCorrect == FormatSpec => []MistakeNotForgiven
  <1>1. FormatInv => MistakeNotForgiven
    BY DEF FormatInv, MistakeNotForgiven, Normalize
  <1> QED
    BY <1>1, FormatInvInit, FormatInvNext, PTL DEF FormatSpec

--------------------------------------------------------------------------------
(* Language: lemmas about the lists and their first language. *)

\* What a list of languages holds.
Entries == Seq(Entry)

\* origin[k] is the place where the k-th of the sorted list stood.
Sorted(list, entries, origin) ==
  /\ DOMAIN list = DOMAIN origin /\ \E n \in Nat : DOMAIN origin = 1..n
  /\ \A k \in DOMAIN origin : origin[k] \in Kept(entries) /\ list[k] = entries[origin[k]]
  /\ \A i \in Kept(entries) : \E k \in DOMAIN origin : origin[k] = i
  /\ \A k, l \in DOMAIN origin : k <= l => Ahead(entries, origin[k], origin[l])

\* The entries that count are sorted, and none is lost.
LEMMA ParsedSorted ==
  ASSUME NEW entries \in Entries, WellFormed(entries)
  PROVE  /\ ParseAcceptLanguage(entries) \in Entries
         /\ \E origin : Sorted(ParseAcceptLanguage(entries), entries, origin)
  <1>0. Len(entries) \in Nat /\ DOMAIN entries = 1..Len(entries)
        /\ \A i \in DOMAIN entries : entries[i] \in Entry
    BY LenProperties, ElementOfSeq DEF Entries
  <1>1. PICK S : S = Kept(entries)
    OBVIOUS
  <1>2. S \subseteq 1..Len(entries) /\ IsFiniteSet(S)
    <2>1. S \in SUBSET (1..Len(entries)) /\ IsFiniteSet(1..Len(entries))
      BY <1>0, <1>1, FS_Interval DEF Kept
    <2> QED
      BY <2>1, FS_Subset
  <1>3. PICK R : R = {p \in S \X S : Ahead(entries, p[1], p[2])}
    OBVIOUS
  <1>4. \A i, j \in S : <<i, j>> \in R <=> Ahead(entries, i, j)
    BY <1>3
  <1>5. \A i \in S : i \in Nat /\ entries[i].q \in Nat
    BY <1>0, <1>2, LanguageAssumption DEF Entry, Dropped
  <1>6. Orders(R, S)
    BY <1>4, <1>5 DEF Orders, Ahead
  <1>7. PICK n \in Nat : n = Cardinality(S)
    BY <1>2, FS_CardinalityType
  <1>8. PICK origin : origin = [k \in 1..n |-> Nth(entries, k)]
    OBVIOUS
  <1>9. \A i \in S : RankBy(R, S, i) = Cardinality({j \in S : Ahead(entries, j, i)})
    BY <1>4 DEF RankBy
  <1>10. ASSUME NEW k \in 1..n PROVE origin[k] \in S /\ RankBy(R, S, origin[k]) = k
    <2>1. \E i \in S : RankBy(R, S, i) = k
      BY <1>2, <1>6, <1>7, RanksBy
    <2>2. \E i \in S : Cardinality({j \in S : Ahead(entries, j, i)}) = k
      BY <1>9, <2>1
    <2>3. origin[k] \in S /\ Cardinality({j \in S : Ahead(entries, j, origin[k])}) = k
      BY <1>1, <1>8, <2>2 DEF Nth
    <2> QED
      BY <1>9, <2>3
  <1>11. PICK list : list = ParseAcceptLanguage(entries)
    OBVIOUS
  <1>12. list = [k \in 1..n |-> entries[origin[k]]]
    BY <1>1, <1>7, <1>8, <1>11 DEF ParseAcceptLanguage, WellFormed
  <1>13. list \in Entries
    <2>1. \A k \in 1..n : entries[origin[k]] \in Entry
      BY <1>0, <1>2, <1>10
    <2> QED
      BY <1>12, <2>1 DEF Entries
  <1>14. ASSUME NEW i \in S PROVE \E k \in 1..n : origin[k] = i
    <2>1. PICK k \in 1..n : RankBy(R, S, i) = k
      BY <1>2, <1>6, <1>7, RanksBy
    <2>2. origin[k] \in S /\ RankBy(R, S, origin[k]) = RankBy(R, S, i) /\ k <= k
      BY <1>10, <2>1
    <2>3. <<i, origin[k]>> \in R /\ <<origin[k], i>> \in R
      BY <1>2, <1>6, <2>1, <2>2, RanksBy
    <2> QED
      BY <1>6, <2>2, <2>3 DEF Orders
  <1>15. ASSUME NEW k \in 1..n, NEW l \in 1..n, k <= l
         PROVE  Ahead(entries, origin[k], origin[l])
    <2>1. origin[k] \in S /\ origin[l] \in S
          /\ RankBy(R, S, origin[k]) = k /\ RankBy(R, S, origin[l]) = l
      BY <1>10
    <2>2. <<origin[k], origin[l]>> \in R
      BY <1>2, <1>6, <1>15, <2>1, RanksBy
    <2> QED
      BY <1>4, <2>1, <2>2
  <1>16. DOMAIN origin = 1..n /\ DOMAIN list = 1..n /\ \A k \in 1..n : list[k] = entries[origin[k]]
    BY <1>8, <1>12
  <1> QED
    BY <1>1, <1>10, <1>11, <1>13, <1>14, <1>15, <1>16 DEF Sorted

\* The preferences that there is a translation for.
Reach(prefs) == {k \in DOMAIN prefs : prefs[k].tag \in Languages}

\* Match takes the first of them.
LEMMA MatchFirst ==
  ASSUME NEW prefs \in Entries, Reach(prefs) # {}
  PROVE  \E k \in Reach(prefs) : /\ Match(prefs) = prefs[k].tag
                                 /\ \A l \in Reach(prefs) : k <= l
  <1>1. PICK S : S = Reach(prefs)
    OBVIOUS
  <1>2. S \subseteq Nat /\ S # {}
    BY <1>1, LenProperties DEF Reach, Entries
  <1>3. Min(S) \in S /\ \A l \in S : Min(S) <= l
    BY <1>2, MinIsFirst
  <1>4. Match(prefs) = prefs[Min(S)].tag
    BY <1>1, <1>2 DEF Match, Reach
  <1> QED
    BY <1>1, <1>3, <1>4

\* Two lists joined: the second counts only when nothing of the first is there.
LEMMA MatchJoined ==
  ASSUME NEW a \in Entries, NEW b \in Entries
  PROVE  /\ Reach(a) # {} => Reach(a \o b) # {} /\ Match(a \o b) = Match(a)
         /\ Reach(a) = {} => Match(a \o b) = Match(b)
         /\ Reach(a) = {} /\ Reach(b) = {} => Reach(a \o b) = {}
  <1>0. /\ Len(a) \in Nat /\ DOMAIN a = 1..Len(a) /\ Len(b) \in Nat /\ DOMAIN b = 1..Len(b)
    BY LenProperties DEF Entries
  <1>1. PICK c : c = a \o b
    OBVIOUS
  <1>2. /\ c \in Entries /\ DOMAIN c = 1..(Len(a) + Len(b))
        /\ \A k \in 1..(Len(a) + Len(b)) : c[k] = IF k <= Len(a) THEN a[k] ELSE b[k - Len(a)]
    BY <1>1, ConcatProperties, LenProperties DEF Entries
  <1>3. \A k \in Reach(a) : k \in Reach(c) /\ c[k] = a[k]
    BY <1>0, <1>2 DEF Reach
  <1>4. \A k \in Reach(b) : Len(a) + k \in Reach(c) /\ c[Len(a) + k] = b[k]
    <2> SUFFICES ASSUME NEW k \in Reach(b)
                 PROVE  Len(a) + k \in Reach(c) /\ c[Len(a) + k] = b[k]
      OBVIOUS
    <2>1. k \in 1..Len(b) /\ b[k].tag \in Languages
      BY <1>0 DEF Reach
    <2>2. Len(a) + k \in 1..(Len(a) + Len(b)) /\ ~(Len(a) + k <= Len(a))
          /\ (Len(a) + k) - Len(a) = k
      BY <1>0, <2>1
    <2>3. c[Len(a) + k] = b[k]
      BY <1>2, <2>2
    <2> QED
      BY <1>2, <2>1, <2>2, <2>3 DEF Reach
  <1>5. \A k \in Reach(c) : k \in Reach(a) \/ (k - Len(a) \in Reach(b) /\ k > Len(a))
    <2> SUFFICES ASSUME NEW k \in Reach(c), k \notin Reach(a)
                 PROVE  k - Len(a) \in Reach(b) /\ k > Len(a)
      OBVIOUS
    <2>1. k \in 1..(Len(a) + Len(b)) /\ c[k].tag \in Languages
      BY <1>2 DEF Reach
    <2>2. ~(k <= Len(a))
      BY <1>0, <1>2, <2>1 DEF Reach
    <2>3. k - Len(a) \in 1..Len(b) /\ c[k] = b[k - Len(a)]
      BY <1>0, <1>2, <2>1, <2>2
    <2> QED
      BY <1>0, <2>1, <2>2, <2>3 DEF Reach
  <1>6. ASSUME Reach(a) # {} PROVE Reach(c) # {} /\ Match(c) = Match(a)
    <2>1. Reach(c) # {}
      BY <1>3, <1>6
    <2>2. PICK k \in Reach(a) : Match(a) = a[k].tag /\ \A l \in Reach(a) : k <= l
      BY <1>6, MatchFirst
    <2>3. PICK m \in Reach(c) : Match(c) = c[m].tag /\ \A l \in Reach(c) : m <= l
      BY <1>2, <2>1, MatchFirst
    <2>4. k \in 1..Len(a) /\ m \in Nat /\ m <= k
      BY <1>0, <1>2, <1>3, <2>2, <2>3 DEF Reach
    <2>5. m \in Reach(a)
      BY <1>0, <1>5, <2>3, <2>4
    <2>6. m = k
      BY <2>2, <2>4, <2>5
    <2> QED
      BY <1>3, <2>1, <2>2, <2>3, <2>6
  <1>7. ASSUME Reach(a) = {}, Reach(b) = {} PROVE Reach(c) = {}
    BY <1>5, <1>7
  <1>8. ASSUME Reach(a) = {} PROVE Match(c) = Match(b)
    <2>1. CASE Reach(b) = {}
      <3>1. Match(c) = default
        BY <1>7, <1>8, <2>1 DEF Match, Reach
      <3>2. Match(b) = default
        BY <2>1 DEF Match, Reach
      <3> QED
        BY <3>1, <3>2
    <2>2. CASE Reach(b) # {}
      <3>1. PICK k \in Reach(b) : Match(b) = b[k].tag /\ \A l \in Reach(b) : k <= l
        BY <2>2, MatchFirst
      <3>2. Len(a) + k \in Reach(c) /\ c[Len(a) + k] = b[k]
        BY <1>4, <3>1
      <3>3. PICK m \in Reach(c) : Match(c) = c[m].tag /\ \A l \in Reach(c) : m <= l
        BY <1>2, <3>2, MatchFirst
      <3>4. m - Len(a) \in Reach(b) /\ m > Len(a)
        BY <1>5, <1>8, <3>3
      <3>5. m \in Nat /\ k \in Nat /\ m <= Len(a) + k /\ k <= m - Len(a)
        BY <1>0, <1>2, <3>1, <3>2, <3>3, <3>4 DEF Reach
      <3>6. m = Len(a) + k
        BY <1>0, <3>5
      <3> QED
        BY <3>1, <3>2, <3>3, <3>6
    <2> QED
      BY <2>1, <2>2
  <1> QED
    BY <1>1, <1>6, <1>7, <1>8

\* What is best for a header is unique.
LEMMA BestUnique ==
  ASSUME NEW entries \in Entries, NEW i, NEW j, Best(entries, i), Best(entries, j)
  PROVE  i = j
  <1>1. i \in DOMAIN entries /\ j \in DOMAIN entries /\ DOMAIN entries = 1..Len(entries)
    BY LenProperties DEF Entries, Best, Acceptable
  <1>2. entries[i] \in Entry /\ entries[j] \in Entry
    BY <1>1, ElementOfSeq DEF Entries
  <1>3. i \in Nat /\ j \in Nat /\ entries[i].q \in Nat /\ entries[j].q \in Nat
    BY <1>1, <1>2, LenProperties, LanguageAssumption DEF Entries, Entry, Dropped
  <1> SUFFICES ASSUME i # j PROVE FALSE
    OBVIOUS
  <1>4. j \in Acceptable(entries) \ {i} /\ i \in Acceptable(entries) \ {j}
    BY DEF Best
  <1> QED
    BY <1>3, <1>4 DEF Best

\* Sorted, the best comes first.
LEMMA MatchParsed ==
  ASSUME NEW entries \in Entries, WellFormed(entries)
  PROVE  /\ Acceptable(entries) = {} <=> Reach(ParseAcceptLanguage(entries)) = {}
         /\ Acceptable(entries) # {} =>
              \E i : Best(entries, i) /\ Match(ParseAcceptLanguage(entries)) = entries[i].tag
  <1>1. PICK list \in Entries : list = ParseAcceptLanguage(entries)
    BY ParsedSorted
  <1>2. PICK origin : Sorted(list, entries, origin)
    BY <1>1, ParsedSorted
  <1>3. \A k \in Reach(list) : origin[k] \in Acceptable(entries)
    BY <1>2 DEF Sorted, Reach, Acceptable, Kept
  <1>4. \A i \in Acceptable(entries) : \E k \in Reach(list) : origin[k] = i
    <2> SUFFICES ASSUME NEW i \in Acceptable(entries) PROVE \E k \in Reach(list) : origin[k] = i
      OBVIOUS
    <2>1. i \in Kept(entries) /\ entries[i].tag \in Languages
      BY DEF Acceptable, Kept
    <2>2. PICK k \in DOMAIN origin : origin[k] = i
      BY <1>2, <2>1 DEF Sorted
    <2>3. k \in DOMAIN list /\ list[k] = entries[i]
      BY <1>2, <2>2 DEF Sorted
    <2> QED
      BY <2>1, <2>2, <2>3 DEF Reach
  <1>5. ASSUME Acceptable(entries) # {}
        PROVE  \E i : Best(entries, i) /\ Match(list) = entries[i].tag
    <2>1. PICK k \in Reach(list) : Match(list) = list[k].tag /\ \A l \in Reach(list) : k <= l
      BY <1>4, <1>5, MatchFirst
    <2>2. PICK i : i = origin[k]
      OBVIOUS
    <2>3. i \in Acceptable(entries) /\ list[k] = entries[i]
      BY <1>2, <1>3, <2>1, <2>2 DEF Sorted, Reach
    <2>4. ASSUME NEW j \in Acceptable(entries) \ {i}
          PROVE  entries[j].q < entries[i].q \/ (entries[j].q = entries[i].q /\ i < j)
      <3>1. PICK l \in Reach(list) : origin[l] = j
        BY <1>4
      <3>2. k <= l /\ k \in DOMAIN origin /\ l \in DOMAIN origin
        BY <1>2, <2>1, <3>1 DEF Sorted, Reach
      <3>3. Ahead(entries, i, j)
        BY <1>2, <2>2, <3>1, <3>2 DEF Sorted
      <3>4. i \in DOMAIN entries /\ j \in DOMAIN entries /\ DOMAIN entries = 1..Len(entries)
        BY <2>3, LenProperties DEF Acceptable, Entries
      <3>5. entries[i] \in Entry /\ entries[j] \in Entry
        BY <3>4, ElementOfSeq DEF Entries
      <3>6. i \in Nat /\ j \in Nat /\ entries[i].q \in Nat /\ entries[j].q \in Nat
        BY <3>4, <3>5, LenProperties, LanguageAssumption DEF Entries, Entry, Dropped
      <3> QED
        BY <3>3, <3>6 DEF Ahead
    <2> QED
      BY <2>1, <2>3, <2>4 DEF Best
  <1> QED
    BY <1>1, <1>3, <1>4, <1>5

\* What is known of the bundle and of the last answer.
LanguageInv ==
  /\ default \in Tags \cup {Unset} /\ loaded \subseteq Tags
  /\ localizer # Unset =>
       /\ default \in Tags
       /\ localizer.force \in Tags \cup {Malformed, Unset} /\ localizer.accept \in Header
       /\ localizer.lang = Lang(localizer.force, localizer.accept)
       /\ localizer.spoken = Spoken(localizer.force, localizer.accept)

\* The invariant holds at the start,
LEMMA LanguageInvInit == LanguageInit => LanguageInv
  BY DEF LanguageInit, LanguageInv

\* and every step keeps it.
LEMMA LanguageInvNext == LanguageInv /\ [LanguageNext]_languageVars => LanguageInv'
  <1> SUFFICES ASSUME LanguageInv, [LanguageNext]_languageVars PROVE LanguageInv'
    OBVIOUS
  <1>1. CASE NewFS
    <2>1. localizer = Unset /\ localizer' = Unset
      BY <1>1, LanguageAssumption DEF NewFS, LanguageInv
    <2> QED
      BY <1>1, <2>1 DEF NewFS, LanguageInv
  <1>2. CASE FromRequest
    <2>1. PICK force \in Tags \cup {Malformed, Unset}, accept \in Header :
             localizer' = [force |-> force, accept |-> accept,
                           lang |-> Lang(force, accept), spoken |-> Spoken(force, accept)]
      BY <1>2 DEF FromRequest
    <2>2. default \in Tags /\ loaded \subseteq Tags /\ default' = default /\ loaded' = loaded
      BY <1>2 DEF FromRequest, LanguageInv
    <2>3. /\ localizer'.force = force /\ localizer'.accept = accept
          /\ localizer'.lang = Lang(force, accept) /\ localizer'.spoken = Spoken(force, accept)
      BY <2>1
    <2>4. /\ (localizer.lang = Lang(localizer.force, localizer.accept))'
          /\ (localizer.spoken = Spoken(localizer.force, localizer.accept))'
      BY <2>2, <2>3 DEF Lang, Spoken, Match, Languages
    <2> QED
      BY <2>2, <2>3, <2>4 DEF LanguageInv
  <1>3. CASE UNCHANGED languageVars
    BY <1>3 DEF languageVars, LanguageInv, Lang, Spoken, Match, Languages
  <1> QED
    BY <1>1, <1>2, <1>3 DEF LanguageNext

\* A language given without a weight is the list of itself, when there is a translation,
\* and decides nothing otherwise.
LEMMA AloneParsed ==
  ASSUME default \in Tags, loaded \subseteq Tags, NEW tag \in Tags \cup {Malformed, Unset}
  PROVE  /\ Alone(tag) \in Entries /\ ParseAcceptLanguage(Alone(tag)) \in Entries
         /\ tag \in Languages =>
              /\ Reach(ParseAcceptLanguage(Alone(tag))) # {}
              /\ Match(ParseAcceptLanguage(Alone(tag))) = tag
         /\ tag \notin Languages => Reach(ParseAcceptLanguage(Alone(tag))) = {}
  <1>0. Languages \subseteq Tags /\ Malformed \notin Languages /\ Unset \notin Languages
    BY LanguageAssumption DEF Languages
  <1>1. CASE tag = Unset
    <2>1. Alone(tag) = <<>> /\ Alone(tag) \in Entries
      BY <1>1 DEF Alone, Entries
    <2>2. WellFormed(Alone(tag)) /\ Acceptable(Alone(tag)) = {}
      BY <2>1 DEF WellFormed, Acceptable
    <2> QED
      BY <1>0, <1>1, <2>1, <2>2, MatchParsed, ParsedSorted
  <1>2. CASE tag # Unset
    <2>1. PICK e : e = [tag |-> tag, q |-> Full]
      OBVIOUS
    <2>2. Alone(tag) = <<e>> /\ e.tag = tag /\ e.q = Full /\ e \in Entry
      BY <1>2, <2>1, LanguageAssumption DEF Alone, Entry, Dropped
    <2>3. PICK list \in Entries : list = Alone(tag) /\ DOMAIN list = {1} /\ list[1] = e
      <3>1. <<e>> \in Seq(Entry) /\ DOMAIN <<e>> = {1} /\ <<e>>[1] = e
        BY <2>2
      <3> QED
        BY <2>2, <3>1 DEF Entries
    <2>4. CASE tag = Malformed
      <3>1. ParseAcceptLanguage(list) = <<>>
        BY <2>2, <2>3, <2>4 DEF ParseAcceptLanguage
      <3> QED
        BY <1>0, <2>3, <2>4, <3>1 DEF Reach, Entries
    <2>5. CASE tag # Malformed
      <3>1. WellFormed(list)
        BY <2>2, <2>3, <2>5 DEF WellFormed
      <3>2. Acceptable(list) = IF tag \in Languages THEN {1} ELSE {}
        BY <2>2, <2>3, LanguageAssumption DEF Acceptable
      <3>3. \A i : Best(list, i) => list[i].tag = tag
        BY <2>2, <2>3, <3>2 DEF Best
      <3> QED
        BY <2>3, <3>1, <3>2, <3>3, MatchParsed, ParsedSorted
    <2> QED
      BY <2>4, <2>5
  <1> QED
    BY <1>1, <1>2

\* A malformed header decides nothing, another one for its best entry.
LEMMA HeaderParsed ==
  ASSUME NEW accept \in Header
  PROVE  /\ accept \in Entries /\ ParseAcceptLanguage(accept) \in Entries
         /\ WellFormed(accept) /\ Acceptable(accept) # {} =>
              /\ Reach(ParseAcceptLanguage(accept)) # {}
              /\ \E i : Best(accept, i) /\ Match(ParseAcceptLanguage(accept)) = accept[i].tag
         /\ ~WellFormed(accept) \/ Acceptable(accept) = {} =>
              Reach(ParseAcceptLanguage(accept)) = {}
  <1>1. accept \in Entries
    BY LanguageAssumption DEF Header, Entries
  <1>2. CASE WellFormed(accept)
    BY <1>1, <1>2, MatchParsed, ParsedSorted
  <1>3. CASE ~WellFormed(accept)
    <2>1. ParseAcceptLanguage(accept) = <<>>
      BY <1>3 DEF WellFormed, ParseAcceptLanguage
    <2> QED
      BY <1>1, <1>3, <2>1 DEF Reach, Entries
  <1> QED
    BY <1>2, <1>3

\* The three lists of go-i18n, one after the other.
LEMMA SpokenIs ==
  ASSUME default \in Tags, loaded \subseteq Tags,
         NEW force \in Tags \cup {Malformed, Unset}, NEW accept \in Header
  PROVE  /\ force \in Languages => Spoken(force, accept) = force
         /\ force \notin Languages /\ WellFormed(accept) /\ Acceptable(accept) # {} =>
              \E i : Best(accept, i) /\ Spoken(force, accept) = accept[i].tag
         /\ force \notin Languages /\ (~WellFormed(accept) \/ Acceptable(accept) = {}) =>
              Spoken(force, accept) = default
  <1>1. PICK a \in Entries : a = ParseAcceptLanguage(Alone(force))
    BY AloneParsed
  <1>2. PICK b \in Entries : b = ParseAcceptLanguage(accept)
    BY HeaderParsed
  <1>3. PICK c \in Entries : c = Alone(default)
    BY AloneParsed
  <1>4. Spoken(force, accept) = Match((a \o b) \o c) /\ a \o b \in Entries
    BY <1>1, <1>2, <1>3, ConcatProperties DEF Spoken, Entries
  <1>5. CASE force \in Languages
    <2>1. Reach(a) # {} /\ Match(a) = force
      BY <1>1, <1>5, AloneParsed
    <2>2. Reach(a \o b) # {} /\ Match(a \o b) = force
      BY <2>1, MatchJoined
    <2> QED
      BY <1>4, <1>5, <2>2, MatchJoined
  <1>6. CASE force \notin Languages
    <2>1. Reach(a) = {}
      BY <1>1, <1>6, AloneParsed
    <2>2. CASE WellFormed(accept) /\ Acceptable(accept) # {}
      <3>1. PICK i : Best(accept, i) /\ Match(b) = accept[i].tag
        BY <1>2, <2>2, HeaderParsed
      <3>2. Reach(b) # {}
        BY <1>2, <2>2, HeaderParsed
      <3>3. Match(a \o b) = Match(b)
        BY <2>1, MatchJoined
      <3>4. Reach(a \o b) # {}
        <4>1. ASSUME Reach(a \o b) = {} PROVE FALSE
          <5>1. Len(a) \in Nat /\ Len(b) \in Nat /\ DOMAIN b = 1..Len(b)
            BY LenProperties DEF Entries
          <5>2. PICK k \in 1..Len(b) : b[k].tag \in Languages
            BY <3>2, <5>1 DEF Reach
          <5>3. Len(a) + k \in DOMAIN (a \o b) /\ (a \o b)[Len(a) + k] = b[k]
            BY <5>1, ConcatProperties, LenProperties DEF Entries
          <5> QED
            BY <4>1, <5>2, <5>3 DEF Reach
        <4> QED
          BY <4>1
      <3> QED
        BY <1>4, <1>6, <2>2, <3>1, <3>3, <3>4, MatchJoined
    <2>3. CASE ~WellFormed(accept) \/ Acceptable(accept) = {}
      <3>1. Reach(b) = {}
        BY <1>2, <2>3, HeaderParsed
      <3>2. Reach(a \o b) = {}
        BY <2>1, <3>1, MatchJoined
      <3>3. Match((a \o b) \o c) = Match(c)
        BY <1>4, <3>2, MatchJoined
      <3>4. Match(c) = default
        <4>1. Alone(default) = <<[tag |-> default, q |-> Full]>>
          BY LanguageAssumption DEF Alone
        <4>2. c[1].tag = default /\ DOMAIN c = {1}
          BY <1>3, <4>1
        <4>3. \A k \in Reach(c) : Match(c) = default
          BY <4>2, MatchFirst DEF Reach
        <4>4. Reach(c) # {}
          BY <4>2 DEF Reach, Languages
        <4> QED
          BY <4>3, <4>4
      <3> QED
        BY <1>4, <1>6, <2>3, <3>3, <3>4
    <2> QED
      BY <1>6, <2>2, <2>3
  <1> QED
    BY <1>5, <1>6

\* The texts of a page are in the forced language, the best of the header or the default
\* one (Bundle.Localizer, goi18n.NewLocalizer).
THEOREM TextInBestLanguageCorrect == LanguageSpec => []TextInBestLanguage
  <1>1. LanguageInv => TextInBestLanguage
    <2> SUFFICES ASSUME LanguageInv, localizer # Unset PROVE TextInBestLanguage
      BY DEF TextInBestLanguage
    <2>1. PICK force \in Tags \cup {Malformed, Unset}, accept \in Header :
             force = localizer.force /\ accept = localizer.accept
      BY DEF LanguageInv
    <2>2. localizer.spoken = Spoken(force, accept) /\ default \in Tags /\ loaded \subseteq Tags
      BY <2>1 DEF LanguageInv
    <2>3. accept \in Entries
      BY HeaderParsed
    <2>4. \A i, j : Best(accept, i) /\ Best(accept, j) => i = j
      BY <2>3, BestUnique
    <2>5. force \in Languages => Spoken(force, accept) = force
      BY <2>2, SpokenIs
    <2>6. force \notin Languages /\ WellFormed(accept) /\ Acceptable(accept) # {} =>
            \E i : Best(accept, i) /\ Spoken(force, accept) = accept[i].tag
      BY <2>2, SpokenIs
    <2>7. force \notin Languages /\ ~(WellFormed(accept) /\ Acceptable(accept) # {}) =>
            Spoken(force, accept) = default
      BY <2>2, SpokenIs
    <2> QED
      BY <2>1, <2>2, <2>4, <2>5, <2>6, <2>7 DEF TextInBestLanguage
  <1> QED
    BY <1>1, LanguageInvInit, LanguageInvNext, PTL DEF LanguageSpec

\* The one list of Localizer: the forced language m entries long, the header, the default.
LEMMA LangListed ==
  ASSUME default \in Tags, loaded \subseteq Tags,
         NEW force \in Tags \cup {Unset}, NEW accept \in Header, WellFormed(accept)
  PROVE  \E J \in Entries, m \in 0..1 :
           /\ DOMAIN J = 1..(m + Len(accept) + 1) /\ Len(accept) \in Nat
           /\ force \in Languages => m = 1
           /\ m = 1 => J[1].tag = force /\ J[1].q = Full
           /\ \A k \in 1..Len(accept) : J[m + k] = accept[k]
           /\ J[m + Len(accept) + 1].tag = default /\ J[m + Len(accept) + 1].q = Full
           /\ \E i : Best(J, i) /\ Lang(force, accept) = J[i].tag
  <1>0. Malformed \notin Tags /\ Unset \notin Tags /\ Full \in Nat \ {Dropped} /\ Languages \subseteq Tags
    BY LanguageAssumption DEF Languages
  <1>1. PICK n \in Nat : n = Len(accept) /\ DOMAIN accept = 1..n /\ accept \in Entries
    BY HeaderParsed, LenProperties DEF Entries
  <1>2. PICK F \in Entries, m \in 0..1 :
          /\ F = Alone(force) /\ Len(F) = m /\ (force \in Languages => m = 1)
          /\ (m = 1 => F[1].tag = force /\ F[1].q = Full /\ force \in Tags)
    <2>1. CASE force = Unset
      <3>1. Alone(force) = <<>> /\ <<>> \in Entries /\ Len(<<>>) = 0
        BY <2>1 DEF Alone, Entries
      <3> QED
        BY <1>0, <2>1, <3>1
    <2>2. CASE force # Unset
      <3>1. PICK e : e = [tag |-> force, q |-> Full]
        OBVIOUS
      <3>2. e \in Entry /\ e.tag = force /\ e.q = Full /\ Alone(force) = <<e>> /\ force \in Tags
        BY <1>0, <2>2, <3>1 DEF Entry, Dropped, Alone
      <3>3. <<e>> \in Entries /\ Len(<<e>>) = 1 /\ <<e>>[1] = e
        BY <3>2 DEF Entries
      <3> QED
        BY <3>2, <3>3
    <2> QED
      BY <2>1, <2>2
  <1>3. PICK D \in Entries : D = Alone(default) /\ Len(D) = 1 /\ D[1].tag = default /\ D[1].q = Full
    <2>1. PICK e : e = [tag |-> default, q |-> Full]
      OBVIOUS
    <2>2. e \in Entry /\ e.tag = default /\ e.q = Full /\ Alone(default) = <<e>>
      BY <1>0, <2>1 DEF Entry, Dropped, Alone
    <2>3. <<e>> \in Entries /\ Len(<<e>>) = 1 /\ <<e>>[1] = e
      BY <2>2 DEF Entries
    <2> QED
      BY <2>2, <2>3
  <1>4. PICK H : H = F \o accept
    OBVIOUS
  <1>5. /\ H \in Entries /\ Len(H) = m + n
        /\ \A k \in 1..(m + n) : H[k] = IF k <= m THEN F[k] ELSE accept[k - m]
    <2>1. F \in Seq(Entry) /\ accept \in Seq(Entry)
      BY <1>1 DEF Entries
    <2> QED
      BY <1>1, <1>2, <1>4, <2>1, ConcatProperties DEF Entries
  <1>6. PICK J : J = H \o D
    OBVIOUS
  <1>7. /\ J \in Entries /\ Len(J) = m + n + 1
        /\ \A k \in 1..(m + n + 1) : J[k] = IF k <= m + n THEN H[k] ELSE D[k - (m + n)]
    <2>1. H \in Seq(Entry) /\ D \in Seq(Entry)
      BY <1>5 DEF Entries
    <2>2. /\ J \in Seq(Entry) /\ Len(J) = Len(H) + Len(D)
          /\ \A k \in 1..(Len(H) + Len(D)) : J[k] = IF k <= Len(H) THEN H[k] ELSE D[k - Len(H)]
      BY <1>6, <2>1, ConcatProperties
    <2> QED
      BY <1>3, <1>5, <2>2 DEF Entries
  <1>8. DOMAIN J = 1..(m + n + 1)
    BY <1>7, LenProperties DEF Entries
  <1>9. m = 1 => J[1].tag = force /\ J[1].q = Full
    BY <1>2, <1>5, <1>7
  <1>10. \A k \in 1..n : J[m + k] = accept[k]
    <2> SUFFICES ASSUME NEW k \in 1..n PROVE J[m + k] = accept[k]
      OBVIOUS
    <2>1. m + k \in 1..(m + n) /\ ~(m + k <= m) /\ (m + k) - m = k /\ m + k <= m + n
          /\ m + k \in 1..(m + n + 1)
      OBVIOUS
    <2> QED
      BY <1>5, <1>7, <2>1
  <1>11. J[m + n + 1] = D[1]
    <2>1. m + n + 1 \in 1..(m + n + 1) /\ ~(m + n + 1 <= m + n) /\ (m + n + 1) - (m + n) = 1
      OBVIOUS
    <2> QED
      BY <1>7, <2>1
  <1>12. WellFormed(J)
    <2> SUFFICES ASSUME NEW k \in 1..(m + n + 1) PROVE J[k].tag # Malformed
      BY <1>8 DEF WellFormed
    <2>1. CASE k <= m
      <3>1. m = 1 /\ k = 1
        BY <2>1
      <3> QED
        BY <1>0, <1>2, <1>9, <3>1
    <2>2. CASE k > m /\ k <= m + n
      <3>1. k - m \in 1..n /\ m + (k - m) = k
        BY <2>2
      <3>2. J[k] = accept[k - m]
        BY <1>10, <3>1
      <3> QED
        BY <1>1, <3>1, <3>2 DEF WellFormed
    <2>3. CASE k = m + n + 1
      BY <1>0, <1>3, <1>11, <2>3
    <2> QED
      BY <2>1, <2>2, <2>3
  <1>13. Acceptable(J) # {}
    <2>1. m + n + 1 \in Acceptable(J)
      BY <1>0, <1>3, <1>8, <1>11 DEF Acceptable, Languages
    <2> QED
      BY <2>1
  <1>14. \E i : Best(J, i) /\ Lang(force, accept) = J[i].tag
    <2>1. Lang(force, accept) = Match(ParseAcceptLanguage(J))
      BY <1>2, <1>3, <1>4, <1>6 DEF Lang
    <2> QED
      BY <1>7, <1>12, <1>13, <2>1, MatchParsed
  <1> QED
    BY <1>1, <1>2, <1>3, <1>7, <1>8, <1>9, <1>10, <1>11, <1>14

\* At full weight the one list decides as the three.
LEMMA LangIs ==
  ASSUME default \in Tags, loaded \subseteq Tags,
         NEW force \in Tags \cup {Unset}, NEW accept \in Header, WellFormed(accept)
  PROVE  /\ force \in Languages => Lang(force, accept) = force
         /\ force \notin Languages /\ Acceptable(accept) = {} => Lang(force, accept) = default
         /\ \A i : /\ force \notin Languages /\ Best(accept, i) /\ accept[i].q = Full
                   => Lang(force, accept) = accept[i].tag
  <1>1. PICK J \in Entries, m \in 0..1 :
           /\ DOMAIN J = 1..(m + Len(accept) + 1) /\ Len(accept) \in Nat
           /\ force \in Languages => m = 1
           /\ m = 1 => J[1].tag = force /\ J[1].q = Full
           /\ \A k \in 1..Len(accept) : J[m + k] = accept[k]
           /\ J[m + Len(accept) + 1].tag = default /\ J[m + Len(accept) + 1].q = Full
           /\ \E i : Best(J, i) /\ Lang(force, accept) = J[i].tag
    BY LangListed
  <1>2. PICK n \in Nat : n = Len(accept)
    BY <1>1
  <1>3. PICK b : Best(J, b) /\ Lang(force, accept) = J[b].tag
    BY <1>1
  <1>4. \A i : Best(J, i) => Lang(force, accept) = J[i].tag
    BY <1>3, BestUnique
  <1>5. \A k \in DOMAIN J : k \in Nat /\ J[k].q \in Nat /\ J[k].q <= Full
    <2> SUFFICES ASSUME NEW k \in DOMAIN J PROVE k \in Nat /\ J[k].q \in Nat /\ J[k].q <= Full
      OBVIOUS
    <2>1. J[k] \in Entry /\ k \in Nat
      BY <1>1, ElementOfSeq, LenProperties DEF Entries
    <2> QED
      BY <2>1, LanguageAssumption DEF Entry, Dropped
  <1>6. Full \in Nat \ {Dropped} /\ DOMAIN accept = 1..n
    <2>1. accept \in Entries
      BY HeaderParsed
    <2> QED
      BY <1>2, <2>1, LanguageAssumption, LenProperties DEF Entries
  <1>7. ASSUME force \in Languages PROVE Lang(force, accept) = force
    <2>1. m = 1 /\ J[1].tag = force /\ J[1].q = Full /\ 1 \in DOMAIN J
      BY <1>1, <1>2, <1>7
    <2>2. 1 \in Acceptable(J)
      BY <1>6, <1>7, <2>1 DEF Acceptable
    <2>3. ASSUME NEW j \in Acceptable(J) \ {1}
          PROVE  J[j].q < J[1].q \/ (J[j].q = J[1].q /\ 1 < j)
      <3>1. j \in DOMAIN J /\ j # 1 /\ j \in 1..(m + n + 1)
        BY <1>1, <1>2 DEF Acceptable
      <3> QED
        BY <1>5, <2>1, <3>1
    <2>4. Best(J, 1)
      BY <2>2, <2>3 DEF Best
    <2> QED
      BY <1>4, <2>1, <2>4
  <1>8. ASSUME force \notin Languages, NEW j \in Acceptable(J), j # m + n + 1
        PROVE  j - m \in Acceptable(accept) /\ J[j] = accept[j - m] /\ j < m + n + 1
    <2>1. j \in 1..(m + n + 1) /\ J[j].q # Dropped /\ J[j].tag \in Languages
      BY <1>1, <1>2 DEF Acceptable
    <2>2. ~(j <= m)
      <3>1. ASSUME j <= m PROVE FALSE
        <4>1. m = 1 /\ j = 1
          BY <2>1, <3>1
        <4> QED
          BY <1>1, <1>8, <2>1, <4>1
      <3> QED
        BY <3>1
    <2>3. j - m \in 1..n /\ m + (j - m) = j /\ j < m + n + 1
      BY <1>8, <2>1, <2>2
    <2>4. J[j] = accept[j - m]
      BY <1>1, <1>2, <2>3
    <2> QED
      BY <1>6, <2>1, <2>3, <2>4 DEF Acceptable
  <1>9. ASSUME force \notin Languages, Acceptable(accept) = {} PROVE Lang(force, accept) = default
    <2>1. b \in Acceptable(J)
      BY <1>3 DEF Best
    <2>2. b = m + n + 1
      BY <1>8, <1>9, <2>1
    <2> QED
      BY <1>1, <1>2, <1>3, <2>2
  <1>10. ASSUME NEW i, force \notin Languages, Best(accept, i), accept[i].q = Full
         PROVE  Lang(force, accept) = accept[i].tag
    <2>1. i \in 1..n /\ accept[i].tag \in Languages
      BY <1>6, <1>10 DEF Best, Acceptable
    <2>2. m + i \in 1..(m + n + 1) /\ m + i < m + n + 1 /\ J[m + i] = accept[i]
      BY <1>1, <1>2, <2>1
    <2>3. m + i \in Acceptable(J)
      BY <1>1, <1>2, <1>6, <1>10, <2>1, <2>2 DEF Acceptable
    <2>4. ASSUME NEW j \in Acceptable(J) \ {m + i}
          PROVE  J[j].q < J[m + i].q \/ (J[j].q = J[m + i].q /\ m + i < j)
      <3>1. j \in DOMAIN J
        BY DEF Acceptable
      <3>2. CASE j = m + n + 1
        BY <1>1, <1>2, <1>10, <2>2, <3>2
      <3>3. CASE j # m + n + 1
        <4>1. j - m \in Acceptable(accept) /\ J[j] = accept[j - m]
          BY <1>8, <1>10, <3>3
        <4>2. j - m # i
          BY <1>5, <2>1, <3>1
        <4>3. accept[j - m].q < accept[i].q \/ (accept[j - m].q = accept[i].q /\ i < j - m)
          BY <1>10, <4>1, <4>2 DEF Best
        <4>4. j \in Nat
          BY <1>5, <3>1
        <4> QED
          BY <2>1, <2>2, <4>1, <4>3, <4>4
      <3> QED
        BY <3>2, <3>3
    <2>5. Best(J, m + i)
      BY <2>3, <2>4 DEF Best
    <2> QED
      BY <1>4, <2>2, <2>5
  <1> QED
    BY <1>7, <1>9, <1>10

\* Lang() names the language of the texts where a full weight decides
\* (Bundle.Localizer).
THEOREM LangNamesTextCorrect == LanguageSpec => []LangNamesText
  <1>1. LanguageInv => LangNamesText
    <2> SUFFICES ASSUME LanguageInv, localizer # Unset,
                        localizer.force # Malformed, WellFormed(localizer.accept),
                        \/ localizer.force \in Languages
                        \/ Acceptable(localizer.accept) = {}
                        \/ \E i \in Acceptable(localizer.accept) : localizer.accept[i].q = Full
                 PROVE  localizer.lang = localizer.spoken
      BY DEF LangNamesText
    <2>1. PICK force \in Tags \cup {Unset}, accept \in Header :
             force = localizer.force /\ accept = localizer.accept
      BY DEF LanguageInv
    <2>2. /\ localizer.spoken = Spoken(force, accept) /\ localizer.lang = Lang(force, accept)
          /\ default \in Tags /\ loaded \subseteq Tags /\ WellFormed(accept)
      BY <2>1 DEF LanguageInv
    <2>3. /\ force \in Languages => Spoken(force, accept) = force
          /\ force \notin Languages /\ Acceptable(accept) # {} =>
               \E i : Best(accept, i) /\ Spoken(force, accept) = accept[i].tag
          /\ force \notin Languages /\ Acceptable(accept) = {} => Spoken(force, accept) = default
      BY <2>2, SpokenIs
    <2>4. /\ force \in Languages => Lang(force, accept) = force
          /\ force \notin Languages /\ Acceptable(accept) = {} => Lang(force, accept) = default
          /\ \A i : /\ force \notin Languages /\ Best(accept, i) /\ accept[i].q = Full
                    => Lang(force, accept) = accept[i].tag
      BY <2>2, LangIs
    <2>5. CASE force \in Languages \/ Acceptable(accept) = {}
      BY <2>2, <2>3, <2>4, <2>5
    <2>6. CASE force \notin Languages /\ \E i \in Acceptable(accept) : accept[i].q = Full
      <3>1. PICK i : Best(accept, i) /\ Spoken(force, accept) = accept[i].tag
        BY <2>3, <2>6
      <3>2. \A j \in DOMAIN accept : accept[j].q \in Nat /\ accept[j].q <= Full
        <4> SUFFICES ASSUME NEW j \in DOMAIN accept
                     PROVE  accept[j].q \in Nat /\ accept[j].q <= Full
          OBVIOUS
        <4>1. accept[j] \in Entry
          BY HeaderParsed, ElementOfSeq, LenProperties DEF Entries
        <4> QED
          BY <4>1, LanguageAssumption DEF Entry, Dropped
      <3>3. accept[i].q = Full
        <4>1. PICK j \in Acceptable(accept) : accept[j].q = Full
          BY <2>6
        <4>2. i \in DOMAIN accept /\ j \in DOMAIN accept
          BY <3>1 DEF Best, Acceptable
        <4>3. j # i => accept[j].q <= accept[i].q
          BY <3>1, <3>2, <4>2 DEF Best
        <4> QED
          BY <3>2, <4>1, <4>2, <4>3, LanguageAssumption
      <3> QED
        BY <2>2, <2>4, <2>6, <3>1, <3>3
    <2> QED
      BY <2>1, <2>5, <2>6
  <1> QED
    BY <1>1, LanguageInvInit, LanguageInvNext, PTL DEF LanguageSpec

--------------------------------------------------------------------------------
(* Placeholders. *)

\* The digits stand for the numbers below ten, and are no markers.
LEMMA DigitFacts ==
  /\ "$" \notin Digits /\ "$" \in Characters
  /\ \A v \in 0..9 : Digit[v + 1] \in Digits /\ Digit[v + 1] \in Characters /\ Digit[v + 1] # "$"
                     /\ Value(Digit[v + 1]) = v
  <1>1. \A v, w \in 0..9 : Digit[v + 1] = Digit[w + 1] => v = w
    BY SMTT(30) DEF Digit
  <1>2. ASSUME NEW v \in 0..9
        PROVE  Digit[v + 1] \in Digits /\ Digit[v + 1] \in Characters /\ Digit[v + 1] # "$"
    <2>1. v + 1 \in 1..10
      OBVIOUS
    <2>2. Digit[v + 1] \in {"0", "1", "2", "3", "4", "5", "6", "7", "8", "9"}
      BY <2>1, SMTT(30) DEF Digit
    <2>3. Digit[v + 1] # "$"
      BY <2>2
    <2> QED
      BY <2>1, <2>3, StatementsAssumption DEF Digits
  <1>3. "$" \notin Digits /\ "$" \in Characters
    BY StatementsAssumption DEF Digits, Digit
  <1>4. ASSUME NEW v \in 0..9 PROVE Value(Digit[v + 1]) = v
    BY <1>1 DEF Value
  <1> QED
    BY <1>2, <1>3, <1>4

\* The digits of a number of two.
LEMMA TwoDigits ==
  ASSUME NEW n \in 10..99
  PROVE  n \div 10 \in 1..9 /\ n % 10 \in 0..9 /\ 10 * (n \div 10) + (n % 10) = n
  BY Z3

\* What is joined is read one after the other.
LEMMA TextJoined ==
  ASSUME NEW t \in Seq(Characters), NEW w \in Seq(Characters)
  PROVE  /\ t \o w \in Seq(Characters) /\ Len(t \o w) = Len(t) + Len(w)
         /\ Len(t) \in Nat /\ Len(w) \in Nat
         /\ \A i \in 1..Len(t) : (t \o w)[i] = t[i]
         /\ \A i \in 1..Len(w) : (t \o w)[Len(t) + i] = w[i]
  <1>1. Len(t) \in Nat /\ Len(w) \in Nat
    OBVIOUS
  <1>2. /\ t \o w \in Seq(Characters) /\ Len(t \o w) = Len(t) + Len(w)
        /\ \A i \in 1..(Len(t) + Len(w)) :
              (t \o w)[i] = IF i <= Len(t) THEN t[i] ELSE w[i - Len(t)]
    BY ConcatProperties
  <1>3. ASSUME NEW i \in 1..Len(w) PROVE (t \o w)[Len(t) + i] = w[i]
    <2>1. Len(t) + i \in 1..(Len(t) + Len(w)) /\ ~(Len(t) + i <= Len(t)) /\ (Len(t) + i) - Len(t) = i
      BY <1>1
    <2> QED
      BY <1>2, <2>1
  <1> QED
    BY <1>1, <1>2, <1>3

\* One character is a text.
LEMMA OneCharacter ==
  ASSUME NEW c \in Characters
  PROVE  \E w \in Seq(Characters) : w = <<c>> /\ Len(w) = 1 /\ w[1] = c
  <1>1. <<c>> \in Seq(Characters) /\ Len(<<c>>) = 1 /\ <<c>>[1] = c
    OBVIOUS
  <1> QED
    BY <1>1

\* The text of a number below a hundred.
LEMMA ItoaIs ==
  ASSUME NEW n \in 1..99
  PROVE  /\ Itoa(n) \in Seq(Characters) /\ Len(Itoa(n)) = IF n < 10 THEN 1 ELSE 2
         /\ \A i \in 1..Len(Itoa(n)) : Itoa(n)[i] # "$"
         /\ n < 10 => Itoa(n)[1] = Digit[n + 1]
         /\ n >= 10 => /\ n \div 10 \in 1..9 /\ n % 10 \in 0..9 /\ 10 * (n \div 10) + (n % 10) = n
                       /\ Itoa(n)[1] = Digit[(n \div 10) + 1] /\ Itoa(n)[2] = Digit[(n % 10) + 1]
  <1>1. CASE n < 10
    <2>1. n % 10 = n
      BY <1>1, Z3
    <2>2. PICK b \in Characters : b = Digit[n + 1] /\ b # "$"
      BY <1>1, DigitFacts
    <2>3. Itoa(n) = <<>> \o <<b>>
      BY <1>1, <2>1, <2>2 DEF Itoa
    <2>4. <<>> \in Seq(Characters) /\ <<b>> \in Seq(Characters) /\ Len(<<>>) = 0 /\ Len(<<b>>) = 1
          /\ <<b>>[1] = b
      OBVIOUS
    <2>5. Itoa(n) \in Seq(Characters) /\ Len(Itoa(n)) = 1 /\ Itoa(n)[1] = b
      <3>1. 1 \in 1..Len(<<b>>) /\ Len(<<>>) + 1 = 1 /\ Len(<<>>) + Len(<<b>>) = 1
        BY <2>4
      <3> QED
        BY <2>3, <2>4, <3>1, TextJoined
    <2> QED
      BY <1>1, <2>2, <2>5
  <1>2. CASE ~(n < 10)
    <2>1. n \in 10..99
      BY <1>2
    <2>2. n \div 10 \in 1..9 /\ n % 10 \in 0..9 /\ 10 * (n \div 10) + (n % 10) = n
      BY <2>1, TwoDigits
    <2>3. PICK a, b \in Characters : a = Digit[(n \div 10) + 1] /\ b = Digit[(n % 10) + 1]
                                /\ a # "$" /\ b # "$"
      <3>1. n \div 10 \in 0..9
        BY <2>2
      <3> QED
        BY <2>2, <3>1, DigitFacts
    <2>4. Itoa(n) = <<a>> \o <<b>>
      BY <1>2, <2>3 DEF Itoa
    <2>5. <<a>> \in Seq(Characters) /\ <<b>> \in Seq(Characters) /\ Len(<<a>>) = 1 /\ Len(<<b>>) = 1
          /\ <<a>>[1] = a /\ <<b>>[1] = b
      OBVIOUS
    <2>6. Itoa(n) \in Seq(Characters) /\ Len(Itoa(n)) = 2 /\ Itoa(n)[1] = a /\ Itoa(n)[2] = b
      <3>1. 1 \in 1..Len(<<a>>) /\ 1 \in 1..Len(<<b>>) /\ Len(<<a>>) + 1 = 2
            /\ Len(<<a>>) + Len(<<b>>) = 2
        BY <2>5
      <3> QED
        BY <2>4, <2>5, <3>1, TextJoined
    <2>7. \A i \in 1..Len(Itoa(n)) : i = 1 \/ i = 2
      BY <2>6
    <2> QED
      BY <1>2, <2>2, <2>3, <2>6, <2>7
  <1> QED
    BY <1>1, <1>2

Dollars(t) == {i \in 1..Len(t) : t[i] = "$"}
DollarsUpTo(t, p) == Cardinality({j \in Dollars(t) : j <= p})

\* The number k is written after the "$" at p, and ends where PostgreSQL stops reading.
Spelled(t, p, k) ==
  /\ p + 1 <= Len(t)
  /\ IF k < 10 THEN t[p + 1] = Digit[k + 1] /\ (p + 2 <= Len(t) => t[p + 2] \notin Digits)
     ELSE /\ p + 2 <= Len(t)
          /\ t[p + 1] = Digit[(k \div 10) + 1] /\ t[p + 2] = Digit[(k % 10) + 1]

\* The text holds n placeholders and numbers them in their order.
Numbered(t, n) ==
  /\ t \in Seq(Characters) /\ IsFiniteSet(Dollars(t)) /\ Cardinality(Dollars(t)) = n
  /\ \A p \in Dollars(t) : DollarsUpTo(t, p) \in 1..n /\ Spelled(t, p, DollarsUpTo(t, p))

\* No number ends the text, so that a digit may follow.
Closed(t) == \A p \in Dollars(t) : p + 2 <= Len(t)

\* PostgreSQL reads the number that is spelled.
LEMMA SpelledRead ==
  ASSUME NEW t \in Seq(Characters), NEW p \in Nat \ {0}, NEW k \in 1..99, Spelled(t, p, k)
  PROVE  NumberAt("postgres", t, p) = k
  <1>0. DOMAIN t = 1..Len(t) /\ Len(t) \in Nat
    OBVIOUS
  <1>1. CASE k < 10
    <2>1. t[p + 1] = Digit[k + 1] /\ ~(p + 2 \in DOMAIN t /\ t[p + 2] \in Digits)
      BY <1>0, <1>1 DEF Spelled
    <2>2. Value(t[p + 1]) = k
      BY <1>1, <2>1, DigitFacts
    <2> QED
      BY <2>1, <2>2 DEF NumberAt
  <1>2. CASE ~(k < 10)
    <2>1. PICK a, b \in 0..9 : a = k \div 10 /\ b = k % 10 /\ 10 * a + b = k
      <3>1. k \in 10..99
        BY <1>2
      <3>2. k \div 10 \in 1..9 /\ k % 10 \in 0..9 /\ 10 * (k \div 10) + (k % 10) = k
        BY <3>1, TwoDigits
      <3>3. k \div 10 \in 0..9
        BY <3>2
      <3> QED
        BY <3>2, <3>3
    <2>2. t[p + 1] = Digit[a + 1] /\ t[p + 2] = Digit[b + 1] /\ p + 2 \in DOMAIN t
      BY <1>0, <1>2, <2>1 DEF Spelled
    <2>3. Value(t[p + 1]) = a /\ Value(t[p + 2]) = b /\ t[p + 2] \in Digits
      BY <2>2, DigitFacts
    <2> QED
      BY <2>1, <2>2, <2>3 DEF NumberAt
  <1> QED
    BY <1>1, <1>2

\* A longer text spells what it spelled, when no digit is added to a number.
LEMMA StillSpelled ==
  ASSUME NEW t \in Seq(Characters), NEW w \in Seq(Characters), NEW p \in Dollars(t), NEW k \in 1..99,
         Spelled(t, p, k), w # <<>>, p + 2 <= Len(t) \/ w[1] \notin Digits
  PROVE  Spelled(t \o w, p, k)
  <1>1. PICK u \in Seq(Characters) : u = t \o w
    BY TextJoined
  <1>2. /\ Len(t) \in Nat /\ Len(w) \in Nat /\ Len(u) = Len(t) + Len(w)
        /\ \A i \in 1..Len(t) : u[i] = t[i]
        /\ \A i \in 1..Len(w) : u[Len(t) + i] = w[i]
    BY <1>1, TextJoined
  <1>3. 1 \in 1..Len(w)
    BY <1>2
  <1>4. p \in 1..Len(t) /\ p + 1 \in 1..Len(t)
    BY <1>2 DEF Dollars, Spelled
  <1>5. u[p + 1] = t[p + 1] /\ p + 1 <= Len(u)
    BY <1>2, <1>4
  <1>6. CASE p + 2 <= Len(t)
    <2>1. p + 2 \in 1..Len(t) /\ p + 2 <= Len(u)
      BY <1>2, <1>4, <1>6
    <2>2. u[p + 2] = t[p + 2]
      BY <1>2, <2>1
    <2>3. Spelled(u, p, k)
      BY <1>5, <1>6, <2>1, <2>2 DEF Spelled
    <2> QED
      BY <1>1, <2>3
  <1>7. CASE ~(p + 2 <= Len(t))
    <2>1. p + 2 = Len(t) + 1
      BY <1>2, <1>4, <1>7
    <2>2. u[p + 2] = w[1] /\ w[1] \notin Digits
      BY <1>2, <1>3, <1>7, <2>1
    <2>3. k < 10
      BY <1>7 DEF Spelled
    <2>4. Spelled(u, p, k)
      BY <1>5, <2>2, <2>3 DEF Spelled
    <2> QED
      BY <1>1, <2>4
  <1> QED
    BY <1>6, <1>7

\* A character of the text leaves the placeholders as they were.
LEMMA TextAfter ==
  ASSUME NEW t \in Seq(Characters), NEW n \in 0..99, NEW c \in Characters, Numbered(t, n), c # "$",
         Closed(t) \/ c \notin Digits
  PROVE  Numbered(t \o <<c>>, n) /\ Closed(t \o <<c>>)
  <1>1. PICK w \in Seq(Characters) : w = <<c>> /\ Len(w) = 1 /\ w[1] = c
    BY OneCharacter
  <1>2. PICK u \in Seq(Characters) : u = t \o w
    BY TextJoined
  <1>3. /\ Len(t) \in Nat /\ Len(u) = Len(t) + 1 /\ u[Len(t) + 1] = c
        /\ \A i \in 1..Len(t) : u[i] = t[i]
    <2>1. 1 \in 1..Len(w)
      BY <1>1
    <2> QED
      BY <1>1, <1>2, <2>1, TextJoined
  <1>4. Dollars(u) = Dollars(t)
    <2>1. \A i \in 1..Len(u) : i \in 1..Len(t) \/ i = Len(t) + 1
      BY <1>3
    <2>2. \A i \in 1..Len(t) : i \in 1..Len(u)
      BY <1>3
    <2> QED
      BY <1>3, <2>1, <2>2 DEF Dollars
  <1>5. ASSUME NEW p \in Dollars(t)
        PROVE  DollarsUpTo(u, p) \in 1..n /\ Spelled(u, p, DollarsUpTo(u, p)) /\ p + 2 <= Len(u)
    <2>1. DollarsUpTo(u, p) = DollarsUpTo(t, p)
      BY <1>4 DEF DollarsUpTo
    <2>2. DollarsUpTo(t, p) \in 1..n /\ Spelled(t, p, DollarsUpTo(t, p))
      BY DEF Numbered
    <2>3. PICK k \in 1..n : k = DollarsUpTo(t, p)
      BY <2>2
    <2> k \in 1..99
      OBVIOUS
    <2>4. p + 2 <= Len(t) \/ w[1] \notin Digits
      BY <1>1 DEF Closed
    <2>5. w # <<>>
      BY <1>1
    <2>6. Spelled(t \o w, p, k)
      BY <2>2, <2>3, <2>4, <2>5, StillSpelled
    <2>7. p \in 1..Len(t) /\ p + 1 <= Len(t)
      BY <2>2 DEF Spelled, Dollars
    <2> QED
      BY <1>2, <1>3, <2>1, <2>2, <2>3, <2>6, <2>7
  <1>6. IsFiniteSet(Dollars(u)) /\ Cardinality(Dollars(u)) = n
    BY <1>4 DEF Numbered
  <1>7. Numbered(u, n) /\ Closed(u)
    BY <1>4, <1>5, <1>6 DEF Numbered, Closed
  <1> QED
    BY <1>1, <1>2, <1>7

\* A marker adds the next placeholder.
LEMMA MarkerAfter ==
  ASSUME NEW t \in Seq(Characters), NEW n \in 0..98, Numbered(t, n)
  PROVE  Numbered(t \o (<<"$">> \o Itoa(n + 1)), n + 1)
  <1>1. PICK k \in 1..99 : k = n + 1
    OBVIOUS
  <1>2. PICK x \in Seq(Characters) : x = Itoa(k)
    BY ItoaIs
  <1>3. /\ Len(x) = IF k < 10 THEN 1 ELSE 2
        /\ \A i \in 1..Len(x) : x[i] # "$"
        /\ k < 10 => x[1] = Digit[k + 1]
        /\ k >= 10 => x[1] = Digit[(k \div 10) + 1] /\ x[2] = Digit[(k % 10) + 1]
    BY <1>2, ItoaIs
  <1>4. PICK d \in Seq(Characters) : d = <<"$">> /\ Len(d) = 1 /\ d[1] = "$"
    BY DigitFacts, OneCharacter
  <1>5. PICK w \in Seq(Characters) : w = d \o x
    BY TextJoined
  <1>6. Len(w) = 1 + Len(x) /\ w[1] = "$" /\ \A i \in 1..Len(x) : w[1 + i] = x[i]
    <2>1. 1 \in 1..Len(d)
      BY <1>4
    <2> QED
      BY <1>4, <1>5, <2>1, TextJoined
  <1>7. PICK u \in Seq(Characters) : u = t \o w
    BY TextJoined
  <1>8. /\ Len(t) \in Nat /\ Len(u) = Len(t) + Len(w)
        /\ \A i \in 1..Len(t) : u[i] = t[i]
        /\ \A i \in 1..Len(w) : u[Len(t) + i] = w[i]
    BY <1>7, TextJoined
  <1>9. PICK m \in Nat : m = Len(t) + 1
    BY <1>8
  <1>10. Len(x) \in 1..2 /\ Len(u) = m + Len(x)
    BY <1>1, <1>3, <1>6, <1>8, <1>9
  <1>11. u[m] = "$"
    <2>1. 1 \in 1..Len(w)
      BY <1>6, <1>10
    <2> QED
      BY <1>6, <1>8, <1>9, <2>1
  <1>12. ASSUME NEW i \in 1..Len(x) PROVE u[m + i] = x[i]
    <2>1. 1 + i \in 1..Len(w) /\ Len(t) + (1 + i) = m + i
      BY <1>6, <1>8, <1>9, <1>10
    <2>2. u[Len(t) + (1 + i)] = w[1 + i]
      BY <1>8, <2>1
    <2> QED
      BY <1>6, <2>1, <2>2
  <1>13. Dollars(u) = Dollars(t) \cup {m}
    <2>1. ASSUME NEW i \in 1..Len(u), i > m PROVE u[i] # "$"
      <3>1. i - m \in 1..Len(x) /\ m + (i - m) = i
        BY <1>10, <2>1
      <3> QED
        BY <1>3, <1>12, <3>1
    <2>2. ASSUME NEW i \in Dollars(u) PROVE i \in Dollars(t) \/ i = m
      <3>1. i \in 1..Len(u) /\ u[i] = "$"
        BY DEF Dollars
      <3>2. i \in 1..Len(t) \/ i = m \/ i > m
        BY <1>8, <1>9, <3>1
      <3> QED
        BY <1>8, <2>1, <3>1, <3>2 DEF Dollars
    <2>3. \A i \in 1..Len(t) : i \in 1..Len(u)
      BY <1>8, <1>9, <1>10
    <2>4. m \in 1..Len(u)
      BY <1>8, <1>9, <1>10
    <2> QED
      BY <1>8, <1>11, <2>2, <2>3, <2>4 DEF Dollars
  <1>14. \A p \in Dollars(t) : p \in 1..Len(t) /\ p < m
    BY <1>8, <1>9 DEF Dollars
  <1>15. IsFiniteSet(Dollars(u)) /\ Cardinality(Dollars(u)) = k
    <2>1. m \notin Dollars(t) /\ IsFiniteSet(Dollars(t)) /\ Cardinality(Dollars(t)) = n
      BY <1>14 DEF Numbered
    <2>2. IsFiniteSet(Dollars(t) \cup {m}) /\ Cardinality(Dollars(t) \cup {m}) = n + 1
      BY <2>1, FS_AddElement
    <2> QED
      BY <1>1, <1>13, <2>2
  <1>16. ASSUME NEW p \in Dollars(t)
        PROVE  DollarsUpTo(u, p) \in 1..k /\ Spelled(u, p, DollarsUpTo(u, p))
    <2>1. {j \in Dollars(u) : j <= p} = {j \in Dollars(t) : j <= p}
      <3>1. ~(m <= p)
        BY <1>14
      <3> QED
        BY <1>13, <3>1
    <2>2. DollarsUpTo(t, p) \in 1..n /\ Spelled(t, p, DollarsUpTo(t, p))
      BY DEF Numbered
    <2>3. PICK r \in 1..n : r = DollarsUpTo(t, p)
      BY <2>2
    <2> r \in 1..99
      OBVIOUS
    <2>4. DollarsUpTo(u, p) = r
      BY <2>1, <2>3 DEF DollarsUpTo
    <2>5. w[1] \notin Digits /\ w # <<>>
      BY <1>6, <1>10, DigitFacts
    <2>6. Spelled(t \o w, p, r)
      BY <2>2, <2>3, <2>5, StillSpelled
    <2> QED
      BY <1>1, <1>7, <2>3, <2>4, <2>6
  <1>17. DollarsUpTo(u, m) = k
    <2>1. {j \in Dollars(u) : j <= m} = Dollars(u)
      BY <1>13, <1>14
    <2> QED
      BY <1>15, <2>1 DEF DollarsUpTo
  <1>18. Spelled(u, m, k)
    <2>1. CASE k < 10
      <3>1. 1 \in 1..Len(x) /\ Len(u) = m + 1
        BY <1>3, <1>10, <2>1
      <3> QED
        BY <1>3, <1>12, <2>1, <3>1 DEF Spelled
    <2>2. CASE ~(k < 10)
      <3>1. 1 \in 1..Len(x) /\ 2 \in 1..Len(x) /\ Len(u) = m + 2
        BY <1>3, <1>10, <2>2
      <3> QED
        BY <1>3, <1>12, <2>2, <3>1 DEF Spelled
    <2> QED
      BY <2>1, <2>2
  <1>19. Numbered(u, k)
    <2>1. \A p \in Dollars(u) : DollarsUpTo(u, p) \in 1..k /\ Spelled(u, p, DollarsUpTo(u, p))
      BY <1>13, <1>16, <1>17, <1>18
    <2> QED
      BY <1>15, <2>1 DEF Numbered
  <1> QED
    BY <1>1, <1>2, <1>4, <1>5, <1>7, <1>19

\* How the count of the loop grows.
LEMMA MarkersNext ==
  ASSUME NEW query \in Statements
  PROVE  /\ MarkersUpTo(query, 0) = 0
         /\ \A i \in 0..Len(query) : MarkersUpTo(query, i) \in 0..99
         /\ \A i \in 0..(Len(query) - 1) :
               MarkersUpTo(query, i + 1)
                   = IF query[i + 1] = "?" THEN MarkersUpTo(query, i) + 1 ELSE MarkersUpTo(query, i)
  <1> DEFINE M(i) == {j \in 1..i : query[j] = "?"}
  <1>0. Len(query) \in Nat
    BY StatementsAssumption
  <1>1. ASSUME NEW i \in Nat PROVE IsFiniteSet(M(i)) /\ Cardinality(M(i)) \in Nat
    <2>1. IsFiniteSet(1..i) /\ M(i) \subseteq 1..i
      BY FS_Interval
    <2> QED
      BY <2>1, FS_Subset, FS_CardinalityType
  <1>2. MarkersUpTo(query, 0) = 0
    <2>1. M(0) = {}
      OBVIOUS
    <2> QED
      BY <2>1, FS_EmptySet DEF MarkersUpTo
  <1>3. ASSUME NEW i \in 0..Len(query) PROVE MarkersUpTo(query, i) \in 0..99
    <2>1. M(i) \subseteq M(Len(query))
      BY <1>0
    <2>2. Cardinality(M(i)) <= Cardinality(M(Len(query)))
      BY <1>0, <1>1, <2>1, FS_Subset
    <2>3. Cardinality(M(Len(query))) < 100
      BY StatementsAssumption DEF MarkersUpTo
    <2>4. \A n \in Nat : Cardinality(M(n)) \in Nat
      BY <1>1
    <2>5. i \in Nat
      BY <1>0
    <2> HIDE DEF M
    <2>6. PICK a \in Nat, b \in Nat : a = Cardinality(M(i)) /\ b = Cardinality(M(Len(query)))
      BY <1>0, <2>4, <2>5
    <2>7. a <= b /\ b < 100
      BY <2>2, <2>3, <2>6
    <2>8. a \in 0..99
      BY <2>7
    <2>9. a = MarkersUpTo(query, i)
      BY <2>6 DEF M, MarkersUpTo
    <2> QED
      BY <2>8, <2>9
  <1>4. ASSUME NEW i \in 0..(Len(query) - 1)
        PROVE  MarkersUpTo(query, i + 1)
                   = IF query[i + 1] = "?" THEN MarkersUpTo(query, i) + 1 ELSE MarkersUpTo(query, i)
    <2>1. i \in Nat /\ i + 1 \notin M(i) /\ IsFiniteSet(M(i)) /\ 1..(i + 1) = (1..i) \cup {i + 1}
      BY <1>0, <1>1
    <2>2. CASE query[i + 1] = "?"
      <3>1. M(i + 1) = M(i) \cup {i + 1}
        BY <2>1, <2>2
      <3>2. Cardinality(M(i) \cup {i + 1}) = Cardinality(M(i)) + 1
        BY <2>1, FS_AddElement
      <3> QED
        BY <2>2, <3>1, <3>2 DEF MarkersUpTo
    <2>3. CASE query[i + 1] # "?"
      <3>1. M(i + 1) = M(i)
        BY <2>1, <2>3
      <3> QED
        BY <2>3, <3>1 DEF MarkersUpTo
    <2> QED
      BY <2>2, <2>3
  <1> QED
    BY <1>2, <1>3, <1>4

\* What the loop writes is text.
LEMMA WrittenType ==
  ASSUME NEW query \in Statements, NEW i \in 1..Len(query)
  PROVE  Written(query, i) \in Seq(Characters)
  <1>0. Len(query) \in Nat /\ query[i] \in Characters
    BY StatementsAssumption
  <1>1. CASE query[i] # "?"
    <2>1. PICK w \in Seq(Characters) : w = <<query[i]>>
      BY <1>0, OneCharacter
    <2> QED
      BY <1>1, <2>1 DEF Written
  <1>2. CASE query[i] = "?"
    <2>1. i - 1 \in 0..(Len(query) - 1) /\ (i - 1) + 1 = i /\ i - 1 \in 0..Len(query)
          /\ i \in 0..Len(query)
      BY <1>0
    <2>2. MarkersUpTo(query, i) = MarkersUpTo(query, i - 1) + 1
      BY <1>2, <2>1, MarkersNext
    <2>3. PICK a \in 0..99, b \in 0..99 : a = MarkersUpTo(query, i) /\ b = MarkersUpTo(query, i - 1)
      BY <2>1, MarkersNext
    <2>4. PICK k \in 1..99 : k = MarkersUpTo(query, i)
      <3>1. a = b + 1
        BY <2>2, <2>3
      <3>2. a \in 1..99
        BY <3>1
      <3> QED
        BY <2>3, <3>2
    <2>5. Itoa(k) \in Seq(Characters)
      BY ItoaIs
    <2>6. PICK d \in Seq(Characters) : d = <<"$">>
      BY DigitFacts, OneCharacter
    <2>7. d \o Itoa(k) \in Seq(Characters)
      BY <2>5, TextJoined
    <2> QED
      BY <1>2, <2>4, <2>6, <2>7 DEF Written
  <1> QED
    BY <1>1, <1>2

\* The loop writes one character after the other.
LEMMA ReboundIs ==
  ASSUME NEW query \in Statements
  PROVE  /\ Rebound(query)[0] = <<>>
         /\ \A i \in 1..Len(query) :
               Rebound(query)[i] = Rebound(query)[i - 1] \o Written(query, i)
  <1>0. Len(query) \in Nat
    BY StatementsAssumption
  <1>1. PICK step : step = [p \in Seq(Characters) \X Nat |->
                              IF p[2] \in 1..Len(query) THEN p[1] \o Written(query, p[2]) ELSE p[1]]
    OBVIOUS
  <1>2. step \in [Seq(Characters) \X Nat -> Seq(Characters)]
    <2>1. ASSUME NEW p \in Seq(Characters) \X Nat PROVE step[p] \in Seq(Characters)
      <3>1. PICK t \in Seq(Characters), i \in Nat : p = <<t, i>>
        OBVIOUS
      <3>2. i \in 1..Len(query) => t \o Written(query, i) \in Seq(Characters)
        BY WrittenType, TextJoined
      <3> QED
        BY <1>1, <3>1, <3>2
    <2> QED
      BY <1>1, <2>1
  <1>3. ASSUME NEW t \in Seq(Characters), NEW i \in 1..Len(query)
        PROVE  step[<<t, i>>] = t \o Written(query, i)
    <2>1. i \in Nat
      BY <1>0
    <2>2. <<t, i>> \in Seq(Characters) \X Nat /\ <<t, i>>[1] = t /\ <<t, i>>[2] = i
      BY <2>1
    <2> QED
      BY <1>1, <2>2
  <1>4. PICK f \in [Nat -> Seq(Characters)] : Recurs(f, <<>>, step)
    <2>1. <<>> \in Seq(Characters)
      OBVIOUS
    <2> QED
      BY <1>2, <2>1, Recursion
  <1>5. f[0] = <<>> /\ \A i \in Nat : f[i + 1] = step[<<f[i], i + 1>>]
    BY <1>4 DEF Recurs
  <1>6. ASSUME NEW i \in 1..Len(query) PROVE f[i] = f[i - 1] \o Written(query, i)
    <2>1. i - 1 \in Nat /\ (i - 1) + 1 = i
      BY <1>0
    <2>2. f[i] = step[<<f[i - 1], i>>] /\ f[i - 1] \in Seq(Characters)
      BY <1>5, <2>1
    <2> QED
      BY <1>3, <2>2
  <1>7. PICK g : g = [i \in 0..Len(query) |-> f[i]]
    OBVIOUS
  <1>8. g = [i \in 0..Len(query) |-> IF i = 0 THEN <<>> ELSE g[i - 1] \o Written(query, i)]
    <2>1. ASSUME NEW i \in 0..Len(query), i # 0 PROVE g[i] = g[i - 1] \o Written(query, i)
      <3>1. i \in 1..Len(query) /\ i - 1 \in 0..Len(query)
        BY <1>0, <2>1
      <3> QED
        BY <1>6, <1>7, <3>1
    <2>2. g[0] = <<>>
      BY <1>0, <1>5, <1>7
    <2> QED
      BY <1>7, <2>1, <2>2
  <1>9. Rebound(query) = [i \in 0..Len(query) |->
                            IF i = 0 THEN <<>> ELSE Rebound(query)[i - 1] \o Written(query, i)]
    BY <1>8 DEF Rebound
  <1>10. \A i \in 1..Len(query) : i # 0 /\ i \in 0..Len(query)
    BY <1>0
  <1>11. 0 \in 0..Len(query)
    BY <1>0
  <1> QED
    BY <1>9, <1>10, <1>11

\* What the loop has built holds the placeholders read so far, numbered in their order.
LEMMA ReboundNumbered ==
  ASSUME NEW query \in Statements, NEW n \in 0..Len(query)
  PROVE  Numbered(Rebound(query)[n], MarkersUpTo(query, n))
  <1> DEFINE R(i) == Rebound(query)[i]
             T == {i \in Nat : i <= Len(query) =>
                     /\ Numbered(R(i), MarkersUpTo(query, i))
                     /\ i = 0 \/ query[i] # "?" => Closed(R(i))}
  <1>0. Len(query) \in Nat
    BY StatementsAssumption
  <1>1. 0 \in T
    <2>1. R(0) = <<>> /\ MarkersUpTo(query, 0) = 0
      BY ReboundIs, MarkersNext
    <2>2. <<>> \in Seq(Characters) /\ Dollars(<<>>) = {}
      BY DEF Dollars
    <2>3. Numbered(<<>>, 0) /\ Closed(<<>>)
      BY <2>2, FS_EmptySet DEF Numbered, Closed
    <2> QED
      BY <2>1, <2>3
  <1>2. ASSUME NEW i \in Nat, i \in T PROVE i + 1 \in T
    <2> SUFFICES ASSUME i + 1 <= Len(query)
                 PROVE  /\ Numbered(R(i + 1), MarkersUpTo(query, i + 1))
                        /\ query[i + 1] # "?" => Closed(R(i + 1))
      <3>1. i + 1 \in Nat /\ i + 1 # 0
        OBVIOUS
      <3> QED
        BY <3>1
    <2>1. i + 1 \in 1..Len(query) /\ (i + 1) - 1 = i /\ i \in 0..(Len(query) - 1)
          /\ i \in 0..Len(query) /\ i + 1 \in 0..Len(query) /\ i <= Len(query)
      BY <1>0
    <2>2. R(i + 1) = R(i) \o Written(query, i + 1)
      BY <2>1, ReboundIs
    <2>3. PICK k \in 0..99 : k = MarkersUpTo(query, i)
      BY <2>1, MarkersNext
    <2>4. PICK t \in Seq(Characters) : t = R(i) /\ Numbered(t, k)
                                      /\ (i = 0 \/ query[i] # "?" => Closed(t))
      <3>1. Numbered(R(i), k) /\ (i = 0 \/ query[i] # "?" => Closed(R(i)))
        BY <1>2, <2>1, <2>3
      <3>2. R(i) \in Seq(Characters)
        BY <3>1 DEF Numbered
      <3> QED
        BY <3>1, <3>2
    <2> HIDE DEF T, R
    <2>5. CASE query[i + 1] # "?"
      <3>1. PICK c \in Characters : c = query[i + 1]
        BY <2>1, StatementsAssumption
      <3>2. c # "$"
        BY <2>1, <3>1, StatementsAssumption
      <3>3. Closed(t) \/ c \notin Digits
        <4>1. CASE i = 0 \/ query[i] # "?"
          BY <2>4, <4>1
        <4>2. CASE ~(i = 0) /\ query[i] = "?"
          <5>1. i \in 1..Len(query) /\ i < Len(query)
            BY <1>0, <2>1, <4>2
          <5> QED
            BY <3>1, <4>2, <5>1, StatementsAssumption
        <4> QED
          BY <4>1, <4>2
      <3>4. Numbered(t \o <<c>>, k) /\ Closed(t \o <<c>>)
        BY <2>4, <3>2, <3>3, TextAfter
      <3>5. R(i + 1) = t \o <<c>>
        BY <2>2, <2>4, <2>5, <3>1 DEF Written
      <3>6. MarkersUpTo(query, i + 1) = k
        BY <2>1, <2>3, <2>5, MarkersNext
      <3> QED
        BY <3>4, <3>5, <3>6
    <2>6. CASE query[i + 1] = "?"
      <3>1. MarkersUpTo(query, i + 1) = k + 1
        BY <2>1, <2>3, <2>6, MarkersNext
      <3>2. PICK a \in 0..99 : a = MarkersUpTo(query, i + 1)
        BY <2>1, MarkersNext
      <3>3. k \in 0..98
        <4>1. a = k + 1
          BY <3>1, <3>2
        <4> QED
          BY <4>1
      <3>4. Numbered(t \o (<<"$">> \o Itoa(k + 1)), k + 1)
        BY <2>4, <3>3, MarkerAfter
      <3>5. R(i + 1) = t \o (<<"$">> \o Itoa(k + 1))
        BY <2>2, <2>4, <2>6, <3>1 DEF Written
      <3> QED
        BY <2>6, <3>1, <3>4, <3>5
    <2> QED
      BY <2>5, <2>6
  <1> HIDE DEF T
  <1>3. n \in T
    <2>1. n \in Nat
      BY <1>0
    <2> QED
      BY <1>1, <1>2, <2>1, Induction
  <1> QED
    BY <1>0, <1>3 DEF T, R

\* A rewritten statement is bound in its order, whatever the dialect.
LEMMA ReboundInOrder ==
  ASSUME NEW query \in Statements, NEW engine, engine \in {"sqlite", "postgres"}
  PROVE  LET places == PlacesOf(engine, Rebind(engine, query))
         IN  /\ Cardinality(places) = MarkersUpTo(query, Len(query))
             /\ \A i \in places :
                   NumberAt(engine, Rebind(engine, query), i) = Cardinality({j \in places : j <= i})
  <1>0. Len(query) \in Nat /\ query \in Seq(Characters)
    BY StatementsAssumption
  <1>1. CASE engine = "sqlite"
    <2>1. Rebind(engine, query) = query /\ DOMAIN query = 1..Len(query)
      BY <1>0, <1>1 DEF Rebind
    <2>2. PlacesOf(engine, query) = {i \in 1..Len(query) : query[i] = "?"}
      BY <1>1, <2>1 DEF PlacesOf
    <2>3. Cardinality(PlacesOf(engine, query)) = MarkersUpTo(query, Len(query))
      BY <2>2 DEF MarkersUpTo
    <2> QED
      BY <1>1, <2>1, <2>3 DEF NumberAt
  <1>2. CASE engine = "postgres"
    <2>1. PICK t : t = Rebind(engine, query) /\ Numbered(t, MarkersUpTo(query, Len(query)))
      BY <1>0, <1>2, ReboundNumbered DEF Rebind
    <2>2. t \in Seq(Characters) /\ DOMAIN t = 1..Len(t)
      BY <2>1 DEF Numbered
    <2>3. PlacesOf(engine, t) = Dollars(t)
      BY <1>2, <2>2 DEF PlacesOf, Dollars
    <2>4. PICK m \in 0..99 : m = MarkersUpTo(query, Len(query))
      <3>1. Len(query) \in 0..Len(query)
        BY <1>0
      <3> QED
        BY <3>1, MarkersNext
    <2>5. Cardinality(Dollars(t)) = m
      BY <2>1, <2>4 DEF Numbered
    <2>6. ASSUME NEW i \in Dollars(t) PROVE NumberAt("postgres", t, i) = DollarsUpTo(t, i)
      <3>1. DollarsUpTo(t, i) \in 1..m /\ Spelled(t, i, DollarsUpTo(t, i))
        BY <2>1, <2>4 DEF Numbered
      <3>2. PICK k \in 1..m : k = DollarsUpTo(t, i)
        BY <3>1
      <3>3. k \in 1..99 /\ i \in Nat \ {0}
        BY DEF Dollars
      <3> QED
        BY <2>2, <3>1, <3>2, <3>3, SpelledRead
    <2> QED
      BY <1>2, <2>1, <2>3, <2>4, <2>5, <2>6 DEF DollarsUpTo
  <1> QED
    BY <1>1, <1>2

\* A statement is run for a supported engine, and is the rewritten one.
PlaceholdersInv ==
    /\ driver # None => driver \in Drivers /\ dialect = Dialect(driver)
    /\ ready => driver # None /\ Supported(dialect)
    /\ statement # None =>
          ready /\ statement \in Statements /\ sent = Rebind(dialect, statement)

\* Whatever the driver is called, PostgreSQL finds in a rewritten statement as many
\* places as were written, the k-th numbered k (sqldialect.Rebind, Database.Dialect).
THEOREM BoundInOrderCorrect == PlaceholdersSpec => []BoundInOrder
  <1>1. PlaceholdersInit => PlaceholdersInv
    BY DEF PlaceholdersInit, PlaceholdersInv
  <1>2. PlaceholdersInv /\ [PlaceholdersNext]_placeholdersVars => PlaceholdersInv'
    <2> SUFFICES ASSUME PlaceholdersInv, [PlaceholdersNext]_placeholdersVars
                 PROVE  PlaceholdersInv'
      OBVIOUS
    <2>1. CASE Configure
      BY <2>1 DEF Configure, PlaceholdersInv
    <2>2. CASE Migrate
      BY <2>2 DEF Migrate, PlaceholdersInv
    <2>3. CASE Exec
      BY <2>3 DEF Exec, PlaceholdersInv
    <2>4. CASE UNCHANGED placeholdersVars
      BY <2>4 DEF placeholdersVars, PlaceholdersInv
    <2> QED
      BY <2>1, <2>2, <2>3, <2>4 DEF PlaceholdersNext
  <1>3. PlaceholdersInv => BoundInOrder
    <2> SUFFICES ASSUME PlaceholdersInv, statement # None PROVE BoundInOrder
      BY DEF BoundInOrder
    <2>1. /\ driver \in Drivers /\ Supported(Dialect(driver)) /\ statement \in Statements
          /\ sent = Rebind(Dialect(driver), statement)
      BY DEF PlaceholdersInv
    <2>2. EngineOf[driver] = Dialect(driver)
      BY <2>1, DriversAssumption
    <2>3. PICK engine : engine = EngineOf[driver] /\ engine \in {"sqlite", "postgres"}
                      /\ sent = Rebind(engine, statement)
      BY <2>1, <2>2 DEF Supported
    <2> QED
      BY <2>1, <2>3, ReboundInOrder DEF BoundInOrder
  <1> QED
    BY <1>1, <1>2, <1>3, PTL DEF PlaceholdersSpec
================================================================================
