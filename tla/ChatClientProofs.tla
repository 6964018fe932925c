-------------------------- MODULE ChatClientProofs --------------------------
(***************************************************************************)
(* The chat page of the web UI, for any number of sockets and turns, any   *)
(* history and any page size.  Proof that no message is on the screen      *)
(* twice, and that a window which says it is loading waits for an answer   *)
(* that is on its way.  process_pending_frames and prepend_history_page    *)
(* are recursions over what the page received; that they compute their     *)
(* steps, and what every step keeps, is proved by a least counterexample.  *)
(***************************************************************************)
EXTENDS ChatClient, FiniteSetTheorems, WellFoundedInduction, TLAPS

SocketStates == {"new", "connecting", "open", "closing", "closed"}
Links        == {"down", "dialing", "up", "error"}
Roles        == {"user", "assistant"}
Places       == {"none", "asked", "running", "streamed", "cleared", "answered", "ended"}

MessageIds == {RecordId(k) : k \in Nat} \cup {ItemId(t) : t \in UiTurns} \cup {NoId}
Messages   == [role : Roles, id : MessageIds, turns : SUBSET UiTurns]

UniqueIds(shown) ==
    \A i, j \in DOMAIN shown : shown[i].id = shown[j].id /\ shown[i].id # NoId => i = j

\* Windows, requests, pages and frames when the session has n records.
Windows(n) ==
    {w \in [subscribed : BOOLEAN, loading : BOOLEAN, more : BOOLEAN, oldest : 0 .. n,
            cursor : SUBSET (0 .. n), shown : Seq(Messages), stream : SUBSET UiTurns] :
        UniqueIds(w.shown)}

PlainRequests      == [kind : {"list", "subscribe", "delete"}]
HistoryRequests(n) == [kind : {"history"}, before : 0 .. n]
StartRequests      == [kind : {"start"}, turn : UiTurns]
UiRequests(n)      == PlainRequests \cup HistoryRequests(n) \cup StartRequests

Pages(n) == [link : Links, cell : {0} \cup Socks, loaded : BOOLEAN, there : BOOLEAN,
             isOpen : BOOLEAN, win : Windows(n), out : Seq(UiRequests(n))]

HistoryFrames(n) ==
    {f \in [kind : {"history"}, messages : Seq(Messages), more : BOOLEAN, oldest : 0 .. n] :
        UniqueIds(f.messages)}
PlainFrames   == [kind : {"error", "subscribed", "deleted", "absent"}]
SessionFrames == [kind : {"sessions"}, alive : BOOLEAN]
TurnFrames    == [kind : {"user", "delta", "clear", "answer", "completed"}, turn : UiTurns]
UiFrames(n)   == HistoryFrames(n) \cup PlainFrames \cup SessionFrames \cup TurnFrames

UiTypeOK ==
    /\ sock \in [Socks -> SocketStates]
    /\ page \in Pages(Len(stored)) /\ page.out = <<>>
    /\ inbox \in Seq(UiFrames(Len(stored)))
    /\ requests \in [Socks -> Seq(UiRequests(Len(stored)))]
    /\ listeners \in SUBSET Socks
    /\ stored \in Seq(Roles)
    /\ alive \in BOOLEAN
    /\ reply \in [UiTurns -> Places]
    /\ refusals \in 0 .. MaxRefusals /\ acts \in 0 .. MaxActs

\* The page p waits for a page of history.
Waits(p) == p.link = "up" /\ p.there /\ p.win.loading

Answered(frames) == \E i \in DOMAIN frames : frames[i].kind \in {"history", "sessions", "error"}
AsksFor(rs)      == \E i \in DOMAIN rs : rs[i].kind \in {"history", "list"}

LoadInv == Waits(page) => Answered(inbox) \/ \E s \in Socks : sock[s] = "open" /\ AsksFor(requests[s])

UiInv == UiTypeOK /\ LoadInv

----------------------------------------------------------------------------
(* Recursion over a sequence.                                              *)

\* What holds at 0 and passes from each number to the next holds up to n.
LEMMA UpTo ==
    ASSUME NEW n \in Nat, NEW S, 0 \in S, \A k \in 1 .. n : k - 1 \in S => k \in S
    PROVE  \A k \in 0 .. n : k \in S
  <1> DEFINE T == {k \in 0 .. n : k \notin S}
             R == OpToRel(<, Nat)
  <1>1. SUFFICES ASSUME T # {} PROVE FALSE
    BY Zenon
  <1>2. T \subseteq Nat
    OBVIOUS
  <1>3. PICK t \in T : \A u \in T : ~(<<u, t>> \in R)
    <2> HIDE DEF T, R
    <2> QED
      BY <1>1, <1>2, WFMin, NatLessThanWellFounded, Zenon DEF R
  <1>4. \A u \in T : ~(u < t)
    BY <1>2, <1>3, Zenon DEF OpToRel
  <1>5. t \in 1 .. n /\ t - 1 \in 0 .. n /\ t - 1 < t
    OBVIOUS
  <1>6. t - 1 \in S
    BY <1>4, <1>5, Zenon
  <1> QED
    BY <1>5, <1>6, Zenon

\* g runs through the first n steps F[1], F[2], ... from base.
IsRun(n, base, F, g) == g[0] = base /\ \A k \in 1 .. n : g[k] = F[k][g[k - 1]]

\* Steps that are functions on a set P can be run: a recursive function exists.
LEMMA RunExists ==
    ASSUME NEW n \in Nat, NEW P, NEW base \in P, NEW F \in [1 .. n -> [P -> P]]
    PROVE  \E g \in [0 .. n -> P] : IsRun(n, base, F, g)
  <1> DEFINE S == {k \in 0 .. n : \E g \in [0 .. k -> P] : IsRun(k, base, F, g)}
  <1>1. 0 \in S
    <2> DEFINE g == [k \in 0 .. 0 |-> base]
    <2>1. 0 \in 0 .. n /\ g[0] = base /\ \A k \in 1 .. 0 : FALSE
      OBVIOUS
    <2>2. g \in [0 .. 0 -> P]
      BY Zenon
    <2> HIDE DEF g
    <2> QED
      BY <2>1, <2>2, Zenon DEF IsRun
  <1>2. ASSUME NEW k \in 1 .. n, k - 1 \in S PROVE k \in S
    <2>1. PICK g \in [0 .. (k - 1) -> P] : IsRun(k - 1, base, F, g)
      BY <1>2, Zenon
    <2> DEFINE h == [i \in 0 .. k |-> IF i = k THEN F[k][g[k - 1]] ELSE g[i]]
    <2>2. /\ k \in 0 .. n /\ k \in 0 .. k /\ 0 \in 0 .. k /\ 0 # k /\ k - 1 \in 0 .. (k - 1)
          /\ \A i \in 0 .. k : i # k => i \in 0 .. (k - 1)
          /\ \A i \in 1 .. k : /\ i \in 0 .. k /\ i - 1 \in 0 .. k /\ i - 1 # k
                                /\ (i # k => i \in 1 .. (k - 1))
      OBVIOUS
    <2>3. F[k][g[k - 1]] \in P
      <3>1. F[k] \in [P -> P] /\ g[k - 1] \in P
        BY <2>2, Zenon
      <3> QED
        BY <3>1, Zenon
    <2>4. h \in [0 .. k -> P]
      BY <2>2, <2>3, Zenon
    <2>5. h[0] = base /\ h[k] = F[k][g[k - 1]]
      BY <2>1, <2>2, Zenon DEF IsRun
    <2>6. \A i \in 0 .. k : i # k => h[i] = g[i]
      BY Zenon
    <2> HIDE DEF h
    <2>7. ASSUME NEW i \in 1 .. k PROVE h[i] = F[i][h[i - 1]]
      <3>1. h[i - 1] = g[i - 1]
        <4>1. i - 1 \in 0 .. k /\ i - 1 # k
          BY <2>2, Zenon
        <4> QED
          BY <2>6, <4>1, Zenon
      <3>2. CASE i = k
        BY <2>5, <3>1, <3>2, Zenon
      <3>3. CASE i # k
        <4>1. h[i] = g[i] /\ g[i] = F[i][g[i - 1]]
          <5>1. i \in 0 .. k /\ i \in 1 .. (k - 1)
            BY <2>2, <3>3, Zenon
          <5> QED
            BY <2>1, <2>6, <3>3, <5>1, Zenon DEF IsRun
        <4> QED
          BY <3>1, <4>1, Zenon
      <3> QED
        BY <3>2, <3>3, Zenon
    <2> QED
      BY <2>2, <2>4, <2>5, <2>7, Zenon DEF IsRun
  <1>3. n \in S
    <2>1. n \in 0 .. n
      OBVIOUS
    <2> HIDE DEF S
    <2> QED
      BY <1>1, <1>2, <2>1, UpTo, Zenon
  <1> QED
    BY <1>3, Zenon

----------------------------------------------------------------------------
(* The messages of a window.                                               *)

\* A message whose id is not on the screen may be put at its end.
LEMMA AppendUnique ==
    ASSUME NEW shown \in Seq(Messages), UniqueIds(shown), NEW m \in Messages, ~Exists(shown, m.id)
    PROVE  Append(shown, m) \in Seq(Messages) /\ UniqueIds(Append(shown, m))
  <1>1. /\ Append(shown, m) \in Seq(Messages)
        /\ DOMAIN Append(shown, m) = DOMAIN shown \cup {Len(shown) + 1}
        /\ \A i \in DOMAIN shown : Append(shown, m)[i] = shown[i]
        /\ Append(shown, m)[Len(shown) + 1] = m
    OBVIOUS
  <1> QED
    BY <1>1, Zenon DEF UniqueIds, Exists

\* The last message may go.
LEMMA FrontUnique ==
    ASSUME NEW shown \in Seq(Messages), UniqueIds(shown), shown # <<>>
    PROVE  LET front == SubSeq(shown, 1, Len(shown) - 1)
           IN  front \in Seq(Messages) /\ UniqueIds(front)
  <1> DEFINE front == SubSeq(shown, 1, Len(shown) - 1)
  <1>1. /\ front \in Seq(Messages)
        /\ DOMAIN front \subseteq DOMAIN shown
        /\ \A i \in DOMAIN front : front[i] = shown[i]
    OBVIOUS
  <1> HIDE DEF front
  <1> QED
    BY <1>1, Zenon DEF UniqueIds, front

\* Older messages that the screen has not may be put before it.
LEMMA ConcatUnique ==
    ASSUME NEW kept \in Seq(Messages), UniqueIds(kept),
           NEW shown \in Seq(Messages), UniqueIds(shown),
           \A i \in DOMAIN kept : ~Exists(shown, kept[i].id)
    PROVE  kept \o shown \in Seq(Messages) /\ UniqueIds(kept \o shown)
  <1> DEFINE all == kept \o shown
  <1>1. /\ all \in Seq(Messages)
        /\ \A i \in DOMAIN all :
              \/ i \in DOMAIN kept /\ all[i] = kept[i]
              \/ i \notin DOMAIN kept /\ i - Len(kept) \in DOMAIN shown /\ all[i] = shown[i - Len(kept)]
    OBVIOUS
  <1>2. \A i, j \in DOMAIN all : i - Len(kept) = j - Len(kept) => i = j
    OBVIOUS
  <1> HIDE DEF all
  <1>3. UniqueIds(all)
    <2> SUFFICES ASSUME NEW i \in DOMAIN all, NEW j \in DOMAIN all,
                        all[i].id = all[j].id, all[i].id # NoId
                 PROVE  i = j
      BY Zenon DEF UniqueIds
    <2>1. CASE i \in DOMAIN kept /\ j \in DOMAIN kept
      BY <1>1, <2>1, Zenon DEF UniqueIds
    <2>2. CASE i \in DOMAIN kept /\ j \notin DOMAIN kept
      BY <1>1, <2>2, Zenon DEF Exists
    <2>3. CASE i \notin DOMAIN kept /\ j \in DOMAIN kept
      BY <1>1, <2>3, Zenon DEF Exists
    <2>4. CASE i \notin DOMAIN kept /\ j \notin DOMAIN kept
      <3> DEFINE a == i - Len(kept)
                 b == j - Len(kept)
      <3>1. a \in DOMAIN shown /\ b \in DOMAIN shown /\ all[i] = shown[a] /\ all[j] = shown[b]
        BY <1>1, <2>4, Zenon
      <3>2. a = b => i = j
        BY <1>2, Zenon
      <3> HIDE DEF a, b
      <3> QED
        BY <3>1, <3>2, Zenon DEF UniqueIds
    <2> QED
      BY <2>1, <2>2, <2>3, <2>4, Zenon
  <1> QED
    BY <1>1, <1>3, Zenon DEF all

\* The last message is replaced by one with the same id, or with a new one.
LEMMA ReplaceUnique ==
    ASSUME NEW shown \in Seq(Messages), UniqueIds(shown), shown # <<>>, NEW m \in Messages,
           m.id = shown[Len(shown)].id \/ ~Exists(shown, m.id)
    PROVE  /\ [shown EXCEPT ![Len(shown)] = m] \in Seq(Messages)
           /\ UniqueIds([shown EXCEPT ![Len(shown)] = m])
  <1> DEFINE all == [shown EXCEPT ![Len(shown)] = m]
  <1>1. /\ all \in Seq(Messages) /\ DOMAIN all = DOMAIN shown /\ Len(shown) \in DOMAIN shown
        /\ all[Len(shown)] = m
        /\ \A i \in DOMAIN shown : i # Len(shown) => all[i] = shown[i]
    OBVIOUS
  <1> HIDE DEF all
  <1>2. UniqueIds(all)
    BY <1>1, ZenonT(30) DEF UniqueIds, Exists
  <1> QED
    BY <1>1, <1>2, Zenon DEF all

\* What prepend_history_page puts before the messages on the screen.
KeptGraph(shown, messages, g) ==
    g = [k \in 0 .. Len(messages) |->
            IF k = 0 THEN <<>>
            ELSE IF Exists(shown, messages[k].id) THEN g[k - 1]
            ELSE Append(g[k - 1], messages[k])]
Kept(shown, messages) == CHOOSE g : KeptGraph(shown, messages, g)

\* prepend_history_page by the name of its recursion.
LEMMA PrependIsKept ==
    ASSUME NEW shown, NEW messages
    PROVE  PrependHistoryPage(shown, messages) = Kept(shown, messages)[Len(messages)] \o shown
  BY Zenon DEF PrependHistoryPage, Kept, KeptGraph

\* The recursion of prepend_history_page computes its steps.
LEMMA KeptExists ==
    ASSUME NEW shown, NEW messages \in Seq(Messages)
    PROVE  KeptGraph(shown, messages, Kept(shown, messages))
  <1> DEFINE n == Len(messages)
             P == Seq(Messages)
             none == <<>>
             Step(i, q) == IF Exists(shown, messages[i].id) THEN q ELSE Append(q, messages[i])
             F == [i \in 1 .. n |-> [q \in P |-> Step(i, q)]]
  <1>1. n \in Nat /\ none \in P
    OBVIOUS
  <1>2. \A i \in 1 .. n : \A q \in P : Step(i, q) \in P
    OBVIOUS
  <1>3. F \in [1 .. n -> [P -> P]]
    <2> HIDE DEF Step, P
    <2> QED
      BY <1>2, Zenon
  <1>4. PICK g \in [0 .. n -> P] : IsRun(n, none, F, g)
    <2> HIDE DEF F, P, n, none
    <2> QED
      BY <1>1, <1>3, RunExists, Zenon
  <1>5. \A k \in 0 .. n : k = 0 \/ (k \in 1 .. n /\ k - 1 \in 0 .. n)
    BY <1>1
  <1>6. \A k \in 0 .. n : g[k] = IF k = 0 THEN none ELSE Step(k, g[k - 1])
    <2> SUFFICES ASSUME NEW k \in 1 .. n, k - 1 \in 0 .. n PROVE g[k] = Step(k, g[k - 1])
      BY <1>4, <1>5, Zenon DEF IsRun
    <2>1. g[k - 1] \in P
      BY Zenon
    <2> HIDE DEF Step, P
    <2> QED
      BY <1>4, <2>1, Zenon DEF IsRun
  <1>7. KeptGraph(shown, messages, g)
    BY <1>6, Zenon DEF KeptGraph
  <1> QED
    BY <1>7, Zenon DEF Kept

\* prepend_history_page keeps the ids of a window apart, as the page's are.
LEMMA PrependUnique ==
    ASSUME NEW shown \in Seq(Messages), UniqueIds(shown),
           NEW messages \in Seq(Messages), UniqueIds(messages)
    PROVE  /\ PrependHistoryPage(shown, messages) \in Seq(Messages)
           /\ UniqueIds(PrependHistoryPage(shown, messages))
  <1> DEFINE n == Len(messages)
             g == Kept(shown, messages)
             Comes(q, k) == \A i \in DOMAIN q : /\ ~Exists(shown, q[i].id)
                                                /\ \E j \in 1 .. k : q[i] = messages[j]
             Good(k) == g[k] \in Seq(Messages) /\ UniqueIds(g[k]) /\ Comes(g[k], k)
             S == {k \in 0 .. n : Good(k)}
  <1>1. n \in Nat /\ DOMAIN messages = 1 .. n /\ 0 \in 0 .. n /\ n \in 0 .. n
        /\ \A k \in 1 .. n : k \in 0 .. n /\ k # 0
    OBVIOUS
  <1>2. KeptGraph(shown, messages, g)
    BY KeptExists, Zenon
  <1> HIDE DEF g, n
  <1>3. g[0] = <<>>
    BY <1>1, <1>2, Zenon DEF KeptGraph, n
  <1>4. ASSUME NEW k \in 1 .. n
        PROVE  g[k] = IF Exists(shown, messages[k].id) THEN g[k - 1]
                           ELSE Append(g[k - 1], messages[k])
    <2>1. \A i \in 0 .. n :
            g[i] = IF i = 0 THEN <<>>
                   ELSE IF Exists(shown, messages[i].id) THEN g[i - 1]
                   ELSE Append(g[i - 1], messages[i])
      BY <1>2, Zenon DEF KeptGraph, n
    <2> QED
      BY <1>1, <2>1, Zenon
  <1>5. 0 \in S
    <2>1. /\ g[0] \in Seq(Messages)
          /\ \A i \in DOMAIN g[0] : FALSE
      BY <1>3
    <2> QED
      BY <1>1, <2>1, Zenon DEF UniqueIds
  <1>6. ASSUME NEW k \in 1 .. n, k - 1 \in S PROVE k \in S
    <2> DEFINE q == g[k - 1]
               m == messages[k]
    <2>1. q \in Seq(Messages) /\ UniqueIds(q) /\ Comes(q, k - 1)
      BY <1>6, Zenon
    <2>2. \A j \in 1 .. (k - 1) : j \in 1 .. k /\ j \in 1 .. n /\ j # k
      BY <1>1
    <2>3. k \in 1 .. k /\ k \in 0 .. n
      BY <1>1
    <2>4. m \in Messages
      BY <1>1
    <2>5. g[k] = IF Exists(shown, m.id) THEN q ELSE Append(q, m)
      BY <1>4, Zenon
    <2>6. Comes(q, k)
      BY <2>1, <2>2, Zenon
    <2>7. ASSUME ~Exists(shown, m.id)
          PROVE  ~Exists(q, m.id) /\ Comes(Append(q, m), k)
      <3>1. ~Exists(q, m.id)
        <4> SUFFICES ASSUME m.id # NoId, NEW i \in DOMAIN q, q[i].id = m.id PROVE FALSE
          BY Zenon DEF Exists
        <4>1. PICK j \in 1 .. (k - 1) : q[i] = messages[j]
          BY <2>1, Zenon
        <4> HIDE DEF q
        <4> QED
          BY <1>1, <2>2, <4>1, Zenon DEF UniqueIds
      <3> HIDE DEF q, m
      <3>2. /\ DOMAIN Append(q, m) = DOMAIN q \cup {Len(q) + 1}
            /\ \A i \in DOMAIN q : Append(q, m)[i] = q[i]
            /\ Append(q, m)[Len(q) + 1] = m
        BY <2>1, <2>4
      <3> QED
        <4>1. \E j \in 1 .. k : m = messages[j]
          BY <2>3, Zenon DEF m
        <4> QED
          BY <2>6, <2>7, <3>1, <3>2, <4>1, Zenon
    <2> HIDE DEF q, m
    <2>8. Good(k)
      <3>1. CASE Exists(shown, m.id)
        BY <2>1, <2>5, <2>6, <3>1, Zenon
      <3>2. CASE ~Exists(shown, m.id)
        BY <2>1, <2>4, <2>5, <2>7, <3>2, AppendUnique, Zenon
      <3> QED
        BY <3>1, <3>2, Zenon
    <2> QED
      BY <2>3, <2>8, Zenon
  <1>7. Good(n)
    <2>1. n \in S
      <3> HIDE DEF S
      <3> QED
        BY <1>1, <1>5, <1>6, UpTo, Zenon
    <2> QED
      BY <2>1, Zenon
  <1>8. PrependHistoryPage(shown, messages) = g[n] \o shown
    BY PrependIsKept, Zenon DEF g, n
  <1> QED
    BY <1>7, <1>8, ConcatUnique, Zenon

----------------------------------------------------------------------------
(* What the page does to itself.                                           *)

AsksHistory(rs) == \E i \in DOMAIN rs : rs[i].kind = "history"

\* q comes from p: the socket stays, and requests are added where one can be sent.
Follows(p, q) ==
    /\ q.cell = p.cell
    /\ q.out # <<>> => p.out # <<>> \/ CanSend
    /\ AsksHistory(p.out) => AsksHistory(q.out)

\* The fields of a page and of its window have their types.
LEMMA PageFields ==
    ASSUME NEW n \in Nat, NEW p \in Pages(n)
    PROVE  /\ p.link \in Links /\ p.cell \in {0} \cup Socks /\ p.loaded \in BOOLEAN
           /\ p.there \in BOOLEAN /\ p.isOpen \in BOOLEAN /\ p.out \in Seq(UiRequests(n))
           /\ p.win \in Windows(n)
           /\ p.win.subscribed \in BOOLEAN /\ p.win.loading \in BOOLEAN /\ p.win.more \in BOOLEAN
           /\ p.win.oldest \in 0 .. n /\ p.win.cursor \in SUBSET (0 .. n)
           /\ p.win.shown \in Seq(Messages) /\ UniqueIds(p.win.shown)
           /\ p.win.stream \in SUBSET UiTurns
  <1>1. /\ p.link \in Links /\ p.cell \in {0} \cup Socks /\ p.loaded \in BOOLEAN
        /\ p.there \in BOOLEAN /\ p.isOpen \in BOOLEAN /\ p.out \in Seq(UiRequests(n))
        /\ p.win \in Windows(n)
    BY Zenon DEF Pages
  <1> QED
    BY <1>1, Zenon DEF Windows

\* The window of a page becomes w.
LEMMA PageWithWindow ==
    ASSUME NEW n \in Nat, NEW p \in Pages(n), NEW w \in Windows(n)
    PROVE  LET q == [p EXCEPT !.win = w]
           IN  /\ q \in Pages(n) /\ q.win = w /\ q.link = p.link /\ q.there = p.there
               /\ q.isOpen = p.isOpen /\ q.loaded = p.loaded /\ q.out = p.out
               /\ Follows(p, q)
  <1> DEFINE q == [p EXCEPT !.win = w]
  <1>1. /\ q \in Pages(n) /\ q.win = w /\ q.link = p.link /\ q.there = p.there
        /\ q.isOpen = p.isOpen /\ q.loaded = p.loaded /\ q.out = p.out /\ q.cell = p.cell
    BY SMTT(20) DEF Pages
  <1> HIDE DEF q
  <1> QED
    BY <1>1, Zenon DEF Follows, q

\* What Request adds.
LEMMA RequestFacts ==
    ASSUME NEW n \in Nat, NEW p \in Pages(n), NEW r \in UiRequests(n), CanSend
    PROVE  LET q == Request(p, r)
           IN  /\ q \in Pages(n) /\ q.win = p.win /\ q.link = p.link /\ q.there = p.there
               /\ q.isOpen = p.isOpen /\ q.loaded = p.loaded
               /\ Follows(p, q)
               /\ r.kind = "history" => AsksHistory(q.out)
  <1> DEFINE o == Append(p.out, r)
             q == [p EXCEPT !.out = o]
  <1>1. p.out \in Seq(UiRequests(n))
    BY PageFields, Zenon
  <1>2. /\ o \in Seq(UiRequests(n)) /\ DOMAIN o = DOMAIN p.out \cup {Len(p.out) + 1}
        /\ \A i \in DOMAIN p.out : o[i] = p.out[i]
        /\ o[Len(p.out) + 1] = r
    BY <1>1
  <1>3. /\ AsksHistory(p.out) => AsksHistory(o)
        /\ r.kind = "history" => AsksHistory(o)
    <2> HIDE DEF o
    <2> QED
      BY <1>2, Zenon DEF AsksHistory
  <1> HIDE DEF o
  <1>4. /\ q \in Pages(n) /\ q.win = p.win /\ q.link = p.link /\ q.there = p.there
        /\ q.isOpen = p.isOpen /\ q.loaded = p.loaded /\ q.out = o /\ q.cell = p.cell
    BY <1>2 DEF Pages
  <1>5. Request(p, r) = q
    BY Zenon DEF Request, o
  <1> HIDE DEF q
  <1> QED
    BY <1>3, <1>4, <1>5, Zenon DEF Follows

\* What the page asks is a request.
LEMMA RequestKinds ==
    ASSUME NEW n \in Nat
    PROVE  /\ [kind |-> "subscribe"] \in UiRequests(n) /\ [kind |-> "delete"] \in UiRequests(n)
           /\ [kind |-> "list"] \in UiRequests(n)
           /\ \A b \in 0 .. n : [kind |-> "history", before |-> b] \in UiRequests(n)
           /\ \A t \in UiTurns : [kind |-> "start", turn |-> t] \in UiRequests(n)
  BY Zenon DEF UiRequests, PlainRequests, HistoryRequests, StartRequests

\* Steps of a page compose.
LEMMA FollowsTrans ==
    ASSUME NEW p, NEW q, NEW r, Follows(p, q), Follows(q, r)
    PROVE  Follows(p, r)
  BY Zenon DEF Follows

\* subscribe_session asks, and marks the window.
LEMMA SubscribeFacts ==
    ASSUME NEW n \in Nat, NEW p \in Pages(n)
    PROVE  LET q == SubscribeSession(p)
           IN  /\ q \in Pages(n) /\ q.link = p.link /\ q.there = p.there /\ Follows(p, q)
               /\ q.win.loading = p.win.loading
  <1> DEFINE w == [p.win EXCEPT !.subscribed = TRUE]
             p1 == [p EXCEPT !.win = w]
  <1>1. w \in Windows(n) /\ w.loading = p.win.loading
    BY PageFields, Zenon DEF Windows
  <1>2. [p EXCEPT !.win.subscribed = TRUE] = p1
    OBVIOUS
  <1> HIDE DEF w
  <1>3. /\ p1 \in Pages(n) /\ p1.win = w /\ p1.link = p.link /\ p1.there = p.there /\ Follows(p, p1)
    BY <1>1, PageWithWindow, ZenonT(30)
  <1> HIDE DEF p1
  <1>4. CASE p.win.subscribed \/ ~CanSend
    BY <1>4, Zenon DEF SubscribeSession, Follows
  <1>5. CASE ~(p.win.subscribed \/ ~CanSend)
    <2>1. SubscribeSession(p) = Request(p1, [kind |-> "subscribe"])
      BY <1>2, <1>5, Zenon DEF SubscribeSession
    <2> DEFINE q == Request(p1, [kind |-> "subscribe"])
    <2>2. /\ q \in Pages(n) /\ q.win = p1.win /\ q.link = p1.link /\ q.there = p1.there
          /\ Follows(p1, q)
      BY <1>3, <1>5, RequestFacts, RequestKinds, Zenon
    <2> HIDE DEF q
    <2>3. Follows(p, q)
      BY <1>3, <2>2, FollowsTrans, Zenon
    <2> QED
      BY <1>1, <1>3, <2>1, <2>2, <2>3, Zenon DEF q
  <1> QED
    BY <1>4, <1>5, Zenon

\* load_history_page sets the flag only with a request that it sends.
LEMMA LoadFacts ==
    ASSUME NEW n \in Nat, NEW p \in Pages(n)
    PROVE  LET q == LoadHistoryPage(p)
           IN  /\ q \in Pages(n) /\ q.link = p.link /\ q.there = p.there /\ Follows(p, q)
               /\ q.win.loading => p.win.loading \/ AsksHistory(q.out)
  <1> DEFINE w == [p.win EXCEPT !.loading = TRUE, !.cursor = {p.win.oldest}]
             v == [p.win EXCEPT !.more = FALSE]
             p1 == [p EXCEPT !.win = w]
             p2 == [p EXCEPT !.win = v]
             r == [kind |-> "history", before |-> p.win.oldest]
             q == Request(p1, r)
  <1>1. w \in Windows(n) /\ v \in Windows(n) /\ v.loading = p.win.loading
    BY PageFields, Zenon DEF Windows
  <1>2. /\ [p EXCEPT !.win.loading = TRUE, !.win.cursor = {p.win.oldest}] = p1
        /\ [p EXCEPT !.win.more = FALSE] = p2
    BY Zenon
  <1>3. r \in UiRequests(n) /\ r.kind = "history"
    BY PageFields, RequestKinds, Zenon
  <1> HIDE DEF w, v
  <1>4. /\ p1 \in Pages(n) /\ p1.link = p.link /\ p1.there = p.there /\ Follows(p, p1)
        /\ p2 \in Pages(n) /\ p2.link = p.link /\ p2.there = p.there /\ Follows(p, p2) /\ p2.win = v
    <2>1. p1 \in Pages(n) /\ p1.link = p.link /\ p1.there = p.there /\ Follows(p, p1)
      BY <1>1, PageWithWindow, ZenonT(30)
    <2>2. p2 \in Pages(n) /\ p2.link = p.link /\ p2.there = p.there /\ Follows(p, p2) /\ p2.win = v
      BY <1>1, PageWithWindow, ZenonT(30)
    <2> QED
      BY <2>1, <2>2, Zenon
  <1>5. \/ LoadHistoryPage(p) = p \/ LoadHistoryPage(p) = p2
        \/ CanSend /\ LoadHistoryPage(p) = q
    BY <1>2, Zenon DEF LoadHistoryPage
  <1> HIDE DEF p1, p2, r
  <1>6. Follows(p, p)
    BY Zenon DEF Follows
  <1>7. CASE CanSend /\ LoadHistoryPage(p) = q
    <2>1. /\ q \in Pages(n) /\ q.link = p1.link /\ q.there = p1.there
          /\ Follows(p1, q) /\ AsksHistory(q.out)
      BY <1>3, <1>4, <1>7, RequestFacts, Zenon
    <2> HIDE DEF q
    <2>2. Follows(p, q)
      BY <1>4, <2>1, FollowsTrans, Zenon
    <2> QED
      BY <1>4, <1>7, <2>1, <2>2, Zenon
  <1> HIDE DEF q
  <1> QED
    BY <1>1, <1>4, <1>5, <1>6, <1>7, Zenon

\* ensure_session_ready subscribes and loads where that is missing.
LEMMA EnsureFacts ==
    ASSUME NEW n \in Nat, NEW p \in Pages(n)
    PROVE  LET q == EnsureSessionReady(p)
           IN  /\ q \in Pages(n) /\ q.link = p.link /\ q.there = p.there /\ Follows(p, q)
               /\ q.win.loading => p.win.loading \/ AsksHistory(q.out)
  <1> DEFINE p1 == SubscribeSession(p)
             q == LoadHistoryPage(p1)
  <1>1. /\ p1 \in Pages(n) /\ p1.link = p.link /\ p1.there = p.there /\ Follows(p, p1)
        /\ p1.win.loading = p.win.loading
    BY SubscribeFacts, Zenon
  <1> HIDE DEF p1
  <1>2. /\ q \in Pages(n) /\ q.link = p1.link /\ q.there = p1.there /\ Follows(p1, q)
        /\ q.win.loading => p1.win.loading \/ AsksHistory(q.out)
    BY <1>1, LoadFacts, Zenon
  <1>3. EnsureSessionReady(p) = IF p.there THEN q ELSE p
    BY Zenon DEF EnsureSessionReady, p1
  <1> HIDE DEF q
  <1>4. Follows(p, q) /\ Follows(p, p)
    <2>1. Follows(p, p)
      BY Zenon DEF Follows
    <2> QED
      BY <1>1, <1>2, <2>1, FollowsTrans, Zenon
  <1>5. CASE p.there
    BY <1>1, <1>2, <1>3, <1>4, <1>5, Zenon
  <1>6. CASE ~p.there
    BY <1>3, <1>4, <1>6, Zenon
  <1> QED
    BY <1>5, <1>6, Zenon

\* q is p with another window, which loads as before.
OtherWindow(n, p, q) ==
    \E w \in Windows(n) : q = [p EXCEPT !.win = w] /\ w.loading = p.win.loading

\* A page that stays as it is.
LEMMA SameWindow ==
    ASSUME NEW n \in Nat, NEW p \in Pages(n)
    PROVE  OtherWindow(n, p, p) /\ OtherWindow(n, p, [p EXCEPT !.win.subscribed = TRUE])
  <1> DEFINE w == [p.win EXCEPT !.subscribed = TRUE]
  <1>1. w \in Windows(n) /\ w.loading = p.win.loading
    BY PageFields, Zenon DEF Windows
  <1>2. [p EXCEPT !.win.subscribed = TRUE] = [p EXCEPT !.win = w]
    BY Zenon
  <1>3. p = [p EXCEPT !.win = p.win]
    BY DEF Pages
  <1> HIDE DEF w
  <1> QED
    BY <1>1, <1>2, <1>3, PageFields, Zenon DEF OtherWindow

\* The messages of a window change.
LEMMA ShownWindow ==
    ASSUME NEW n \in Nat, NEW p \in Pages(n), NEW all \in Seq(Messages), UniqueIds(all)
    PROVE  OtherWindow(n, p, [p EXCEPT !.win.shown = all])
  <1> DEFINE w == [p.win EXCEPT !.shown = all]
  <1>1. w \in Windows(n) /\ w.loading = p.win.loading
    BY PageFields, SMTT(20) DEF Windows
  <1>2. [p EXCEPT !.win.shown = all] = [p EXCEPT !.win = w]
    BY Zenon
  <1> HIDE DEF w
  <1> QED
    BY <1>1, <1>2, Zenon DEF OtherWindow

\* The streams of a window change.
LEMMA StreamWindow ==
    ASSUME NEW n \in Nat, NEW p \in Pages(n), NEW all \in Seq(Messages), UniqueIds(all),
           NEW stream \in SUBSET UiTurns
    PROVE  OtherWindow(n, p, [p EXCEPT !.win.shown = all, !.win.stream = stream])
  <1> DEFINE w == [p.win EXCEPT !.shown = all, !.stream = stream]
  <1>1. w \in Windows(n) /\ w.loading = p.win.loading
    BY PageFields, Zenon DEF Windows
  <1>2. [p EXCEPT !.win.shown = all, !.win.stream = stream] = [p EXCEPT !.win = w]
    BY Zenon
  <1> HIDE DEF w
  <1> QED
    BY <1>1, <1>2, Zenon DEF OtherWindow

\* The messages that live frames add.
LEMMA LiveMessages ==
    ASSUME NEW t \in UiTurns
    PROVE  /\ Message("assistant", NoId, {t}) \in Messages /\ Message("assistant", NoId, {t}).id = NoId
           /\ Message("user", NoId, {t}) \in Messages /\ Message("user", NoId, {t}).id = NoId
           /\ Message("user", ItemId(t), {t}) \in Messages
           /\ Message("user", ItemId(t), {t}).id = ItemId(t)
           /\ ItemId(t) \in MessageIds
           /\ \A shown : ~Exists(shown, NoId)
  <1>1. ItemId(t) \in MessageIds /\ NoId \in MessageIds
    BY Zenon DEF MessageIds
  <1>2. \A shown : ~Exists(shown, NoId)
    BY Zenon DEF Exists
  <1> HIDE DEF ItemId, NoId
  <1>3. {t} \in SUBSET UiTurns
    OBVIOUS
  <1> QED
    BY <1>1, <1>2, <1>3 DEF Message, Messages, Roles

\* The last message of a window that has one.
LEMMA LastMessage ==
    ASSUME NEW n \in Nat, NEW p \in Pages(n), LastRole(p) # "none"
    PROVE  /\ p.win.shown # <<>> /\ Len(p.win.shown) \in DOMAIN p.win.shown
           /\ LastShown(p) = p.win.shown[Len(p.win.shown)]
           /\ p.win.shown[Len(p.win.shown)] \in Messages
  <1>1. p.win.shown \in Seq(Messages) /\ p.win.shown # <<>>
    BY PageFields, Zenon DEF LastRole
  <1>2. LastShown(p) = p.win.shown[Len(p.win.shown)]
    BY Zenon DEF LastShown
  <1> QED
    BY <1>1, <1>2

\* agentMessage/delta.
LEMMA DeltaWindow ==
    ASSUME NEW n \in Nat, NEW p \in Pages(n), NEW t \in UiTurns
    PROVE  OtherWindow(n, p, ProcessDelta(p, t))
  <1> DEFINE shown == p.win.shown
             last == shown[Len(shown)]
             m == [last EXCEPT !.turns = @ \cup {t}]
             all == [shown EXCEPT ![Len(shown)] = m]
  <1>0. shown \in Seq(Messages) /\ UniqueIds(shown)
    BY PageFields, Zenon
  <1>1. CASE p.win.stream = {t} /\ LastRole(p) = "assistant"
    <2>1. shown # <<>> /\ Len(shown) \in DOMAIN shown /\ last \in Messages
      BY <1>1, LastMessage
    <2>2. m \in Messages /\ m.id = last.id
      BY <2>1 DEF Messages
    <2>3. ProcessDelta(p, t) = [p EXCEPT !.win.shown = all]
      BY <1>1 DEF ProcessDelta
    <2> HIDE DEF m, shown
    <2>4. all \in Seq(Messages) /\ UniqueIds(all)
      BY <1>0, <2>1, <2>2, ReplaceUnique, Zenon
    <2> HIDE DEF all
    <2> QED
      BY <2>3, <2>4, ShownWindow, ZenonT(30)
  <1>2. CASE ~(p.win.stream = {t} /\ LastRole(p) = "assistant")
    <2> DEFINE more == Append(shown, Message("assistant", NoId, {t}))
               stream == {t}
    <2>1. more \in Seq(Messages) /\ UniqueIds(more)
      BY <1>0, LiveMessages, AppendUnique, Zenon
    <2>2. ProcessDelta(p, t) = [p EXCEPT !.win.shown = more, !.win.stream = stream]
      BY <1>2, Zenon DEF ProcessDelta
    <2>3. stream \in SUBSET UiTurns
      OBVIOUS
    <2> HIDE DEF more, stream
    <2> QED
      <3>1. OtherWindow(n, p, [p EXCEPT !.win.shown = more, !.win.stream = stream])
        BY <2>1, <2>3, StreamWindow, Zenon
      <3> QED
        BY <2>2, <3>1, Zenon
  <1> QED
    BY <1>1, <1>2, Zenon

\* The message of a stream that has no id is taken back.
LEMMA ClearWindow ==
    ASSUME NEW n \in Nat, NEW p \in Pages(n), NEW t \in UiTurns
    PROVE  OtherWindow(n, p, ProcessClear(p, t))
  <1> DEFINE shown == p.win.shown
             Takes == p.win.stream = {t} /\ LastRole(p) = "assistant" /\ LastShown(p).id = NoId
             front == SubSeq(shown, 1, Len(shown) - 1)
  <1>1. ProcessClear(p, t) = IF Takes THEN [p EXCEPT !.win.shown = front] ELSE p
    BY Zenon DEF ProcessClear
  <1>2. ASSUME Takes PROVE front \in Seq(Messages) /\ UniqueIds(front)
    <2>1. shown # <<>>
      BY <1>2, LastMessage
    <2> QED
      BY <2>1, PageFields, FrontUnique, Zenon
  <1> HIDE DEF Takes, front
  <1>3. CASE Takes
    BY <1>1, <1>2, <1>3, ShownWindow, Zenon
  <1>4. CASE ~Takes
    BY <1>1, <1>4, SameWindow, Zenon
  <1> QED
    BY <1>3, <1>4, Zenon

\* A completed item of the agent.
LEMMA AnswerWindow ==
    ASSUME NEW n \in Nat, NEW p \in Pages(n), NEW t \in UiTurns
    PROVE  OtherWindow(n, p, ProcessAnswer(p, t))
  <1> DEFINE more == Append(p.win.shown, Message("assistant", NoId, {t}))
  <1>1. more \in Seq(Messages) /\ UniqueIds(more)
    BY PageFields, LiveMessages, AppendUnique, Zenon
  <1>2. ProcessAnswer(p, t) = IF LastRole(p) = "assistant" THEN p ELSE [p EXCEPT !.win.shown = more]
    BY Zenon DEF ProcessAnswer
  <1> HIDE DEF more
  <1>3. CASE LastRole(p) = "assistant"
    BY <1>2, <1>3, SameWindow, Zenon
  <1>4. CASE LastRole(p) # "assistant"
    BY <1>1, <1>2, <1>4, ShownWindow, Zenon
  <1> QED
    BY <1>3, <1>4, Zenon

\* A completed item of the user.
LEMMA UserWindow ==
    ASSUME NEW n \in Nat, NEW p \in Pages(n), NEW t \in UiTurns
    PROVE  OtherWindow(n, p, ProcessUser(p, t))
  <1> DEFINE shown == p.win.shown
             last == shown[Len(shown)]
             m == [last EXCEPT !.id = ItemId(t)]
             all == [shown EXCEPT ![Len(shown)] = m]
             more == Append(shown, Message("user", ItemId(t), {t}))
             Echoed == LastRole(p) = "user" /\ LastShown(p) = Message("user", NoId, {t})
  <1>1. shown \in Seq(Messages) /\ UniqueIds(shown)
    BY PageFields, Zenon
  <1>2. ProcessUser(p, t) = IF Exists(shown, ItemId(t)) THEN p
                            ELSE IF Echoed THEN [p EXCEPT !.win.shown = all]
                            ELSE [p EXCEPT !.win.shown = more]
    BY Zenon DEF ProcessUser
  <1>3. CASE Exists(shown, ItemId(t))
    BY <1>2, <1>3, SameWindow, Zenon
  <1>4. CASE ~Exists(shown, ItemId(t)) /\ Echoed
    <2>1. shown # <<>> /\ last \in Messages
      BY <1>4, LastMessage
    <2>2. ItemId(t) \in MessageIds
      BY LiveMessages, Zenon
    <2>3. m \in Messages /\ m.id = ItemId(t)
      <3> HIDE DEF last, ItemId
      <3> QED
        BY <2>1, <2>2 DEF Messages
    <2> HIDE DEF m, shown, Echoed
    <2>4. all \in Seq(Messages) /\ UniqueIds(all)
      BY <1>1, <1>4, <2>1, <2>3, ReplaceUnique, Zenon
    <2> HIDE DEF all
    <2> QED
      BY <1>2, <1>4, <2>4, ShownWindow, Zenon
  <1>5. CASE ~Exists(shown, ItemId(t)) /\ ~Echoed
    <2>1. more \in Seq(Messages) /\ UniqueIds(more)
      BY <1>1, <1>5, LiveMessages, AppendUnique, Zenon
    <2> HIDE DEF more, Echoed
    <2> QED
      BY <1>2, <1>5, <2>1, ShownWindow, Zenon
  <1> HIDE DEF Echoed, shown
  <1> QED
    BY <1>3, <1>4, <1>5, Zenon

\* turn/completed.
LEMMA CompletedWindow ==
    ASSUME NEW n \in Nat, NEW p \in Pages(n), NEW t \in UiTurns
    PROVE  OtherWindow(n, p, [ProcessAnswer(p, t) EXCEPT !.win.stream = {}])
  <1>1. PICK v \in Windows(n) : ProcessAnswer(p, t) = [p EXCEPT !.win = v] /\ v.loading = p.win.loading
    BY AnswerWindow, Zenon DEF OtherWindow
  <1> DEFINE w == [v EXCEPT !.stream = {}]
  <1>2. w \in Windows(n) /\ w.loading = v.loading
    BY DEF Windows
  <1>3. [ProcessAnswer(p, t) EXCEPT !.win.stream = {}] = [p EXCEPT !.win = w]
    <2>1. "win" \in DOMAIN p
      BY DEF Pages
    <2> QED
      BY <1>1, <2>1, Zenon
  <1> HIDE DEF w
  <1> QED
    BY <1>1, <1>2, <1>3, Zenon DEF OtherWindow

\* A page of history ends the loading.
LEMMA HistoryWindow ==
    ASSUME NEW n \in Nat, NEW p \in Pages(n), NEW f \in HistoryFrames(n)
    PROVE  \E w \in Windows(n) : ProcessHistory(p, f) = [p EXCEPT !.win = w] /\ ~w.loading
  <1> DEFINE all == PrependHistoryPage(p.win.shown, f.messages)
             more == /\ f.more
                     /\ f.oldest # 0
                     /\ p.win.cursor \in {{}, {0}} \/ p.win.cursor # {f.oldest}
             w == [p.win EXCEPT !.shown = all, !.loading = FALSE, !.more = more, !.oldest = f.oldest]
  <1>1. f.messages \in Seq(Messages) /\ UniqueIds(f.messages) /\ f.more \in BOOLEAN /\ f.oldest \in 0 .. n
    BY Zenon DEF HistoryFrames
  <1>2. all \in Seq(Messages) /\ UniqueIds(all)
    BY <1>1, PageFields, PrependUnique, Zenon
  <1>3. more \in BOOLEAN
    BY <1>1, Zenon
  <1>4. ProcessHistory(p, f) = [p EXCEPT !.win = w]
    BY Zenon DEF ProcessHistory
  <1> HIDE DEF all, more
  <1>5. w \in Windows(n) /\ ~w.loading
    BY <1>1, <1>2, <1>3, PageFields, Zenon DEF Windows
  <1> HIDE DEF w
  <1> QED
    BY <1>4, <1>5, Zenon

\* A window that was just opened has its type.
LEMMA NewWindowTyped ==
    ASSUME NEW n \in Nat
    PROVE  NewWindow \in Windows(n) /\ ~NewWindow.loading
  <1>1. UniqueIds(<<>>)
    BY DEF UniqueIds
  <1> QED
    BY <1>1 DEF NewWindow, Windows

\* The workspace arrives: the window is there, or is opened anew.
LEMMA SessionsFacts ==
    ASSUME NEW n \in Nat, NEW p \in Pages(n), NEW f \in SessionFrames
    PROVE  LET q == ProcessSessions(p, f)
           IN  q \in Pages(n) /\ Follows(p, q) /\ (q.win.loading => AsksHistory(q.out))
  <1> DEFINE p1 == [p EXCEPT !.there = f.alive, !.isOpen = f.alive /\ p.there /\ @,
                            !.win = NewWindow, !.loaded = TRUE]
             q == EnsureSessionReady(p1)
  <1>1. f.alive \in BOOLEAN
    BY Zenon DEF SessionFrames
  <1>2. p1 \in Pages(n) /\ p1.win = NewWindow /\ p1.out = p.out /\ p1.cell = p.cell
    <2> HIDE DEF NewWindow
    <2> QED
      BY <1>1, NewWindowTyped, Zenon DEF Pages
  <1>3. ProcessSessions(p, f) = IF p1.link = "up" /\ p1.isOpen THEN q ELSE p1
    BY Zenon DEF ProcessSessions
  <1> HIDE DEF p1
  <1>4. ~p1.win.loading /\ Follows(p, p1)
    BY <1>2, NewWindowTyped, Zenon DEF Follows
  <1>5. q \in Pages(n) /\ Follows(p1, q) /\ (q.win.loading => p1.win.loading \/ AsksHistory(q.out))
    BY <1>2, EnsureFacts, Zenon
  <1> HIDE DEF q
  <1>6. Follows(p, q)
    BY <1>4, <1>5, FollowsTrans, Zenon
  <1>7. CASE p1.link = "up" /\ p1.isOpen
    BY <1>3, <1>4, <1>5, <1>6, <1>7, Zenon
  <1>8. CASE ~(p1.link = "up" /\ p1.isOpen)
    BY <1>2, <1>3, <1>4, <1>8, Zenon
  <1> QED
    BY <1>7, <1>8, Zenon

\* What handling the frame f does to a page that waits for history.
FrameStep(n, p, f, q) ==
    /\ q \in Pages(n) /\ Follows(p, q)
    /\ Waits(q) => \/ AsksHistory(q.out)
                   \/ Waits(p) /\ f.kind \notin {"history", "sessions", "error"}

\* A frame that leaves the loading flag alone.
LEMMA OtherWindowSteps ==
    ASSUME NEW n \in Nat, NEW p \in Pages(n), NEW f, NEW q, OtherWindow(n, p, q),
           f.kind \notin {"history", "sessions", "error"}
    PROVE  FrameStep(n, p, f, q)
  <1>1. PICK w \in Windows(n) : q = [p EXCEPT !.win = w] /\ w.loading = p.win.loading
    BY Zenon DEF OtherWindow
  <1>2. q \in Pages(n) /\ q.win = w /\ q.link = p.link /\ q.there = p.there /\ Follows(p, q)
    BY <1>1, PageWithWindow, ZenonT(30)
  <1> QED
    BY <1>1, <1>2, Zenon DEF FrameStep, Waits

\* The kinds of the frames.
LEMMA FrameKinds ==
    ASSUME NEW n \in Nat, NEW f \in UiFrames(n)
    PROVE  /\ f.kind \in {"history", "error", "subscribed", "deleted", "absent", "sessions",
                          "user", "delta", "clear", "answer", "completed"}
           /\ f.kind = "history" => f \in HistoryFrames(n)
           /\ f.kind = "sessions" => f \in SessionFrames
           /\ f.kind \in {"user", "delta", "clear", "answer", "completed"} => f.turn \in UiTurns
  <1>1. /\ \A g \in HistoryFrames(n) : g.kind = "history"
        /\ \A g \in PlainFrames : g.kind \in {"error", "subscribed", "deleted", "absent"}
        /\ \A g \in SessionFrames : g.kind = "sessions"
        /\ \A g \in TurnFrames : /\ g.kind \in {"user", "delta", "clear", "answer", "completed"}
                                 /\ g.turn \in UiTurns
    BY Zenon DEF HistoryFrames, PlainFrames, SessionFrames, TurnFrames
  <1>2. \/ f \in HistoryFrames(n) \/ f \in PlainFrames \/ f \in SessionFrames \/ f \in TurnFrames
    BY Zenon DEF UiFrames
  <1> QED
    BY <1>1, <1>2

\* A frame about the window when the page has it.
LEMMA SessionFrameFacts ==
    ASSUME NEW n \in Nat, NEW p \in Pages(n), NEW f \in UiFrames(n), f.kind \notin {"sessions", "error"}
    PROVE  FrameStep(n, p, f, ProcessSessionFrame(p, f))
  <1> DEFINE q == ProcessSessionFrame(p, f)
  <1>1. CASE f.kind = "history"
    <2>1. PICK w \in Windows(n) : ProcessHistory(p, f) = [p EXCEPT !.win = w] /\ ~w.loading
      BY <1>1, FrameKinds, HistoryWindow, Zenon
    <2>2. q = ProcessHistory(p, f)
      BY <1>1 DEF ProcessSessionFrame
    <2> HIDE DEF q
    <2>3. q = [p EXCEPT !.win = w]
      BY <2>1, <2>2, Zenon
    <2>4. q \in Pages(n) /\ q.win = w /\ Follows(p, q)
      BY <2>3, PageWithWindow, Zenon
    <2> QED
      BY <2>1, <2>4, Zenon DEF FrameStep, Waits, q
  <1>2. CASE f.kind = "deleted"
    <2>1. q = [p EXCEPT !.there = FALSE, !.isOpen = FALSE, !.win = NewWindow]
      BY <1>2 DEF ProcessSessionFrame
    <2>2. q \in Pages(n) /\ ~q.there /\ q.out = p.out /\ q.cell = p.cell
      <3> HIDE DEF NewWindow, q
      <3> QED
        BY <2>1, NewWindowTyped, Zenon DEF Pages
    <2> HIDE DEF q
    <2> QED
      BY <2>2, Zenon DEF FrameStep, Waits, Follows, q
  <1>3. CASE f.kind \notin {"history", "deleted"}
    <2>1. OtherWindow(n, p, q)
      <3>1. CASE f.kind = "subscribed"
        <4>1. q = [p EXCEPT !.win.subscribed = TRUE]
          BY <3>1 DEF ProcessSessionFrame
        <4> QED
          BY <4>1, SameWindow, Zenon
      <3>2. CASE f.kind = "user"
        <4>1. q = ProcessUser(p, f.turn)
          BY <3>2 DEF ProcessSessionFrame
        <4> QED
          BY <3>2, <4>1, FrameKinds, UserWindow, Zenon
      <3>3. CASE f.kind = "delta"
        <4>1. q = ProcessDelta(p, f.turn)
          BY <3>3 DEF ProcessSessionFrame
        <4> QED
          BY <3>3, <4>1, FrameKinds, DeltaWindow, Zenon
      <3>4. CASE f.kind = "clear"
        <4>1. q = ProcessClear(p, f.turn)
          BY <3>4 DEF ProcessSessionFrame
        <4> QED
          BY <3>4, <4>1, FrameKinds, ClearWindow, Zenon
      <3>5. CASE f.kind = "answer"
        <4>1. q = ProcessAnswer(p, f.turn)
          BY <3>5 DEF ProcessSessionFrame
        <4> QED
          BY <3>5, <4>1, FrameKinds, AnswerWindow, Zenon
      <3>6. CASE f.kind = "completed"
        <4>1. q = [ProcessAnswer(p, f.turn) EXCEPT !.win.stream = {}]
          BY <3>6 DEF ProcessSessionFrame
        <4> QED
          <5>1. OtherWindow(n, p, [ProcessAnswer(p, f.turn) EXCEPT !.win.stream = {}])
            BY <3>6, FrameKinds, CompletedWindow, Zenon
          <5> HIDE DEF q
          <5> QED
            BY <4>1, <5>1, Zenon
      <3>7. CASE f.kind = "absent"
        <4>1. q = p
          BY <3>7 DEF ProcessSessionFrame
        <4> QED
          BY <4>1, SameWindow, Zenon
      <3> HIDE DEF q
      <3> QED
        BY <1>3, <3>1, <3>2, <3>3, <3>4, <3>5, <3>6, <3>7, FrameKinds, Zenon
    <2> HIDE DEF q
    <2> QED
      BY <1>3, <2>1, OtherWindowSteps, Zenon DEF q
  <1> HIDE DEF q
  <1> QED
    BY <1>1, <1>2, <1>3, Zenon DEF q

\* process_frame.
LEMMA FrameFacts ==
    ASSUME NEW n \in Nat, NEW p \in Pages(n), NEW f \in UiFrames(n)
    PROVE  FrameStep(n, p, f, ProcessFrame(p, f))
  <1> DEFINE q == ProcessFrame(p, f)
  <1>1. CASE f.kind = "error"
    <2>1. q = [p EXCEPT !.link = "error", !.loaded = FALSE]
      BY <1>1 DEF ProcessFrame
    <2>2. q \in Pages(n) /\ q.link = "error" /\ q.out = p.out /\ q.cell = p.cell
      <3> HIDE DEF q
      <3> QED
        BY <2>1, Zenon DEF Pages, Links
    <2> HIDE DEF q
    <2> QED
      BY <2>2, Zenon DEF FrameStep, Waits, Follows, q
  <1>2. CASE f.kind = "sessions"
    <2>1. q = ProcessSessions(p, f)
      BY <1>2 DEF ProcessFrame
    <2> QED
      BY <1>2, <2>1, FrameKinds, SessionsFacts, Zenon DEF FrameStep, Waits
  <1>3. CASE f.kind \notin {"sessions", "error"}
    <2>1. q = IF p.there THEN ProcessSessionFrame(p, f) ELSE p
      BY <1>3 DEF ProcessFrame
    <2>2. CASE p.there
      BY <1>3, <2>1, <2>2, SessionFrameFacts, Zenon
    <2>3. CASE ~p.there
      BY <2>1, <2>3, Zenon DEF FrameStep, Waits, Follows
    <2> QED
      BY <2>2, <2>3, Zenon
  <1> HIDE DEF q
  <1> QED
    BY <1>1, <1>2, <1>3, Zenon DEF q

----------------------------------------------------------------------------
(* A repaint handles every frame of the inbox.                             *)

PaintGraph(g) ==
    g = [k \in 0 .. Len(inbox) |-> IF k = 0 THEN page ELSE ProcessFrame(g[k - 1], inbox[k])]
Painted == CHOOSE g : PaintGraph(g)

\* The recursion of process_pending_frames computes its steps.
LEMMA PaintedExists ==
    ASSUME NEW n \in Nat, page \in Pages(n), inbox \in Seq(UiFrames(n))
    PROVE  PaintGraph(Painted)
  <1> DEFINE len == Len(inbox)
             P == Pages(n)
             F == [i \in 1 .. len |-> [q \in P |-> ProcessFrame(q, inbox[i])]]
  <1>1. len \in Nat /\ \A i \in 1 .. len : inbox[i] \in UiFrames(n)
    OBVIOUS
  <1> HIDE DEF len
  <1>2. \A i \in 1 .. len : \A q \in P : ProcessFrame(q, inbox[i]) \in P
    BY <1>1, FrameFacts, Zenon DEF FrameStep
  <1>3. F \in [1 .. len -> [P -> P]]
    <2> HIDE DEF P
    <2> QED
      BY <1>2, Zenon
  <1>4. PICK g \in [0 .. len -> P] : IsRun(len, page, F, g)
    <2> HIDE DEF F, P
    <2>1. page \in P
      BY Zenon DEF P
    <2> QED
      BY <1>1, <1>3, <2>1, RunExists, Zenon
  <1>5. \A k \in 0 .. len : k = 0 \/ (k \in 1 .. len /\ k - 1 \in 0 .. len)
    BY <1>1
  <1>6. \A k \in 0 .. len : g[k] = IF k = 0 THEN page ELSE ProcessFrame(g[k - 1], inbox[k])
    <2> SUFFICES ASSUME NEW k \in 1 .. len, k - 1 \in 0 .. len
                 PROVE  g[k] = ProcessFrame(g[k - 1], inbox[k])
      BY <1>4, <1>5, Zenon DEF IsRun
    <2>1. g[k - 1] \in P
      BY Zenon
    <2> HIDE DEF P
    <2> QED
      BY <1>4, <2>1, Zenon DEF IsRun
  <1>7. PaintGraph(g)
    BY <1>6, Zenon DEF PaintGraph, len
  <1> QED
    BY <1>7, Zenon DEF Painted

\* Whatever the buffer holds, the page after it waits for a request it just made, or for what is beyond the buffer.
LEMMA RepaintFacts ==
    ASSUME NEW n \in Nat, page \in Pages(n), inbox \in Seq(UiFrames(n))
    PROVE  LET q == ProcessPendingFrames
           IN  /\ q \in Pages(n) /\ Follows(page, q)
               /\ Waits(q) => AsksHistory(q.out) \/ (Waits(page) /\ ~Answered(inbox))
  <1> DEFINE len == Len(inbox)
             g == Painted
             Quiet(k) == \A i \in 1 .. k : inbox[i].kind \notin {"history", "sessions", "error"}
             Good(k) == /\ g[k] \in Pages(n) /\ Follows(page, g[k])
                        /\ Waits(g[k]) => AsksHistory(g[k].out) \/ (Waits(page) /\ Quiet(k))
             S == {k \in 0 .. len : Good(k)}
  <1>1. /\ len \in Nat /\ DOMAIN inbox = 1 .. len /\ 0 \in 0 .. len /\ len \in 0 .. len
        /\ \A k \in 1 .. len : k \in 0 .. len /\ k # 0
        /\ \A k \in 1 .. 0 : FALSE
        /\ \A i \in 1 .. len : inbox[i] \in UiFrames(n)
    OBVIOUS
  <1>2. PaintGraph(g)
    BY PaintedExists, Zenon
  <1> HIDE DEF g, len
  <1>3. \A k \in 0 .. len : g[k] = IF k = 0 THEN page ELSE ProcessFrame(g[k - 1], inbox[k])
    BY <1>2, Zenon DEF PaintGraph, len
  <1>4. g[0] = page
    BY <1>1, <1>3, Zenon
  <1>5. ASSUME NEW k \in 1 .. len
        PROVE  g[k] = ProcessFrame(g[k - 1], inbox[k])
    BY <1>1, <1>3, Zenon
  <1>6. 0 \in S
    BY <1>1, <1>4, Zenon DEF Follows
  <1>7. ASSUME NEW k \in 1 .. len, k - 1 \in S PROVE k \in S
    <2> DEFINE p == g[k - 1]
               q == g[k]
    <2>1. Good(k - 1)
      BY <1>7, Zenon
    <2>2. FrameStep(n, p, inbox[k], q)
      BY <1>1, <1>5, <2>1, FrameFacts, Zenon
    <2>3. k \in 0 .. len /\ \A i \in 1 .. k : i = k \/ i \in 1 .. (k - 1)
      BY <1>1
    <2>4. Quiet(k - 1) /\ inbox[k].kind \notin {"history", "sessions", "error"} => Quiet(k)
      BY <2>3, Zenon
    <2> HIDE DEF p, q, Quiet
    <2>5. q \in Pages(n) /\ Follows(page, q)
      BY <2>1, <2>2, FollowsTrans, Zenon DEF FrameStep, p
    <2>6. Waits(q) => AsksHistory(q.out) \/ (Waits(page) /\ Quiet(k))
      <3> SUFFICES ASSUME Waits(q), ~AsksHistory(q.out) PROVE Waits(page) /\ Quiet(k)
        BY Zenon
      <3>1. Waits(p) /\ inbox[k].kind \notin {"history", "sessions", "error"}
        BY <2>2, Zenon DEF FrameStep
      <3>2. ~AsksHistory(p.out)
        BY <2>2, Zenon DEF FrameStep, Follows
      <3> QED
        BY <2>1, <2>4, <3>1, <3>2, Zenon DEF p
    <2> QED
      BY <2>3, <2>5, <2>6, Zenon DEF q
  <1>8. Good(len)
    <2>1. len \in S
      <3> HIDE DEF S
      <3> QED
        BY <1>1, <1>6, <1>7, UpTo, Zenon
    <2> QED
      BY <2>1, Zenon
  <1>9. ProcessPendingFrames = g[len]
    BY Zenon DEF ProcessPendingFrames, Painted, PaintGraph, g, len
  <1> QED
    BY <1>1, <1>8, <1>9, Zenon DEF Answered

----------------------------------------------------------------------------
(* The requests of the page and the frames of the gateway.                 *)

Keeps(old, new) == \A s \in Socks : AsksFor(old[s]) => AsksFor(new[s])
SomeAsks(rs)    == \E s \in Socks : sock[s] = "open" /\ AsksFor(rs[s])

\* What a page sends reaches the open socket behind what is there.
LEMMA BecomesFacts ==
    ASSUME NEW n \in Nat, page \in Pages(n), page.out = <<>>,
           requests \in [Socks -> Seq(UiRequests(n))],
           NEW q \in Pages(n), Follows(page, q), Becomes(q)
    PROVE  /\ page' \in Pages(n) /\ page'.out = <<>> /\ (Waits(page') => Waits(q))
           /\ requests' \in [Socks -> Seq(UiRequests(n))]
           /\ Keeps(requests, requests')
           /\ AsksHistory(q.out) => SomeAsks(requests')
  <1> DEFINE c == page.cell
  <1>1. page' \in Pages(n) /\ page'.out = <<>> /\ (Waits(page') => Waits(q))
    <2>1. page' = [q EXCEPT !.out = <<>>]
      BY Zenon DEF Becomes
    <2>2. /\ page' \in Pages(n) /\ page'.out = <<>>
          /\ page'.link = q.link /\ page'.there = q.there /\ page'.win = q.win
      BY <2>1, Zenon DEF Pages
    <2> QED
      BY <2>2, Zenon DEF Waits
  <1>2. CASE q.out = <<>>
    <2>1. requests' = requests
      BY <1>2, Zenon DEF Becomes
    <2>2. ~AsksHistory(q.out)
      BY <1>2 DEF AsksHistory
    <2> QED
      BY <1>1, <2>1, <2>2, Zenon DEF Keeps
  <1>3. CASE q.out # <<>>
    <2>1. CanSend
      BY <1>3, Zenon DEF Follows
    <2>2. c \in Socks /\ sock[c] = "open"
      BY <2>1, PageFields, Zenon DEF CanSend
    <2>3. q.out \in Seq(UiRequests(n)) /\ requests[c] \in Seq(UiRequests(n))
      BY <2>2, PageFields, Zenon
    <2> DEFINE o == requests[c] \o q.out
    <2>4. requests' = [requests EXCEPT ![c] = o]
      BY <1>3, Zenon DEF Becomes
    <2>5. /\ o \in Seq(UiRequests(n))
          /\ \A i \in DOMAIN requests[c] : i \in DOMAIN o /\ o[i] = requests[c][i]
          /\ \A i \in DOMAIN q.out : Len(requests[c]) + i \in DOMAIN o /\ o[Len(requests[c]) + i] = q.out[i]
      <3> DEFINE a == requests[c]
                 b == q.out
      <3> HIDE DEF a, b
      <3>1. a \in Seq(UiRequests(n)) /\ b \in Seq(UiRequests(n)) /\ o = a \o b
        BY <2>3, Zenon DEF a, b
      <3>2. /\ a \o b \in Seq(UiRequests(n))
            /\ \A i \in DOMAIN a : i \in DOMAIN (a \o b) /\ (a \o b)[i] = a[i]
            /\ \A i \in DOMAIN b : Len(a) + i \in DOMAIN (a \o b) /\ (a \o b)[Len(a) + i] = b[i]
        BY <3>1
      <3> QED
        BY <3>1, <3>2, Zenon DEF a, b
    <2> HIDE DEF o, c
    <2>6. /\ requests' \in [Socks -> Seq(UiRequests(n))] /\ requests'[c] = o
          /\ \A s \in Socks : s # c => requests'[s] = requests[s]
      BY <2>2, <2>4, <2>5, Zenon
    <2>7. AsksFor(requests[c]) \/ AsksHistory(q.out) => AsksFor(o)
      BY <2>5, Zenon DEF AsksFor, AsksHistory
    <2>8. Keeps(requests, requests')
      BY <2>6, <2>7, Zenon DEF Keeps
    <2>9. AsksHistory(q.out) => SomeAsks(requests')
      BY <2>2, <2>6, <2>7, Zenon DEF SomeAsks
    <2> QED
      BY <1>1, <2>6, <2>8, <2>9, Zenon
  <1> QED
    BY <1>2, <1>3, Zenon

\* What a page sends keeps the invariant of the loading flag.
LEMMA BecomesLoads ==
    ASSUME LoadInv, NEW q, Waits(page') => Waits(q), Keeps(requests, requests'),
           AsksHistory(q.out) => SomeAsks(requests'),
           Waits(q) => AsksHistory(q.out) \/ (Waits(page) /\ (Answered(inbox) => Answered(inbox'))),
           sock' = sock
    PROVE  LoadInv'
  <1>1. SomeAsks(requests) => SomeAsks(requests')
    BY Zenon DEF SomeAsks, Keeps
  <1>2. LoadInv' = (Waits(page') => Answered(inbox') \/ SomeAsks(requests'))
    BY Zenon DEF LoadInv, SomeAsks, Waits, Answered, AsksFor
  <1>3. Waits(page) => Answered(inbox) \/ SomeAsks(requests)
    BY Zenon DEF LoadInv, SomeAsks
  <1> QED
    BY <1>1, <1>2, <1>3, Zenon

\* What the gateway sends is a frame.
LEMMA FramesTyped ==
    ASSUME NEW n \in Nat
    PROVE  /\ \A k \in {"error", "subscribed", "deleted", "absent"} : [kind |-> k] \in UiFrames(n)
           /\ \A a \in BOOLEAN : [kind |-> "sessions", alive |-> a] \in UiFrames(n)
           /\ \A k \in {"user", "delta", "clear", "answer", "completed"} : \A t \in UiTurns :
                 [kind |-> k, turn |-> t] \in UiFrames(n)
           /\ HistoryFrames(n) \subseteq UiFrames(n)
  <1>1. \A k \in {"error", "subscribed", "deleted", "absent"} : [kind |-> k] \in PlainFrames
    BY Zenon DEF PlainFrames
  <1>2. \A a \in BOOLEAN : [kind |-> "sessions", alive |-> a] \in SessionFrames
    BY Zenon DEF SessionFrames
  <1>3. \A k \in {"user", "delta", "clear", "answer", "completed"} : \A t \in UiTurns :
           [kind |-> k, turn |-> t] \in TurnFrames
    BY Zenon DEF TurnFrames
  <1> QED
    BY <1>1, <1>2, <1>3, Zenon DEF UiFrames

\* A frame for one socket.
LEMMA PutFacts ==
    ASSUME NEW n \in Nat, inbox \in Seq(UiFrames(n)), NEW f \in UiFrames(n), NEW s, Put(s, f)
    PROVE  /\ inbox' \in Seq(UiFrames(n))
           /\ Answered(inbox) => Answered(inbox')
           /\ Reaches(s) /\ f.kind \in {"history", "sessions", "error"} => Answered(inbox')
  <1> DEFINE all == Append(inbox, f)
  <1>1. /\ all \in Seq(UiFrames(n)) /\ DOMAIN all = DOMAIN inbox \cup {Len(inbox) + 1}
        /\ \A i \in DOMAIN inbox : all[i] = inbox[i]
        /\ all[Len(inbox) + 1] = f
    OBVIOUS
  <1>2. inbox' = IF Reaches(s) THEN all ELSE inbox
    BY Zenon DEF Put
  <1> HIDE DEF all
  <1>3. Answered(inbox) \/ f.kind \in {"history", "sessions", "error"} => Answered(all)
    BY <1>1, Zenon DEF Answered
  <1>4. Answered(inbox)' = Answered(inbox')
    BY Zenon DEF Answered
  <1>5. CASE Reaches(s)
    BY <1>1, <1>2, <1>3, <1>5, Zenon
  <1>6. CASE ~Reaches(s)
    BY <1>2, <1>6, Zenon
  <1> QED
    BY <1>5, <1>6, Zenon

\* A frame for all listeners.
LEMMA SendAllFacts ==
    ASSUME NEW n \in Nat, inbox \in Seq(UiFrames(n)), NEW f \in UiFrames(n),
           NEW to \in SUBSET Socks, SendAll(to, f)
    PROVE  /\ inbox' \in Seq(UiFrames(n))
           /\ Answered(inbox) => Answered(inbox')
  <1> DEFINE T == {s \in to : Reaches(s)}
             c == Cardinality(T)
             more == [i \in 1 .. c |-> f]
  <1>1. c \in Nat
    <2>1. IsFiniteSet(Socks)
      BY ClientAssumption, FS_Interval DEF Socks
    <2>2. T \in SUBSET Socks
      BY Zenon
    <2> HIDE DEF T
    <2> QED
      BY <2>1, <2>2, FS_Subset, FS_CardinalityType, Zenon
  <1>2. inbox' = inbox \o more
    BY Zenon DEF SendAll
  <1> HIDE DEF c
  <1>3. more \in Seq(UiFrames(n))
    BY <1>1
  <1> HIDE DEF more
  <1>4. /\ inbox \o more \in Seq(UiFrames(n))
        /\ \A i \in DOMAIN inbox : i \in DOMAIN (inbox \o more) /\ (inbox \o more)[i] = inbox[i]
    BY <1>3
  <1> QED
    BY <1>2, <1>4, Zenon DEF Answered

\* The records of one page of history.
LEMMA HistoryTyped ==
    ASSUME stored \in Seq(Roles), NEW b \in 0 .. Len(stored)
    PROVE  HistoryPage(b) \in HistoryFrames(Len(stored)) /\ HistoryPage(b).kind = "history"
  <1> DEFINE n == Len(stored)
             end == IF b = 0 THEN n ELSE b - 1
             start == IF end > PageSize THEN end - PageSize + 1 ELSE 1
             len == end - start + 1
             At(i) == Message(stored[start + i - 1], RecordId(start + i - 1), {})
             ms == [i \in 1 .. len |-> At(i)]
             old == IF end = 0 THEN 0 ELSE start
             more == start > 1
  <1>1. n \in Nat /\ end \in 0 .. n
    OBVIOUS
  <1> HIDE DEF end, n
  <1>2. start \in Nat \ {0} /\ len \in Nat /\ start + len - 1 <= n /\ old \in 0 .. n
    BY <1>1, ClientAssumption
  <1> HIDE DEF start
  <1>3. \A i \in 1 .. len : start + i - 1 \in 1 .. n
    BY <1>1, <1>2
  <1>4. \A i \in 1 .. len : At(i) \in Messages /\ At(i).id = RecordId(start + i - 1)
    <2> TAKE i \in 1 .. len
    <2>1. stored[start + i - 1] \in Roles /\ start + i - 1 \in Nat
      BY <1>3 DEF n
    <2>2. RecordId(start + i - 1) \in MessageIds
      BY <2>1, Zenon DEF MessageIds
    <2> QED
      BY <2>1, <2>2, Zenon DEF Message, Messages
  <1> HIDE DEF len, At
  <1>5. ms \in Seq(Messages) /\ DOMAIN ms = 1 .. len /\ \A i \in 1 .. len : ms[i] = At(i)
    BY <1>2, <1>4
  <1> HIDE DEF ms
  <1>6. UniqueIds(ms)
    <2> SUFFICES ASSUME NEW i \in 1 .. len, NEW j \in 1 .. len, ms[i].id = ms[j].id
                 PROVE  i = j
      BY <1>5, Zenon DEF UniqueIds
    <2>1. RecordId(start + i - 1) = RecordId(start + j - 1)
      BY <1>4, <1>5, Zenon
    <2> QED
      BY <1>2, <2>1 DEF RecordId
  <1>7. HistoryPage(b) = [kind |-> "history", messages |-> ms, more |-> more, oldest |-> old]
    BY Zenon DEF HistoryPage, ms, At, len, start, end, n
  <1>8. more \in BOOLEAN
    BY <1>2
  <1> HIDE DEF old, more
  <1> QED
    BY <1>2, <1>5, <1>6, <1>7, <1>8 DEF HistoryFrames, n

\* The rest of a socket's requests.
LEMMA TailFacts ==
    ASSUME NEW n \in Nat, NEW rs \in Seq(UiRequests(n)), rs # <<>>
    PROVE  /\ Tail(rs) \in Seq(UiRequests(n)) /\ Head(rs) \in UiRequests(n)
           /\ AsksFor(rs) => AsksFor(Tail(rs)) \/ Head(rs).kind \in {"history", "list"}
  <1>1. /\ Tail(rs) \in Seq(UiRequests(n)) /\ Head(rs) \in UiRequests(n)
        /\ \A i \in DOMAIN rs : rs[i] = Head(rs) \/ (i - 1 \in DOMAIN Tail(rs) /\ Tail(rs)[i - 1] = rs[i])
    OBVIOUS
  <1> QED
    BY <1>1, Zenon DEF AsksFor

\* What the gateway does keeps the invariant of the loading flag.
LEMMA GatewayLoads ==
    ASSUME LoadInv, page' = page, sock' = sock, Answered(inbox) => Answered(inbox'),
           \A s \in Socks : sock[s] = "open" /\ AsksFor(requests[s])
                                => AsksFor(requests'[s]) \/ Answered(inbox')
    PROVE  LoadInv'
  <1>1. LoadInv' = (Waits(page) => Answered(inbox') \/ \E s \in Socks : sock[s] = "open" /\ AsksFor(requests'[s]))
    BY Zenon DEF LoadInv, Waits, Answered, AsksFor
  <1> QED
    BY <1>1, Zenon DEF LoadInv

\* Records that are added leave what is on its way well typed.
LEMMA Monotone ==
    ASSUME NEW n \in Nat, NEW m \in Nat, n <= m
    PROVE  /\ Pages(n) \subseteq Pages(m)
           /\ Seq(UiFrames(n)) \subseteq Seq(UiFrames(m))
           /\ [Socks -> Seq(UiRequests(n))] \subseteq [Socks -> Seq(UiRequests(m))]
  <1>1. 0 .. n \subseteq 0 .. m
    OBVIOUS
  <1>2. UiRequests(n) \subseteq UiRequests(m)
    BY <1>1, Zenon DEF UiRequests, HistoryRequests
  <1>3. UiFrames(n) \subseteq UiFrames(m)
    <2>1. HistoryFrames(n) \subseteq HistoryFrames(m)
      BY <1>1, Zenon DEF HistoryFrames
    <2> QED
      BY <2>1, Zenon DEF UiFrames
  <1>4. Seq(UiRequests(n)) \subseteq Seq(UiRequests(m)) /\ Seq(UiFrames(n)) \subseteq Seq(UiFrames(m))
    BY <1>2, <1>3
  <1>5. Windows(n) \subseteq Windows(m)
    BY <1>1, Zenon DEF Windows
  <1>6. Pages(n) \subseteq Pages(m)
    BY <1>4, <1>5, Zenon DEF Pages
  <1> QED
    BY <1>4, <1>6, Zenon

----------------------------------------------------------------------------
(* The invariant.                                                          *)

\* The invariant holds at the start.
LEMMA UiInitInv == UiInit => UiInv
  <1> SUFFICES ASSUME UiInit PROVE UiInv
    BY Zenon
  <1> DEFINE n == Len(stored)
  <1>1. PICK there, isOpen \in BOOLEAN :
          page = [link |-> "down", cell |-> 0, loaded |-> FALSE, there |-> there,
                  isOpen |-> there /\ isOpen, win |-> NewWindow, out |-> <<>>]
    BY Zenon DEF UiInit
  <1>2. stored \in Seq(Roles) /\ n \in Nat
    <2>1. PICK k \in 0 .. MaxStored : stored = [i \in 1 .. k |-> IF i % 2 = 1 THEN "user" ELSE "assistant"]
      BY Zenon DEF UiInit
    <2>2. k \in Nat
      BY ClientAssumption
    <2>3. \A i \in 1 .. k : (IF i % 2 = 1 THEN "user" ELSE "assistant") \in Roles
      BY Zenon DEF Roles
    <2>4. stored \in [1 .. k -> Roles]
      BY <2>1, <2>3, Zenon
    <2> QED
      BY <2>2, <2>4
  <1> HIDE DEF n
  <1>3. page \in Pages(n) /\ page.out = <<>> /\ page.link = "down"
    <2>1. NewWindow \in Windows(n) /\ <<>> \in Seq(UiRequests(n))
      BY <1>2, NewWindowTyped
    <2> HIDE DEF NewWindow
    <2> QED
      BY <1>1, <2>1, Zenon DEF Pages, Links
  <1>4. <<>> \in Seq(UiFrames(n)) /\ <<>> \in Seq(UiRequests(n))
    OBVIOUS
  <1>5. 0 \in 0 .. MaxRefusals /\ 0 \in 0 .. MaxActs
    BY ClientAssumption
  <1>6. UiTypeOK
    BY <1>2, <1>3, <1>4, <1>5, Zenon DEF UiInit, UiTypeOK, SocketStates, Places, n
  <1>7. LoadInv
    BY <1>3 DEF LoadInv, Waits
  <1> QED
    BY <1>6, <1>7, Zenon DEF UiInv

\* The steps that change neither the records nor the gateway.
PageSide ==
    /\ sock' \in [Socks -> SocketStates]
    /\ page' \in Pages(Len(stored)) /\ page'.out = <<>>
    /\ inbox' \in Seq(UiFrames(Len(stored)))
    /\ requests' \in [Socks -> Seq(UiRequests(Len(stored)))]
    /\ acts' \in 0 .. MaxActs
GatewaySide ==
    /\ listeners' \in SUBSET Socks /\ alive' \in BOOLEAN /\ reply' \in [UiTurns -> Places]
    /\ refusals' \in 0 .. MaxRefusals

\* The two sides of the state.
LEMMA SidesTyped ==
    ASSUME UiTypeOK, PageSide, GatewaySide, stored' = stored
    PROVE  UiTypeOK'
  BY Zenon DEF UiTypeOK, PageSide, GatewaySide

\* A step of the page leaves the gateway's side.
LEMMA GatewayKept ==
    ASSUME UiTypeOK, UNCHANGED Gateway
    PROVE  GatewaySide /\ stored' = stored
  BY Zenon DEF UiTypeOK, Gateway, GatewaySide

\* The user acts a bounded number of times.
LEMMA ActsTyped ==
    ASSUME UiTypeOK
    PROVE  /\ acts \in 0 .. MaxActs /\ (Acts => acts' \in 0 .. MaxActs) /\ Len(stored) \in Nat
           /\ refusals \in 0 .. MaxRefusals
           /\ refusals < MaxRefusals => refusals + 1 \in 0 .. MaxRefusals
  <1>1. acts \in 0 .. MaxActs /\ refusals \in 0 .. MaxRefusals /\ stored \in Seq(Roles)
    BY Zenon DEF UiTypeOK
  <1> QED
    BY <1>1, ClientAssumption DEF Acts

\* The page becomes q, and sends what q asks.
LEMMA BecomesStep ==
    ASSUME UiInv, NEW q \in Pages(Len(stored)), Follows(page, q), Becomes(q),
           Waits(q) => AsksHistory(q.out) \/ (Waits(page) /\ (Answered(inbox) => Answered(inbox'))),
           inbox' \in {inbox, <<>>}, acts' = acts \/ Acts, sock' = sock, stored' = stored,
           GatewaySide
    PROVE  UiInv'
  <1> DEFINE n == Len(stored)
  <1>1. UiTypeOK /\ LoadInv /\ n \in Nat
    BY ActsTyped, Zenon DEF UiInv
  <1>2. /\ page' \in Pages(n) /\ page'.out = <<>> /\ (Waits(page') => Waits(q))
        /\ requests' \in [Socks -> Seq(UiRequests(n))]
        /\ Keeps(requests, requests')
        /\ AsksHistory(q.out) => SomeAsks(requests')
    <2>1. page \in Pages(n) /\ page.out = <<>> /\ requests \in [Socks -> Seq(UiRequests(n))]
      BY <1>1, Zenon DEF UiTypeOK
    <2> HIDE DEF n
    <2>2. q \in Pages(n)
      BY Zenon DEF n
    <2> QED
      BY <1>1, <2>1, <2>2, BecomesFacts, Zenon
  <1>3. inbox' \in Seq(UiFrames(n))
    <2>1. inbox \in Seq(UiFrames(n)) /\ <<>> \in Seq(UiFrames(n))
      BY <1>1 DEF UiTypeOK
    <2> QED
      BY <2>1, Zenon
  <1>4. PageSide
    <2>1. sock' \in [Socks -> SocketStates] /\ acts' \in 0 .. MaxActs
      BY <1>1, ActsTyped, Zenon DEF UiTypeOK
    <2> QED
      BY <1>2, <1>3, <2>1, Zenon DEF PageSide
  <1>5. UiTypeOK'
    BY <1>1, <1>4, SidesTyped, Zenon
  <1>6. LoadInv'
    BY <1>1, <1>2, BecomesLoads, Zenon
  <1> QED
    BY <1>5, <1>6, Zenon DEF UiInv

\* A repaint.
LEMMA RepaintStep == UiInv /\ Repaint => UiInv'
  <1> SUFFICES ASSUME UiInv, Repaint PROVE UiInv'
    BY Zenon
  <1> DEFINE n == Len(stored)
             q == ProcessPendingFrames
  <1>1. UiTypeOK /\ n \in Nat /\ page \in Pages(n) /\ inbox \in Seq(UiFrames(n))
    BY ActsTyped, Zenon DEF UiInv, UiTypeOK
  <1>2. /\ q \in Pages(n) /\ Follows(page, q)
        /\ Waits(q) => AsksHistory(q.out) \/ (Waits(page) /\ ~Answered(inbox))
    <2> HIDE DEF n
    <2> QED
      BY <1>1, RepaintFacts, Zenon
  <1>3. Becomes(q) /\ inbox' = <<>> /\ sock' = sock /\ UNCHANGED Gateway /\ acts' = acts
    BY Zenon DEF Repaint
  <1> HIDE DEF q
  <1>4. GatewaySide /\ stored' = stored
    BY <1>1, <1>3, GatewayKept, Zenon
  <1> QED
    BY <1>2, <1>3, <1>4, BecomesStep, Zenon

\* What the user does in the window.
LEMMA WorkspaceStep ==
    UiInv /\ (FocusSession \/ CloseWindow \/ ScrollUp \/ DeleteSession \/ \E t \in UiTurns : SendInput(t)) => UiInv'
  <1> SUFFICES ASSUME UiInv,
                      FocusSession \/ CloseWindow \/ ScrollUp \/ DeleteSession \/ \E t \in UiTurns : SendInput(t)
               PROVE  UiInv'
    BY Zenon
  <1> DEFINE n == Len(stored)
  <1>1. UiTypeOK /\ LoadInv /\ n \in Nat /\ page \in Pages(n) /\ page.out = <<>>
    BY ActsTyped, Zenon DEF UiInv, UiTypeOK
  <1>3. CASE FocusSession
    <2> DEFINE p == [page EXCEPT !.isOpen = TRUE]
               q == EnsureSessionReady(p)
    <2>1. /\ p \in Pages(n) /\ p.link = page.link /\ p.there = page.there /\ p.win = page.win
          /\ p.cell = page.cell /\ p.out = page.out
      BY <1>1, Zenon DEF Pages
    <2>2. Becomes(q) /\ inbox' = inbox /\ sock' = sock /\ UNCHANGED Gateway /\ Acts
      BY <1>3, Zenon DEF FocusSession, InWorkspace
    <2> HIDE DEF p
    <2>3. /\ q \in Pages(n) /\ q.link = p.link /\ q.there = p.there /\ Follows(p, q)
          /\ q.win.loading => p.win.loading \/ AsksHistory(q.out)
      <3> HIDE DEF n
      <3> QED
        BY <1>1, <2>1, EnsureFacts, Zenon
    <2> HIDE DEF q
    <2>4. Follows(page, q)
      BY <2>1, <2>3, Zenon DEF Follows
    <2>5. Waits(q) => AsksHistory(q.out) \/ Waits(page)
      BY <2>1, <2>3, Zenon DEF Waits
    <2>6. GatewaySide /\ stored' = stored
      BY <1>1, <2>2, GatewayKept, Zenon
    <2> QED
      BY <2>2, <2>3, <2>4, <2>5, <2>6, BecomesStep, Zenon
  <1>4. CASE ScrollUp
    <2> DEFINE q == LoadHistoryPage(page)
    <2>1. Becomes(q) /\ inbox' = inbox /\ sock' = sock /\ UNCHANGED Gateway /\ Acts
      BY <1>4, Zenon DEF ScrollUp, InWorkspace
    <2>2. /\ q \in Pages(n) /\ q.link = page.link /\ q.there = page.there /\ Follows(page, q)
          /\ q.win.loading => page.win.loading \/ AsksHistory(q.out)
      <3> HIDE DEF n
      <3> QED
        BY <1>1, LoadFacts, Zenon
    <2> HIDE DEF q
    <2>3. Waits(q) => AsksHistory(q.out) \/ Waits(page)
      BY <2>2, Zenon DEF Waits
    <2>4. GatewaySide /\ stored' = stored
      BY <1>1, <2>1, GatewayKept, Zenon
    <2> QED
      BY <2>1, <2>2, <2>3, <2>4, BecomesStep, Zenon
  <1>5. CASE DeleteSession
    <2> DEFINE q == Request(page, [kind |-> "delete"])
    <2>1. Becomes(q) /\ inbox' = inbox /\ sock' = sock /\ UNCHANGED Gateway /\ Acts /\ CanSend
      BY <1>5, Zenon DEF DeleteSession, InWorkspace
    <2>2. q \in Pages(n) /\ q.link = page.link /\ q.there = page.there /\ q.win = page.win /\ Follows(page, q)
      <3> HIDE DEF n
      <3> QED
        BY <1>1, <2>1, RequestFacts, RequestKinds, Zenon
    <2> HIDE DEF q
    <2>3. Waits(q) => Waits(page)
      BY <2>2, Zenon DEF Waits
    <2>4. GatewaySide /\ stored' = stored
      BY <1>1, <2>1, GatewayKept, Zenon
    <2> QED
      BY <2>1, <2>2, <2>3, <2>4, BecomesStep, Zenon
  <1>6. ASSUME NEW t \in UiTurns, SendInput(t) PROVE UiInv'
    <2> DEFINE all == Append(page.win.shown, Message("user", NoId, {t}))
    <2>1. PICK stream \in {{}, {t}} :
             Becomes(Request([page EXCEPT !.win.shown = all, !.win.stream = stream],
                             [kind |-> "start", turn |-> t]))
      BY <1>6, Zenon DEF SendInput
    <2>2. stream \in SUBSET UiTurns
      OBVIOUS
    <2> DEFINE p == [page EXCEPT !.win.shown = all, !.win.stream = stream]
               q == Request(p, [kind |-> "start", turn |-> t])
    <2>3. /\ inbox' = inbox /\ sock' = sock /\ Acts /\ CanSend /\ stored' = stored
          /\ reply' = [reply EXCEPT ![t] = "asked"]
          /\ UNCHANGED <<listeners, alive, refusals>>
      BY <1>6, Zenon DEF SendInput, InWorkspace
    <2>4. all \in Seq(Messages) /\ UniqueIds(all)
      BY <1>1, PageFields, LiveMessages, AppendUnique, Zenon
    <2> HIDE DEF all
    <2>5. OtherWindow(n, page, p)
      <3> HIDE DEF n
      <3> QED
        BY <1>1, <2>2, <2>4, StreamWindow, Zenon
    <2>6. PICK w \in Windows(n) : p = [page EXCEPT !.win = w] /\ w.loading = page.win.loading
      BY <2>5, Zenon DEF OtherWindow
    <2> HIDE DEF p
    <2>7. p \in Pages(n) /\ p.link = page.link /\ p.there = page.there /\ p.win = w /\ Follows(page, p)
      <3> HIDE DEF n
      <3> QED
        BY <1>1, <2>6, PageWithWindow, ZenonT(30)
    <2>8. q \in Pages(n) /\ q.link = p.link /\ q.there = p.there /\ q.win = p.win /\ Follows(p, q)
      <3> HIDE DEF n
      <3> QED
        BY <1>1, <2>3, <2>7, RequestFacts, RequestKinds, Zenon
    <2>9. Becomes(q)
      BY <2>1, Zenon DEF p
    <2> HIDE DEF q
    <2>10. Follows(page, q) /\ (Waits(q) => Waits(page))
      BY <2>6, <2>7, <2>8, FollowsTrans, Zenon DEF Waits
    <2>11. GatewaySide
      BY <1>1, <2>3, Zenon DEF GatewaySide, UiTypeOK, Places
    <2> QED
      BY <2>3, <2>8, <2>9, <2>10, <2>11, BecomesStep, Zenon
  <1>7. CASE CloseWindow
    <2>1. /\ page' = [page EXCEPT !.isOpen = FALSE] /\ Acts
          /\ UNCHANGED <<sock, inbox, requests>> /\ UNCHANGED Gateway
      BY <1>7, Zenon DEF CloseWindow, InWorkspace
    <2>2. /\ page' \in Pages(n) /\ page'.out = <<>> /\ page'.link = page.link
          /\ page'.there = page.there /\ page'.win = page.win
      BY <1>1, <2>1, Zenon DEF Pages
    <2>3. GatewaySide /\ stored' = stored
      BY <1>1, <2>1, GatewayKept, Zenon
    <2>4. PageSide
      BY <1>1, <2>1, <2>2, ActsTyped, Zenon DEF PageSide, UiTypeOK
    <2>5. LoadInv'
      BY <1>1, <2>1, <2>2, Zenon DEF LoadInv, Waits, Answered, AsksFor
    <2> QED
      BY <1>1, <2>3, <2>4, <2>5, SidesTyped, Zenon DEF UiInv
  <1> QED
    BY <1>3, <1>4, <1>5, <1>6, <1>7, Zenon

\* A socket callback, or what the user does to the connection.
LEMMA ConnectionStep ==
    UiInv /\ (Connect \/ Disconnect \/ \E s \in Socks : OnOpen(s) \/ OnClose(s)) => UiInv'
  <1> SUFFICES ASSUME UiInv, Connect \/ Disconnect \/ \E s \in Socks : OnOpen(s) \/ OnClose(s)
               PROVE  UiInv'
    BY Zenon
  <1> DEFINE n == Len(stored)
             w == Reset(page.win)
  <1>1. /\ UiTypeOK /\ LoadInv /\ n \in Nat /\ page \in Pages(n) /\ page.out = <<>>
        /\ sock \in [Socks -> SocketStates] /\ requests \in [Socks -> Seq(UiRequests(n))]
        /\ acts \in 0 .. MaxActs /\ inbox \in Seq(UiFrames(n))
    BY ActsTyped, Zenon DEF UiInv, UiTypeOK
  <1>2. w \in Windows(n)
    BY <1>1, PageFields, Zenon DEF Reset, Windows
  <1>3. ASSUME GatewaySide, stored' = stored, PageSide, LoadInv' PROVE UiInv'
    BY <1>1, <1>3, SidesTyped, Zenon DEF UiInv
  <1>4. Closing \in [Socks -> SocketStates]
    BY <1>1, Zenon DEF Closing, SocketStates
  <1> HIDE DEF w, n
  <1>5. ASSUME page'.link # "up" PROVE LoadInv'
    BY <1>5, Zenon DEF LoadInv, Waits
  <1>6. CASE Connect
    <2>1. PICK s \in Socks :
            /\ sock' = [Closing EXCEPT ![s] = "connecting"]
            /\ page' = [page EXCEPT !.link = "dialing", !.cell = s, !.loaded = FALSE, !.win = w]
      BY <1>6, Zenon DEF Connect, w
    <2>2. UNCHANGED <<inbox, requests, acts>> /\ UNCHANGED Gateway
      BY <1>6, Zenon DEF Connect
    <2>3. page' \in Pages(n) /\ page'.out = <<>> /\ page'.link = "dialing"
      BY <1>1, <1>2, <2>1, Zenon DEF Pages, Links
    <2>4. sock' \in [Socks -> SocketStates]
      BY <1>4, <2>1, Zenon DEF SocketStates
    <2>5. PageSide
      BY <1>1, <2>2, <2>3, <2>4, Zenon DEF PageSide, n
    <2>6. page'.link # "up"
      BY <2>3
    <2> QED
      BY <1>1, <1>3, <1>5, <2>2, <2>5, <2>6, GatewayKept, Zenon
  <1>7. CASE Disconnect
    <2>1. /\ sock' = Closing
          /\ page' = [page EXCEPT !.link = "down", !.cell = 0, !.loaded = FALSE, !.win = w]
          /\ UNCHANGED <<inbox, requests>> /\ UNCHANGED Gateway /\ Acts
      BY <1>7, Zenon DEF Disconnect, w
    <2>2. page' \in Pages(n) /\ page'.out = <<>> /\ page'.link = "down"
      BY <1>1, <1>2, <2>1, Zenon DEF Pages, Links
    <2>3. PageSide
      BY <1>1, <1>4, <2>1, <2>2, ActsTyped, Zenon DEF PageSide, n
    <2>4. page'.link # "up"
      BY <2>2
    <2> QED
      BY <1>1, <1>3, <1>5, <2>1, <2>3, <2>4, GatewayKept, Zenon
  <1>8. ASSUME NEW s \in Socks, OnOpen(s) PROVE UiInv'
    <2> DEFINE rs == <<[kind |-> "list"]>>
    <2>1. /\ sock' = [sock EXCEPT ![s] = "open"] /\ page' = [page EXCEPT !.link = "up"]
          /\ requests' = [requests EXCEPT ![s] = rs]
          /\ UNCHANGED <<inbox, acts>> /\ UNCHANGED Gateway
      BY <1>8, Zenon DEF OnOpen
    <2>2. page' \in Pages(n) /\ page'.out = <<>>
      BY <1>1, <2>1, Zenon DEF Pages, Links
    <2>3. rs \in Seq(UiRequests(n)) /\ AsksFor(rs)
      <3>1. [kind |-> "list"] \in UiRequests(n)
        BY <1>1, RequestKinds, Zenon
      <3> QED
        BY <3>1 DEF AsksFor
    <2> HIDE DEF rs
    <2>4. sock' \in [Socks -> SocketStates] /\ requests' \in [Socks -> Seq(UiRequests(n))]
      BY <1>1, <2>1, <2>3, Zenon DEF SocketStates
    <2>5. PageSide
      BY <1>1, <2>1, <2>2, <2>4, Zenon DEF PageSide, n
    <2>6. LoadInv'
      <3>1. sock'[s] = "open" /\ AsksFor(requests'[s])
        BY <1>1, <2>1, <2>3, Zenon
      <3> QED
        BY <3>1, Zenon DEF LoadInv, AsksFor
    <2> QED
      BY <1>1, <1>3, <2>1, <2>5, <2>6, GatewayKept, Zenon
  <1>9. ASSUME NEW s \in Socks, OnClose(s) PROVE UiInv'
    <2>1. /\ sock' = [sock EXCEPT ![s] = "closed"] /\ page' = [page EXCEPT !.link = "down", !.cell = 0]
          /\ requests' = [requests EXCEPT ![s] = <<>>] /\ listeners' = listeners \ {s}
          /\ UNCHANGED <<inbox, stored, alive, reply, refusals, acts>>
      BY <1>9, Zenon DEF OnClose
    <2>2. page' \in Pages(n) /\ page'.out = <<>> /\ page'.link = "down"
      BY <1>1, <2>1, Zenon DEF Pages, Links
    <2>3. <<>> \in Seq(UiRequests(n)) /\ page'.link # "up"
      BY <2>2
    <2>4. sock' \in [Socks -> SocketStates] /\ requests' \in [Socks -> Seq(UiRequests(n))]
      BY <1>1, <2>1, <2>3, Zenon DEF SocketStates
    <2>5. PageSide
      BY <1>1, <2>1, <2>2, <2>4, Zenon DEF PageSide, n
    <2>6. GatewaySide
      BY <1>1, <2>1, Zenon DEF GatewaySide, UiTypeOK
    <2> QED
      BY <1>3, <1>5, <2>1, <2>3, <2>5, <2>6, Zenon
  <1> QED
    BY <1>6, <1>7, <1>8, <1>9, Zenon

\* The gateway handles a request.
LEMMA HandleStep ==
    ASSUME UiInv, NEW s \in Socks, Handle(s) \/ Refuse(s)
    PROVE  UiInv'
  <1> DEFINE n == Len(stored)
             r == Head(requests[s])
  <1>1. /\ UiTypeOK /\ LoadInv /\ n \in Nat /\ page \in Pages(n) /\ page.out = <<>>
        /\ sock \in [Socks -> SocketStates] /\ requests \in [Socks -> Seq(UiRequests(n))]
        /\ acts \in 0 .. MaxActs /\ inbox \in Seq(UiFrames(n))
        /\ listeners \in SUBSET Socks /\ alive \in BOOLEAN /\ reply \in [UiTurns -> Places]
        /\ refusals \in 0 .. MaxRefusals /\ stored \in Seq(Roles)
    BY ActsTyped, Zenon DEF UiInv, UiTypeOK
  <1>2. /\ requests[s] # <<>> /\ requests' = [requests EXCEPT ![s] = Tail(@)]
        /\ UNCHANGED <<sock, page, stored, acts>>
    BY Zenon DEF Handle, Refuse
  <1>3. /\ Tail(requests[s]) \in Seq(UiRequests(n)) /\ r \in UiRequests(n)
        /\ AsksFor(requests[s]) => AsksFor(Tail(requests[s])) \/ r.kind \in {"history", "list"}
    <2> HIDE DEF n
    <2>1. requests[s] \in Seq(UiRequests(n))
      BY <1>1, Zenon
    <2> QED
      BY <1>1, <1>2, <2>1, TailFacts, Zenon
  <1>4. requests' \in [Socks -> Seq(UiRequests(n))]
    BY <1>1, <1>2, <1>3, Zenon
  \* It is enough to know what reaches the page.
  <1>5. ASSUME inbox' \in Seq(UiFrames(n)), GatewaySide, Answered(inbox) => Answered(inbox'),
               sock[s] = "open" /\ r.kind \in {"history", "list"} => Answered(inbox')
        PROVE  UiInv'
    <2>1. PageSide
      BY <1>1, <1>2, <1>4, <1>5, Zenon DEF PageSide
    <2>2. \A u \in Socks : sock[u] = "open" /\ AsksFor(requests[u]) => AsksFor(requests'[u]) \/ Answered(inbox')
      <3> TAKE u \in Socks
      <3>1. CASE u = s
        BY <1>1, <1>2, <1>3, <1>5, <3>1, Zenon
      <3>2. CASE u # s
        BY <1>1, <1>2, <3>2, Zenon
      <3> QED
        BY <3>1, <3>2, Zenon
    <2>3. LoadInv'
      BY <1>1, <1>2, <1>5, <2>2, GatewayLoads, Zenon
    <2> QED
      BY <1>1, <1>2, <1>5, <2>1, <2>3, SidesTyped, Zenon DEF UiInv
  <1>6. ASSUME NEW f \in UiFrames(n), Put(s, f)
        PROVE  /\ inbox' \in Seq(UiFrames(n)) /\ (Answered(inbox) => Answered(inbox'))
               /\ sock[s] = "open" /\ f.kind \in {"history", "sessions", "error"} => Answered(inbox')
    <2> HIDE DEF n
    <2> QED
      BY <1>1, <1>6, PutFacts, Zenon DEF Reaches
  <1> HIDE DEF r
  <1>7. CASE Refuse(s)
    <2>1. /\ Put(s, [kind |-> "error"]) /\ refusals < MaxRefusals /\ refusals' = refusals + 1
          /\ UNCHANGED <<listeners, alive, reply>>
      BY <1>7, Zenon DEF Refuse
    <2>2. GatewaySide
      BY <1>1, <2>1, ActsTyped, Zenon DEF GatewaySide
    <2>3. [kind |-> "error"] \in UiFrames(n) /\ [kind |-> "error"].kind = "error"
      BY <1>1, FramesTyped, Zenon
    <2> QED
      BY <1>5, <1>6, <2>1, <2>2, <2>3, Zenon
  <1>8. CASE Handle(s)
    <2>0. /\ UNCHANGED refusals
          /\ \/ r.kind = "list" /\ AnswerList(s)
             \/ r.kind = "subscribe" /\ AnswerSubscribe(s)
             \/ r.kind = "history" /\ AnswerHistory(s, r.before)
             \/ r.kind = "delete" /\ AnswerDelete(s)
             \/ r.kind = "start" /\ AnswerStart(s, r.turn)
      BY <1>8, Zenon DEF Handle, r
    <2>1. CASE r.kind = "list" /\ AnswerList(s)
      <3>1. Put(s, [kind |-> "sessions", alive |-> alive]) /\ UNCHANGED <<listeners, alive, reply>>
        BY <2>1, Zenon DEF AnswerList
      <3>2. /\ [kind |-> "sessions", alive |-> alive] \in UiFrames(n)
            /\ [kind |-> "sessions", alive |-> alive].kind = "sessions"
        BY <1>1, FramesTyped, Zenon
      <3>3. GatewaySide
        BY <1>1, <2>0, <3>1, Zenon DEF GatewaySide
      <3> QED
        BY <1>5, <1>6, <3>1, <3>2, <3>3, Zenon
    <2>2. CASE r.kind = "subscribe" /\ AnswerSubscribe(s)
      <3>1. Put(s, [kind |-> "subscribed"]) /\ listeners' = listeners \cup {s} /\ UNCHANGED <<alive, reply>>
        BY <2>2, Zenon DEF AnswerSubscribe
      <3>2. [kind |-> "subscribed"] \in UiFrames(n)
        BY <1>1, FramesTyped, Zenon
      <3>3. GatewaySide
        BY <1>1, <2>0, <3>1, Zenon DEF GatewaySide
      <3>4. r.kind \notin {"history", "list"}
        BY <2>2
      <3> QED
        BY <1>5, <1>6, <3>1, <3>2, <3>3, <3>4, Zenon
    <2>3. CASE r.kind = "history" /\ AnswerHistory(s, r.before)
      <3> DEFINE f == IF alive THEN HistoryPage(r.before) ELSE [kind |-> "error"]
      <3>1. Put(s, f) /\ UNCHANGED <<listeners, alive, reply>>
        BY <2>3, Zenon DEF AnswerHistory
      <3>2. r.before \in 0 .. n
        BY <1>3, <2>3 DEF UiRequests, PlainRequests, HistoryRequests, StartRequests
      <3>3. HistoryPage(r.before) \in HistoryFrames(n) /\ HistoryPage(r.before).kind = "history"
        BY <1>1, <3>2, HistoryTyped, Zenon
      <3>4. f \in UiFrames(n) /\ f.kind \in {"history", "error"}
        <4>1. CASE alive
          BY <1>1, <3>3, <4>1, FramesTyped, Zenon
        <4>2. CASE ~alive
          BY <1>1, <4>2, FramesTyped, Zenon
        <4> QED
          BY <4>1, <4>2, Zenon
      <3>5. GatewaySide
        BY <1>1, <2>0, <3>1, Zenon DEF GatewaySide
      <3> HIDE DEF f
      <3> QED
        BY <1>5, <1>6, <3>1, <3>4, <3>5, Zenon
    <2>4. CASE r.kind = "delete" /\ AnswerDelete(s)
      <3> DEFINE k == IF alive THEN "deleted" ELSE "absent"
      <3>1. Put(s, [kind |-> k]) /\ alive' = FALSE /\ UNCHANGED <<listeners, reply>>
        BY <2>4, Zenon DEF AnswerDelete
      <3>2. k \in {"error", "subscribed", "deleted", "absent"} /\ r.kind \notin {"history", "list"}
        BY <2>4
      <3> HIDE DEF k
      <3>3. [kind |-> k] \in UiFrames(n)
        BY <1>1, <3>2, FramesTyped, Zenon
      <3>4. GatewaySide
        BY <1>1, <2>0, <3>1, Zenon DEF GatewaySide
      <3> QED
        BY <1>5, <1>6, <3>1, <3>2, <3>3, <3>4, Zenon
    <2>5. CASE r.kind = "start" /\ AnswerStart(s, r.turn)
      <3>1. /\ listeners' = listeners \cup {s} /\ SendAll(listeners', [kind |-> "user", turn |-> r.turn])
            /\ reply' = [reply EXCEPT ![r.turn] = "running"] /\ UNCHANGED alive
        BY <2>5, Zenon DEF AnswerStart
      <3>2. r.turn \in UiTurns /\ r.kind \notin {"history", "list"}
        BY <1>3, <2>5 DEF UiRequests, PlainRequests, HistoryRequests, StartRequests
      <3>3. [kind |-> "user", turn |-> r.turn] \in UiFrames(n)
        BY <1>1, <3>2, FramesTyped, Zenon
      <3>4. listeners' \in SUBSET Socks
        BY <1>1, <3>1, Zenon
      <3>5. GatewaySide
        BY <1>1, <2>0, <3>1, <3>4, Zenon DEF GatewaySide, Places
      <3>6. inbox' \in Seq(UiFrames(n)) /\ (Answered(inbox) => Answered(inbox'))
        <4> HIDE DEF n
        <4> QED
          BY <1>1, <3>1, <3>3, <3>4, SendAllFacts, Zenon
      <3> QED
        BY <1>5, <3>2, <3>5, <3>6, Zenon
    <2> QED
      BY <2>0, <2>1, <2>2, <2>3, <2>4, <2>5, Zenon
  <1> QED
    BY <1>7, <1>8, Zenon

\* A turn sends its frames to the listeners.
LEMMA TurnStep ==
    ASSUME UiInv, NEW t \in UiTurns, StartElsewhere(t) \/ Streams(t) \/ Answers(t) \/ Completes(t)
    PROVE  UiInv'
  <1> DEFINE n == Len(stored)
             m == Len(stored')
  <1>1. /\ UiTypeOK /\ LoadInv /\ n \in Nat /\ page \in Pages(n) /\ page.out = <<>>
        /\ sock \in [Socks -> SocketStates] /\ requests \in [Socks -> Seq(UiRequests(n))]
        /\ acts \in 0 .. MaxActs /\ inbox \in Seq(UiFrames(n))
        /\ listeners \in SUBSET Socks /\ alive \in BOOLEAN /\ reply \in [UiTurns -> Places]
        /\ refusals \in 0 .. MaxRefusals /\ stored \in Seq(Roles)
    BY ActsTyped, Zenon DEF UiInv, UiTypeOK
  <1>2. UNCHANGED <<sock, page, requests, listeners, alive, refusals, acts>>
    BY Zenon DEF StartElsewhere, Streams, Answers, Completes
  <1>3. PICK kind \in {"user", "delta", "clear", "answer", "completed"}, place \in Places :
          /\ SendAll(listeners, [kind |-> kind, turn |-> t])
          /\ reply' = [reply EXCEPT ![t] = place]
    <2>1. CASE StartElsewhere(t)
      BY <2>1, Zenon DEF StartElsewhere, Places
    <2>2. CASE Streams(t)
      <3>1. PICK kind \in {"delta", "clear"} :
               /\ SendAll(listeners, [kind |-> kind, turn |-> t])
               /\ reply' = [reply EXCEPT ![t] = IF kind = "delta" THEN "streamed" ELSE "cleared"]
        BY <2>2, Zenon DEF Streams
      <3>2. (IF kind = "delta" THEN "streamed" ELSE "cleared") \in Places
        BY Zenon DEF Places
      <3> QED
        BY <3>1, <3>2, Zenon
    <2>3. CASE Answers(t)
      BY <2>3, Zenon DEF Answers, Places
    <2>4. CASE Completes(t)
      BY <2>4, Zenon DEF Completes, Places
    <2> QED
      BY <2>1, <2>2, <2>3, <2>4, Zenon
  <1>4. [kind |-> kind, turn |-> t] \in UiFrames(n)
    BY <1>1, FramesTyped, Zenon
  <1>5. inbox' \in Seq(UiFrames(n)) /\ (Answered(inbox) => Answered(inbox'))
    <2> HIDE DEF n
    <2> QED
      BY <1>1, <1>3, <1>4, SendAllFacts, Zenon
  <1>6. stored' \in Seq(Roles) /\ m \in Nat /\ n <= m
    <2>1. stored' = stored \/ stored' = stored \o <<"user", "assistant">>
      BY Zenon DEF StartElsewhere, Streams, Answers, Completes
    <2>2. <<"user", "assistant">> \in Seq(Roles)
      BY DEF Roles
    <2>3. \A two \in Seq(Roles) : /\ stored \o two \in Seq(Roles) /\ Len(stored \o two) \in Nat
                                   /\ n <= Len(stored \o two)
      BY <1>1
    <2>4. n <= n
      BY <1>1
    <2> QED
      BY <1>1, <2>1, <2>2, <2>3, <2>4, Zenon
  <1>7. /\ page' \in Pages(m) /\ inbox' \in Seq(UiFrames(m))
        /\ requests' \in [Socks -> Seq(UiRequests(m))]
    <2> HIDE DEF n, m
    <2> QED
      BY <1>1, <1>2, <1>5, <1>6, Monotone, Zenon
  <1>8. reply' \in [UiTurns -> Places]
    BY <1>1, <1>3, Zenon
  <1>9. UiTypeOK'
    BY <1>1, <1>2, <1>6, <1>7, <1>8, Zenon DEF UiTypeOK
  <1>10. LoadInv'
    BY <1>1, <1>2, <1>5, GatewayLoads, Zenon
  <1> QED
    BY <1>9, <1>10, Zenon DEF UiInv

\* Every step keeps the invariant.
LEMMA UiNextInv == UiInv /\ [UiNext]_uiVars => UiInv'
  <1>1. ASSUME UiInv, UiNext PROVE UiInv'
    BY <1>1, RepaintStep, WorkspaceStep, ConnectionStep, HandleStep, TurnStep, Zenon DEF UiNext
  <1>2. ASSUME UiInv, UNCHANGED uiVars PROVE UiInv'
    BY <1>2, Zenon DEF uiVars, UiInv, UiTypeOK, LoadInv, Waits, Answered, AsksFor
  <1> QED
    BY <1>1, <1>2, Zenon

\* The invariant holds at all times.
LEMMA UiSafety == UiSpec => []UiInv
  BY UiInitInv, UiNextInv, PTL DEF UiSpec

\* The chat page keeps its types: in particular a page of history is only asked
\* before a record that exists (load_history_page, thread/history).
THEOREM UiTypeCorrect == UiSpec => []UiTypeOK
  BY UiSafety, PTL DEF UiInv

\* No message with an id is on the screen twice (message_id_exists,
\* prepend_history_page), whatever frames a repaint finds and in whatever order.
THEOREM NoMessageTwice == UiSpec => []MessagesUnique
  <1>1. UiInv => MessagesUnique
    <2> SUFFICES ASSUME UiInv PROVE MessagesUnique
      BY Zenon
    <2>1. page \in Pages(Len(stored)) /\ Len(stored) \in Nat
      BY ActsTyped, Zenon DEF UiInv, UiTypeOK
    <2>2. UniqueIds(page.win.shown)
      BY <2>1, PageFields, Zenon
    <2> QED
      BY <2>2, Zenon DEF MessagesUnique, UniqueIds
  <1> QED
    BY <1>1, UiSafety, PTL

\* A window that shows "loading" waits for an answer that is on its way: the flag
\* of load_history_page never stays without one.
THEOREM LoadingIsAwaited == UiSpec => []LoadingEnds
  <1>1. UiInv => LoadingEnds
    <2> SUFFICES ASSUME UiInv, Workspace, page.there, page.win.loading
                 PROVE  Awaited({"history", "list", "sessions", "error"})
      BY Zenon DEF LoadingEnds
    <2>1. Answered(inbox) \/ \E s \in Socks : AsksFor(requests[s])
      BY Zenon DEF UiInv, LoadInv, Waits, Workspace
    <2> QED
      BY <2>1, Zenon DEF Answered, AsksFor, Awaited
  <1> QED
    BY <1>1, UiSafety, PTL
=============================================================================
