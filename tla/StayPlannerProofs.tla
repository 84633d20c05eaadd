------------------------- MODULE StayPlannerProofs --------------------------
(***************************************************************************)
(* The guest's planner and dialog, for any dates, any number of guests and *)
(* any queue of server actions: prices catch up with what was clicked, and *)
(* the dialog waits for one action, of a stay that was priced.             *)
(***************************************************************************)
EXTENDS StayPlanner, FiniteSetTheorems, TLAPS

-----------------------------------------------------------------------------
(* What the proofs say of a queue of calls.                                *)

\* A call whose answer the open dialog waits for.
IsLive(c) == c.kind \in { "book", "auth" } /\ c.live
NoneLive(cs) == \A i \in DOMAIN cs : ~IsLive(cs[i])

NoQuotes(cs) == \A i \in DOMAIN cs : cs[i].kind # "quote"

\* The stay that is priced last.
LastQuoteIs(cs, stay) ==
  \E i \in DOMAIN cs : /\ cs[i] = [kind |-> "quote", stay |-> stay]
                       /\ \A j \in DOMAIN cs : j > i => cs[j].kind # "quote"

\* One call is waited for, and if it books it books this stay, with no price
\* asked for after it.
OneLive(cs, stay) ==
  \E i \in DOMAIN cs :
    /\ IsLive(cs[i])
    /\ \A j \in DOMAIN cs : IsLive(cs[j]) => j = i
    /\ cs[i].kind = "book" =>
         cs[i].stay = stay /\ \A j \in DOMAIN cs : j > i => cs[j].kind # "quote"

\* The price on show and those under way, for a full range.
PricedLast(cs, qt, r, g) ==
  Complete(r) =>
    IF NoQuotes(cs) THEN qt = NoQuote \/ qt.stay = StayOf(r, g) ELSE LastQuoteIs(cs, StayOf(r, g))

\* The calls and what the page knows agree.
QueueOK(cs, b, qt, r, g) ==
  /\ cs \in Seq(Call)
  /\ PricedLast(cs, qt, r, g)
  /\ IF b THEN OneLive(cs, StayOf(r, g)) ELSE NoneLive(cs)

\* The inductive invariant.
PlannerInv ==
  /\ PTypeOK
  /\ busy => Open
  /\ QueueOK(calls, busy, quote, range, guests)

-----------------------------------------------------------------------------
(* What queue operations do.                                               *)

\* The tail of a queue is the queue from its second call on.
LEMMA TailOfQueue ==
  ASSUME NEW S, NEW cs \in Seq(S), cs # << >>
  PROVE  /\ Tail(cs) \in Seq(S)
         /\ DOMAIN cs = 1 .. Len(cs) /\ Len(cs) \in Nat \ {0}
         /\ DOMAIN Tail(cs) = 1 .. Len(cs) - 1
         /\ \A i \in 1 .. Len(cs) - 1 : Tail(cs)[i] = cs[i + 1]
         /\ Head(cs) = cs[1] /\ Head(cs) \in S
  OBVIOUS

\* A queue that grows keeps its calls.
LEMMA GrownQueue ==
  ASSUME NEW S, NEW cs \in Seq(S), NEW c \in S
  PROVE  /\ Append(cs, c) \in Seq(S)
         /\ DOMAIN cs = 1 .. Len(cs) /\ Len(cs) \in Nat
         /\ DOMAIN Append(cs, c) = 1 .. Len(cs) + 1
         /\ \A i \in 1 .. Len(cs) : Append(cs, c)[i] = cs[i]
         /\ Append(cs, c)[Len(cs) + 1] = c
  OBVIOUS

\* Without its first call, unless that is a quote, what is priced last stays so.
LEMMA TailKeepsQuotes ==
  ASSUME NEW cs \in Seq(Call), cs # << >>, Head(cs).kind # "quote", NEW stay
  PROVE  /\ NoQuotes(Tail(cs)) <=> NoQuotes(cs)
         /\ LastQuoteIs(cs, stay) => LastQuoteIs(Tail(cs), stay)
  <1> DEFINE n == Len(cs)
             t == Tail(cs)
  <1>1. /\ DOMAIN cs = 1 .. n /\ n \in Nat \ {0} /\ DOMAIN t = 1 .. n - 1
        /\ \A i \in 1 .. n - 1 : t[i] = cs[i + 1]
        /\ cs[1].kind # "quote"
    BY TailOfQueue
  <1> HIDE DEF n, t
  <1>2. NoQuotes(t) <=> NoQuotes(cs)
    <2>1. ASSUME NoQuotes(cs) PROVE NoQuotes(t)
      <3>1. \A i \in 1 .. n - 1 : i + 1 \in 1 .. n
        BY <1>1
      <3> QED BY <1>1, <2>1, <3>1 DEF NoQuotes
    <2>2. ASSUME NoQuotes(t) PROVE NoQuotes(cs)
      <3>1. ASSUME NEW i \in 1 .. n PROVE cs[i].kind # "quote"
        <4>1. CASE i = 1
          BY <1>1, <4>1
        <4>2. CASE i # 1
          <5>1. i - 1 \in 1 .. n - 1 /\ (i - 1) + 1 = i
            BY <1>1, <4>2
          <5> QED BY <1>1, <2>2, <5>1 DEF NoQuotes
        <4> QED BY <4>1, <4>2
      <3> QED BY <1>1, <3>1 DEF NoQuotes
    <2> QED BY <2>1, <2>2
  <1>3. ASSUME LastQuoteIs(cs, stay) PROVE LastQuoteIs(t, stay)
    <2>1. PICK i \in 1 .. n : /\ cs[i] = [kind |-> "quote", stay |-> stay]
                              /\ \A j \in 1 .. n : j > i => cs[j].kind # "quote"
      BY <1>1, <1>3 DEF LastQuoteIs
    <2>2. i # 1
      BY <1>1, <2>1
    <2>3. i - 1 \in 1 .. n - 1 /\ t[i - 1] = [kind |-> "quote", stay |-> stay]
      BY <1>1, <2>1, <2>2
    <2>4. \A j \in 1 .. n - 1 : j > i - 1 => t[j].kind # "quote"
      BY <1>1, <2>1, <2>2
    <2> QED BY <1>1, <2>3, <2>4 DEF LastQuoteIs
  <1> QED BY <1>2, <1>3 DEF t

\* The first call answered, which is not a quote: the dialog waits no more if
\* it waited for that.
LEMMA AnswerTakesOne ==
  ASSUME NEW cs, NEW b \in BOOLEAN, NEW qt, NEW r, NEW g,
         QueueOK(cs, b, qt, r, g), cs # << >>, Head(cs).kind # "quote"
  PROVE  QueueOK(Tail(cs), b /\ ~IsLive(Head(cs)), qt, r, g)
  <1> DEFINE n == Len(cs)
             t == Tail(cs)
             stay == StayOf(r, g)
  <1>1. /\ cs \in Seq(Call) /\ t \in Seq(Call)
        /\ DOMAIN cs = 1 .. n /\ n \in Nat \ {0} /\ DOMAIN t = 1 .. n - 1
        /\ \A i \in 1 .. n - 1 : t[i] = cs[i + 1]
        /\ Head(cs) = cs[1]
    BY TailOfQueue DEF QueueOK
  <1>2. PricedLast(t, qt, r, g)
    <2> HIDE DEF t
    <2>1. /\ NoQuotes(Tail(cs)) <=> NoQuotes(cs)
          /\ LastQuoteIs(cs, stay) => LastQuoteIs(Tail(cs), stay)
      BY <1>1, TailKeepsQuotes
    <2> QED BY <2>1 DEF QueueOK, PricedLast, t
  <1> HIDE DEF n, t, stay
  <1>3. CASE ~b
    <2>1. NoneLive(cs)
      BY <1>3 DEF QueueOK
    <2>2. \A i \in 1 .. n - 1 : i + 1 \in 1 .. n
      BY <1>1
    <2>3. NoneLive(t)
      BY <1>1, <2>1, <2>2 DEF NoneLive
    <2> QED BY <1>1, <1>2, <1>3, <2>3 DEF QueueOK, t
  <1>4. CASE b
    <2>1. PICK i \in 1 .. n :
            /\ IsLive(cs[i])
            /\ \A j \in 1 .. n : IsLive(cs[j]) => j = i
            /\ cs[i].kind = "book" =>
                 cs[i].stay = stay /\ \A j \in 1 .. n : j > i => cs[j].kind # "quote"
      BY <1>1, <1>4 DEF QueueOK, OneLive, stay
    <2>2. CASE i = 1
      <3>1. \A j \in 1 .. n - 1 : j + 1 \in 1 .. n /\ j + 1 # 1
        BY <1>1
      <3>2. NoneLive(t)
        BY <1>1, <2>1, <2>2, <3>1 DEF NoneLive
      <3>3. ~(b /\ ~IsLive(Head(cs)))
        BY <1>1, <2>1, <2>2
      <3> QED BY <1>1, <1>2, <3>2, <3>3 DEF QueueOK, t
    <2>3. CASE i # 1
      <3>1. i - 1 \in 1 .. n - 1 /\ t[i - 1] = cs[i]
        BY <1>1, <2>1, <2>3
      <3>2. \A j \in 1 .. n - 1 : IsLive(t[j]) => j = i - 1
        BY <1>1, <2>1, <2>3
      <3>3. cs[i].kind = "book" => \A j \in 1 .. n - 1 : j > i - 1 => t[j].kind # "quote"
        BY <1>1, <2>1, <2>3
      <3>4. OneLive(t, stay)
        BY <1>1, <2>1, <3>1, <3>2, <3>3 DEF OneLive
      <3>5. b /\ ~IsLive(Head(cs))
        BY <1>1, <1>4, <2>1, <2>3
      <3> QED BY <1>1, <1>2, <3>4, <3>5 DEF QueueOK, t, stay
    <2> QED BY <2>2, <2>3
  <1> QED BY <1>3, <1>4

\* A quote answered: it was for the stay on show, or another one follows.
LEMMA QuoteArrives ==
  ASSUME NEW cs, NEW b \in BOOLEAN, NEW qt, NEW r, NEW g, NEW x,
         QueueOK(cs, b, qt, r, g), cs # << >>, Head(cs).kind = "quote"
  PROVE  QueueOK(Tail(cs), b, [stay |-> Head(cs).stay, ok |-> x], r, g)
  <1> DEFINE n == Len(cs)
             t == Tail(cs)
             stay == StayOf(r, g)
             answer == [stay |-> Head(cs).stay, ok |-> x]
  <1>1. /\ cs \in Seq(Call) /\ t \in Seq(Call)
        /\ DOMAIN cs = 1 .. n /\ n \in Nat \ {0} /\ DOMAIN t = 1 .. n - 1
        /\ \A i \in 1 .. n - 1 : t[i] = cs[i + 1]
        /\ Head(cs) = cs[1]
    BY TailOfQueue DEF QueueOK
  <1>a. answer.stay = cs[1].stay /\ cs[1].kind = "quote" /\ ~IsLive(cs[1])
    BY <1>1 DEF IsLive
  <1> HIDE DEF n, t, stay, answer
  <1>2. PricedLast(t, answer, r, g)
    <2> SUFFICES ASSUME Complete(r)
                 PROVE  IF NoQuotes(t) THEN answer.stay = stay ELSE LastQuoteIs(t, stay)
      BY DEF PricedLast, stay
    <2>1. ~NoQuotes(cs)
      BY <1>1, <1>a DEF NoQuotes
    <2>2. PICK i \in 1 .. n : /\ cs[i] = [kind |-> "quote", stay |-> stay]
                              /\ \A j \in 1 .. n : j > i => cs[j].kind # "quote"
      BY <1>1, <2>1 DEF QueueOK, PricedLast, LastQuoteIs, stay
    <2>3. CASE i = 1
      <3>1. NoQuotes(t)
        BY <1>1, <2>2, <2>3 DEF NoQuotes
      <3> QED BY <1>a, <2>2, <2>3, <3>1
    <2>4. CASE i # 1
      <3>1. i - 1 \in 1 .. n - 1 /\ t[i - 1] = [kind |-> "quote", stay |-> stay]
        BY <1>1, <2>2, <2>4
      <3>2. \A j \in 1 .. n - 1 : j > i - 1 => t[j].kind # "quote"
        BY <1>1, <2>2, <2>4
      <3>3. LastQuoteIs(t, stay)
        BY <1>1, <3>1, <3>2 DEF LastQuoteIs
      <3>4. ~NoQuotes(t)
        BY <1>1, <3>1 DEF NoQuotes
      <3> QED BY <3>3, <3>4
    <2> QED BY <2>3, <2>4
  <1>3. CASE ~b
    <2>1. NoneLive(t)
      BY <1>1, <1>3 DEF QueueOK, NoneLive
    <2> QED BY <1>1, <1>2, <1>3, <2>1 DEF QueueOK, t, answer
  <1>4. CASE b
    <2>1. PICK i \in 1 .. n :
            /\ IsLive(cs[i])
            /\ \A j \in 1 .. n : IsLive(cs[j]) => j = i
            /\ cs[i].kind = "book" =>
                 cs[i].stay = stay /\ \A j \in 1 .. n : j > i => cs[j].kind # "quote"
      BY <1>1, <1>4 DEF QueueOK, OneLive, stay
    <2>2. i # 1
      BY <1>a, <2>1
    <2>3. i - 1 \in 1 .. n - 1 /\ t[i - 1] = cs[i]
      BY <1>1, <2>1, <2>2
    <2>4. \A j \in 1 .. n - 1 : IsLive(t[j]) => j = i - 1
      BY <1>1, <2>1, <2>2
    <2>5. cs[i].kind = "book" => \A j \in 1 .. n - 1 : j > i - 1 => t[j].kind # "quote"
      BY <1>1, <2>1, <2>2
    <2>6. OneLive(t, stay)
      BY <1>1, <2>1, <2>3, <2>4, <2>5 DEF OneLive
    <2> QED BY <1>1, <1>2, <1>4, <2>6 DEF QueueOK, t, stay, answer
  <1> QED BY <1>3, <1>4

\* A call that nobody waits for and that asks for no price: a load or a refresh.
LEMMA DullCallWaits ==
  ASSUME NEW cs, NEW b \in BOOLEAN, NEW qt, NEW r, NEW g, NEW c \in Call,
         QueueOK(cs, b, qt, r, g), c.kind # "quote", ~IsLive(c)
  PROVE  QueueOK(Append(cs, c), b, qt, r, g)
  <1> DEFINE n == Len(cs)
             t == Append(cs, c)
             stay == StayOf(r, g)
  <1>1. /\ t \in Seq(Call)
        /\ DOMAIN cs = 1 .. n /\ n \in Nat /\ DOMAIN t = 1 .. n + 1
        /\ \A i \in 1 .. n : t[i] = cs[i]
        /\ t[n + 1] = c
    BY GrownQueue DEF QueueOK
  <1> HIDE DEF n, t, stay
  <1>2. \A i \in 1 .. n + 1 : i \in 1 .. n \/ i = n + 1
    BY <1>1
  <1>3. \A i \in 1 .. n : i \in 1 .. n + 1
    BY <1>1
  <1>4. NoQuotes(t) <=> NoQuotes(cs)
    BY <1>1, <1>2, <1>3 DEF NoQuotes
  <1>5. LastQuoteIs(cs, stay) => LastQuoteIs(t, stay)
    BY <1>1, <1>2, <1>3 DEF LastQuoteIs
  <1>6. PricedLast(t, qt, r, g)
    BY <1>4, <1>5 DEF QueueOK, PricedLast, stay
  <1>7. NoneLive(cs) => NoneLive(t)
    BY <1>1, <1>2 DEF NoneLive
  <1>8. OneLive(cs, stay) => OneLive(t, stay)
    BY <1>1, <1>2, <1>3 DEF OneLive
  <1> QED BY <1>1, <1>6, <1>7, <1>8 DEF QueueOK, t, stay

\* A quote asked for while the dialog waits for nothing: the old price is
\* dropped, and the new one is for what is on show.
LEMMA QuoteAsked ==
  ASSUME NEW cs \in Seq(Call), NEW r, NEW g, NoneLive(cs),
         NEW c \in Call, c = [kind |-> "quote", stay |-> StayOf(r, g)]
  PROVE  QueueOK(Append(cs, c), FALSE, NoQuote, r, g)
  <1> DEFINE n == Len(cs)
             t == Append(cs, c)
             stay == StayOf(r, g)
  <1>1. /\ t \in Seq(Call)
        /\ DOMAIN cs = 1 .. n /\ n \in Nat /\ DOMAIN t = 1 .. n + 1
        /\ \A i \in 1 .. n : t[i] = cs[i]
        /\ t[n + 1] = c
    BY GrownQueue
  <1>a. c.kind = "quote" /\ ~IsLive(c) /\ c = [kind |-> "quote", stay |-> stay]
    BY DEF IsLive
  <1> HIDE DEF n, t, stay
  <1>2. \A i \in 1 .. n + 1 : i \in 1 .. n \/ i = n + 1
    BY <1>1
  <1>3. n + 1 \in 1 .. n + 1 /\ \A j \in 1 .. n + 1 : ~(j > n + 1)
    BY <1>1
  <1>4. LastQuoteIs(t, stay)
    BY <1>1, <1>a, <1>3 DEF LastQuoteIs
  <1>5. ~NoQuotes(t)
    BY <1>1, <1>a, <1>3 DEF NoQuotes
  <1>6. NoneLive(t)
    BY <1>1, <1>a, <1>2 DEF NoneLive
  <1> QED BY <1>1, <1>4, <1>5, <1>6 DEF QueueOK, PricedLast, t, stay

\* The dialog sends an action while it waits for none.
LEMMA DialogSends ==
  ASSUME NEW cs, NEW qt, NEW r, NEW g, QueueOK(cs, FALSE, qt, r, g),
         NEW c \in Call, IsLive(c), c.kind = "book" => c.stay = StayOf(r, g)
  PROVE  QueueOK(Append(cs, c), TRUE, qt, r, g)
  <1> DEFINE n == Len(cs)
             t == Append(cs, c)
             stay == StayOf(r, g)
  <1>1. /\ t \in Seq(Call)
        /\ DOMAIN cs = 1 .. n /\ n \in Nat /\ DOMAIN t = 1 .. n + 1
        /\ \A i \in 1 .. n : t[i] = cs[i]
        /\ t[n + 1] = c
    BY GrownQueue DEF QueueOK
  <1>a. c.kind # "quote" /\ (c.kind = "book" => c.stay = stay)
    BY DEF IsLive
  <1> HIDE DEF n, t, stay
  <1>2. \A i \in 1 .. n + 1 : i \in 1 .. n \/ i = n + 1
    BY <1>1
  <1>3. n + 1 \in 1 .. n + 1 /\ \A j \in 1 .. n + 1 : ~(j > n + 1)
    BY <1>1
  <1>b. \A i \in 1 .. n : i \in 1 .. n + 1
    BY <1>1
  <1>4. NoQuotes(t) <=> NoQuotes(cs)
    BY <1>1, <1>a, <1>2, <1>b DEF NoQuotes
  <1>5. LastQuoteIs(cs, stay) => LastQuoteIs(t, stay)
    BY <1>1, <1>a, <1>2, <1>b DEF LastQuoteIs
  <1>6. PricedLast(t, qt, r, g)
    BY <1>4, <1>5 DEF QueueOK, PricedLast, stay
  <1>7. NoneLive(cs)
    BY DEF QueueOK
  <1>8. \A j \in 1 .. n + 1 : IsLive(t[j]) => j = n + 1
    BY <1>1, <1>2, <1>7 DEF NoneLive
  <1>9. OneLive(t, stay)
    BY <1>1, <1>a, <1>3, <1>8 DEF OneLive
  <1> QED BY <1>1, <1>6, <1>9 DEF QueueOK, t, stay

\* Calls that are forgotten are calls still, and nobody waits for them.
LEMMA ForgottenQueue ==
  ASSUME NEW cs, NEW b \in BOOLEAN, NEW qt, NEW r, NEW g, QueueOK(cs, b, qt, r, g)
  PROVE  QueueOK(Forgotten(cs), FALSE, qt, r, g)
  <1> DEFINE t == Forgotten(cs)
             stay == StayOf(r, g)
  <1>1. cs \in Seq(Call) /\ DOMAIN cs = 1 .. Len(cs) /\ Len(cs) \in Nat
    BY DEF QueueOK
  <1>2. DOMAIN t = DOMAIN cs
    BY DEF Forgotten
  <1>3. ASSUME NEW i \in DOMAIN cs
        PROVE  /\ t[i] \in Call /\ t[i].kind = cs[i].kind /\ ~IsLive(t[i])
               /\ t[i] = cs[i] \/ cs[i].kind # "quote"
    <2>1. cs[i] \in Call
      BY <1>1
    <2>2. CASE cs[i].kind \in { "book", "auth" }
      <3>1. t[i] = [cs[i] EXCEPT !.live = FALSE]
        BY <2>2 DEF Forgotten
      <3>2. cs[i] \in [kind : {"book"}, stay : Stays, live : BOOLEAN]
                        \cup [kind : {"auth"}, live : BOOLEAN]
        BY <2>1, <2>2 DEF Call
      <3>3. t[i] \in Call /\ t[i].kind = cs[i].kind /\ t[i].live = FALSE
        BY <3>1, <3>2 DEF Call
      <3> QED BY <2>2, <3>3 DEF IsLive
    <2>3. CASE cs[i].kind \notin { "book", "auth" }
      <3>1. t[i] = cs[i]
        BY <2>3 DEF Forgotten
      <3> QED BY <2>1, <2>3, <3>1 DEF IsLive
    <2> QED BY <2>2, <2>3
  <1>4. t \in Seq(Call)
    <2>1. t = [i \in 1 .. Len(cs) |-> t[i]]
      BY <1>1 DEF Forgotten
    <2> HIDE DEF t
    <2> QED BY <1>1, <1>2, <1>3, <2>1
  <1> HIDE DEF t, stay
  <1>5. NoneLive(t)
    BY <1>2, <1>3 DEF NoneLive
  <1>6. NoQuotes(t) <=> NoQuotes(cs)
    BY <1>2, <1>3 DEF NoQuotes
  <1>7. ASSUME LastQuoteIs(cs, stay) PROVE LastQuoteIs(t, stay)
    <2>1. PICK i \in DOMAIN cs : /\ cs[i] = [kind |-> "quote", stay |-> stay]
                                 /\ \A j \in DOMAIN cs : j > i => cs[j].kind # "quote"
      BY <1>7 DEF LastQuoteIs
    <2>2. t[i] = [kind |-> "quote", stay |-> stay]
      BY <1>3, <2>1
    <2>3. \A j \in DOMAIN t : j > i => t[j].kind # "quote"
      BY <1>2, <1>3, <2>1
    <2> QED BY <1>2, <2>2, <2>3 DEF LastQuoteIs
  <1> QED BY <1>4, <1>5, <1>6, <1>7 DEF QueueOK, PricedLast, t, stay

-----------------------------------------------------------------------------
(* What the page does.                                                     *)

\* The planner picks a range of the dates it knows, and a full one is a stay.
LEMMA RangesAreKept ==
  ASSUME NEW r \in Ranges(Dates)
  PROVE  /\ \A d \in Dates : rangeSelect(r, d) \in Ranges(Dates)
         /\ NoRange \in Ranges(Dates) /\ ~Complete(NoRange)
         /\ \A g \in 1 .. MaxGuests : Complete(r) => StayOf(r, g) \in Stays
  BY PlannerAssumption, CalendarAssumption
     DEF Ranges, rangeSelect, HalfOpen, Date, NoRange, From, Complete, StayOf, Stays

\* The first month is not after the last.
LEMMA MonthsOnShow == FirstMonth \in Nat /\ LastMonth \in Nat /\ FirstMonth <= LastMonth
  <1> DEFINE last == CHOOSE d \in Dates : \A e \in Dates : e <= d
  <1>1. last \in Dates /\ \A e \in Dates : e <= last
    BY PlannerAssumption
  <1> HIDE DEF last
  <1>2. Today \in Nat /\ last \in Nat /\ Today <= last /\ MonthLength \in Nat \ {0}
    BY <1>1, PlannerAssumption, CalendarAssumption
  <1>3. /\ Today \div MonthLength \in Nat /\ last \div MonthLength \in Nat
        /\ Today \div MonthLength <= last \div MonthLength
    BY <1>2
  <1> QED BY <1>3 DEF FirstMonth, LastMonth, last

\* Of a page that was rendered anew, or left, nothing is waited for.
LEMMA NothingAsked ==
  ASSUME NEW r, NEW g, ~Complete(r)
  PROVE  QueueOK(<< >>, FALSE, NoQuote, r, g)
  BY DEF QueueOK, PricedLast, NoneLive

\* The dialog follows what the planner did: what it waits for, it is open for.
LEMMA DialogFollows ==
  ASSUME busy => Open, busy \in BOOLEAN, NEW next, NEW s \in { "signin", "register", "confirm" },
         QueueOK(next, busy, quote', range', guests'),
         FollowDialog(next, s, busy), busy => booking'
  PROVE  /\ QueueOK(calls', busy', quote', range', guests')
         /\ busy' => Open'
         /\ busy' \in BOOLEAN
         /\ step' \in { "signin", "register", "confirm" }
  <1>1. step' \in { "signin", "register", "confirm" }
    BY DEF FollowDialog
  <1>2. busy' = (busy /\ Mounted') /\ busy' \in BOOLEAN
    BY DEF FollowDialog
  <1>3. busy' => Open'
    BY <1>2 DEF Open
  <1>4. CASE Mounted /\ ~Mounted'
    <2>1. calls' = Forgotten(next) /\ busy' = FALSE
      BY <1>2, <1>4 DEF FollowDialog
    <2> QED BY <1>1, <1>3, <2>1, ForgottenQueue
  <1>5. CASE ~(Mounted /\ ~Mounted')
    <2>1. calls' = next
      BY <1>5 DEF FollowDialog
    <2>2. busy' = busy
      BY <1>2, <1>5 DEF Open
    <2> QED BY <1>1, <1>3, <2>1, <2>2
  <1> QED BY <1>4, <1>5

-----------------------------------------------------------------------------
(* The invariant.                                                          *)

\* While the page can be used nothing is waited for.
LEMMA UsableMeansIdle ==
  ASSUME PlannerInv, Usable
  PROVE  ~busy /\ NoneLive(calls) /\ calls \in Seq(Call)
  BY DEF PlannerInv, Usable, QueueOK

\* A page that is rendered, by a visit or a reload.
LEMMA RenderedPage ==
  ASSUME NEW p, NEW v, NEW ds, NEW g, NEW m,
         p = "unit", v = FirstMonth, ds = Loaded(FirstMonth),
         g = IF MaxGuests < 2 THEN MaxGuests ELSE 2
  PROVE  /\ p \in { "unit", "booking", "error" }
         /\ v \in FirstMonth .. LastMonth
         /\ DOMAIN ds \subseteq Dates
         /\ \A d \in DOMAIN ds : ds[d] \in { "free", "blocked", "past" }
         /\ g \in 1 .. MaxGuests
  <1>1. MaxGuests \in Nat \ {0}
    BY PlannerAssumption
  <1>2. g \in 1 .. MaxGuests
    BY <1>1
  <1>3. v \in FirstMonth .. LastMonth
    BY MonthsOnShow
  <1>4. DOMAIN ds \subseteq Dates /\ \A d \in DOMAIN ds : ds[d] \in { "free", "blocked", "past" }
    BY DEF Loaded, State
  <1> QED BY <1>2, <1>3, <1>4

LEMMA PlannerInit_Inv == PInit => PlannerInv
  <1> SUFFICES ASSUME PInit PROVE PlannerInv
    OBVIOUS
  <1>1. /\ page \in { "unit", "booking", "error" }
        /\ view \in FirstMonth .. LastMonth
        /\ DOMAIN days \subseteq Dates
        /\ \A d \in DOMAIN days : days[d] \in { "free", "blocked", "past" }
        /\ guests \in 1 .. MaxGuests
    BY RenderedPage DEF PInit
  <1>2. range \in Ranges(Dates) /\ ~Complete(range)
    BY CalendarAssumption DEF PInit, NoRange, Ranges, Complete, Date
  <1>3. QueueOK(calls, busy, quote, range, guests)
    BY <1>2, NothingAsked DEF PInit
  <1>4. PTypeOK
    <2>1. calls \in Seq(Call)
      BY <1>3 DEF QueueOK
    <2> QED BY <1>1, <1>2, <2>1 DEF PInit, PTypeOK
  <1> QED BY <1>3, <1>4 DEF PInit, PlannerInv

\* A step of the planner that the dialog follows.
LEMMA FollowedStep ==
  ASSUME PlannerInv, NEW next,
         QueueOK(next, busy, quote', range', guests'), FollowDialog(next, step, busy), busy => booking',
         range' \in Ranges(Dates), guests' \in 1 .. MaxGuests, quote' \in Quote \cup {NoQuote},
         booking' \in BOOLEAN,
         UNCHANGED << page, view, days, signedIn, leaving, api >>
  PROVE  PlannerInv'
  <1>1. /\ busy => Open
        /\ busy \in BOOLEAN /\ step \in { "signin", "register", "confirm" }
    BY DEF PlannerInv, PTypeOK
  <1>2. /\ QueueOK(calls', busy', quote', range', guests')
        /\ busy' => Open'
        /\ busy' \in BOOLEAN
        /\ step' \in { "signin", "register", "confirm" }
    BY <1>1, DialogFollows
  <1>3. calls' \in Seq(Call)
    BY <1>2 DEF QueueOK
  <1>4. PTypeOK'
    BY <1>2, <1>3 DEF PlannerInv, PTypeOK, api, Nights
  <1> QED BY <1>2, <1>4 DEF PlannerInv

\* A full range is priced anew, and the price of any other is dropped.
LEMMA RequotedStep ==
  ASSUME PlannerInv, Usable, requote(range', guests'),
         range' \in Ranges(Dates), guests' \in 1 .. MaxGuests, booking' = booking,
         UNCHANGED << page, view, days, signedIn, leaving, api >>
  PROVE  PlannerInv'
  <1>1. busy = FALSE /\ NoneLive(calls) /\ calls \in Seq(Call)
    BY UsableMeansIdle DEF PlannerInv, PTypeOK
  <1>2. quote' = NoQuote /\ booking' \in BOOLEAN
    BY DEF requote, PlannerInv, PTypeOK
  <1>3. CASE Complete(range')
    <2> DEFINE c == [kind |-> "quote", stay |-> StayOf(range', guests')]
    <2>1. c \in Call
      BY <1>3, RangesAreKept DEF Call
    <2>2. QueueOK(Append(calls, c), FALSE, NoQuote, range', guests')
      BY <1>1, <2>1, QuoteAsked
    <2>3. FollowDialog(Append(calls, c), step, busy)
      BY <1>3 DEF requote, Enqueue
    <2> HIDE DEF c
    <2> QED BY <1>1, <1>2, <2>2, <2>3, FollowedStep
  <1>4. CASE ~Complete(range')
    <2>1. QueueOK(calls, FALSE, NoQuote, range', guests')
      BY <1>1, <1>4 DEF QueueOK, PricedLast
    <2>2. FollowDialog(calls, step, busy)
      BY <1>4 DEF requote
    <2> QED BY <1>1, <1>2, <2>1, <2>2, FollowedStep
  <1> QED BY <1>3, <1>4

\* A step that changes neither what is on show nor the price of it.
LEMMA ShownStands ==
  ASSUME PlannerInv, UNCHANGED << page, view, range, guests, quote, booking >>,
         DOMAIN days' \subseteq Dates,
         \A d \in DOMAIN days' : days'[d] \in { "free", "blocked", "past" },
         QueueOK(calls', busy', quote, range, guests), busy' \in BOOLEAN, busy' => Open,
         step' \in { "signin", "register", "confirm" },
         leaving' \in BOOLEAN, signedIn' \in BOOLEAN, session' \in BOOLEAN,
         taken' \subseteq Nights, booked' \subseteq Stays
  PROVE  PlannerInv'
  <1>1. calls' \in Seq(Call)
    BY DEF QueueOK
  <1>2. PTypeOK'
    BY <1>1 DEF PlannerInv, PTypeOK, Nights
  <1>3. Open' = Open
    BY DEF Open, Mounted, q
  <1> QED BY <1>2, <1>3 DEF PlannerInv

\* A page that is left, or rendered anew.
LEMMA PageLeft ==
  ASSUME range' = NoRange, quote' = NoQuote, booking' = FALSE, busy' = FALSE, calls' = << >>,
         step' = "signin", leaving' = FALSE,
         page' \in { "unit", "booking", "error" },
         view' \in FirstMonth .. LastMonth,
         DOMAIN days' \subseteq Dates,
         \A d \in DOMAIN days' : days'[d] \in { "free", "blocked", "past" },
         guests' \in 1 .. MaxGuests, signedIn' \in BOOLEAN, session' \in BOOLEAN,
         taken' \subseteq Nights, booked' \subseteq Stays
  PROVE  PlannerInv'
  <1>1. range' \in Ranges(Dates) /\ ~Complete(range')
    BY CalendarAssumption DEF NoRange, Ranges, Complete, Date
  <1>2. QueueOK(calls', busy', quote', range', guests')
    BY <1>1, NothingAsked
  <1>3. PTypeOK'
    BY <1>1, <1>2 DEF PTypeOK, QueueOK, Nights
  <1> QED BY <1>2, <1>3 DEF PlannerInv

\* What the API does with a stay, whether or not its answer comes.
LEMMA BookedAtApi ==
  ASSUME PlannerInv, NEW s \in Stays, BookAtApi(s)
  PROVE  taken' \subseteq Nights /\ booked' \subseteq Stays
  <1>1. s.checkIn .. (s.checkOut - 1) \subseteq Nights \/ ~Accepted(s)
    BY DEF Accepted, Free
  <1> QED BY <1>1 DEF PlannerInv, PTypeOK, BookAtApi

\* The oldest call, when it is the router's turn.
LEMMA OldestCall ==
  ASSUME PlannerInv, calls # << >>
  PROVE  /\ Head(calls) \in Call /\ calls \in Seq(Call)
         /\ Head(calls).kind \in { "quote", "book" } => Head(calls).stay \in Stays
         /\ Head(calls).kind \in { "auth", "book" } =>
              Head(calls).live \in BOOLEAN /\ IsLive(Head(calls)) = Head(calls).live
         /\ Head(calls).kind \in { "load", "refresh", "quote" } => ~IsLive(Head(calls))
  <1>1. Head(calls) \in Call /\ calls \in Seq(Call)
    BY DEF PlannerInv, PTypeOK
  <1>2. Head(calls).kind \in { "auth", "book" } => Head(calls).live \in BOOLEAN
    BY <1>1 DEF Call
  <1>3. Head(calls).kind \in { "quote", "book" } => Head(calls).stay \in Stays
    BY <1>1 DEF Call
  <1> QED BY <1>1, <1>2, <1>3 DEF IsLive

\* The answers of the router's calls.
LEMMA AnswerStep ==
  ASSUME PlannerInv, Answer
  PROVE  PlannerInv'
  <1>t. /\ busy \in BOOLEAN /\ leaving \in BOOLEAN /\ signedIn \in BOOLEAN /\ session \in BOOLEAN
        /\ step \in { "signin", "register", "confirm" }
        /\ DOMAIN days \subseteq Dates
        /\ \A d \in DOMAIN days : days[d] \in { "free", "blocked", "past" }
        /\ taken \subseteq Nights /\ booked \subseteq Stays
        /\ range \in Ranges(Dates) /\ guests \in 1 .. MaxGuests /\ booking \in BOOLEAN
        /\ busy => Open
        /\ QueueOK(calls, busy, quote, range, guests)
    BY DEF PlannerInv, PTypeOK
  <1>1. CASE loadAvailability
    <2>1. /\ calls # << >> /\ Head(calls).kind = "load"
          /\ calls' = Tail(calls) /\ busy' = busy
          /\ UNCHANGED << page, view, range, guests, quote, booking, step, leaving, signedIn, api >>
      BY <1>1 DEF loadAvailability, Runs, dialog
    <2>2. ~IsLive(Head(calls))
      BY <2>1, OldestCall
    <2>3. QueueOK(Tail(calls), busy /\ ~IsLive(Head(calls)), quote, range, guests)
      BY <1>t, <2>1, AnswerTakesOne
    <2>4. QueueOK(calls', busy', quote, range, guests)
      BY <1>t, <2>1, <2>2, <2>3
    <2>5. DOMAIN days' \subseteq Dates /\ \A d \in DOMAIN days' : days'[d] \in { "free", "blocked", "past" }
      BY <1>t, <1>1 DEF loadAvailability, State
    <2> QED BY <1>t, <2>1, <2>4, <2>5, ShownStands DEF api
  <1>2. CASE quoteStay
    <2>1. /\ calls # << >> /\ Head(calls).kind = "quote"
          /\ quote' = [stay |-> Head(calls).stay, ok |-> Free(Head(calls).stay)]
          /\ FollowDialog(Tail(calls), step, busy)
          /\ UNCHANGED << page, view, days, range, guests, booking, signedIn, leaving, api >>
      BY <1>2 DEF quoteStay, Runs
    <2>2. QueueOK(Tail(calls), busy, quote', range', guests')
      BY <1>t, <2>1, QuoteArrives
    <2>3. quote' \in Quote \cup {NoQuote}
      <3>1. Head(calls).stay \in Stays /\ Free(Head(calls).stay) \in BOOLEAN
        BY <2>1, OldestCall DEF Free
      <3> QED BY <2>1, <3>1 DEF Quote
    <2> QED BY <1>t, <2>1, <2>2, <2>3, FollowedStep DEF Open
  <1>3. CASE AuthRefused
    <2>1. /\ calls # << >> /\ Head(calls).kind = "auth"
          /\ calls' = Tail(calls) /\ busy' = (busy /\ ~Head(calls).live)
          /\ UNCHANGED << page, view, days, range, guests, quote, booking, step, leaving, signedIn, api >>
      BY <1>3 DEF AuthRefused, Runs, planner
    <2>2. Head(calls).live \in BOOLEAN /\ IsLive(Head(calls)) = Head(calls).live
      BY <2>1, OldestCall
    <2>3. QueueOK(Tail(calls), busy /\ ~IsLive(Head(calls)), quote, range, guests)
      BY <1>t, <2>1, AnswerTakesOne
    <2>4. QueueOK(calls', busy', quote, range, guests) /\ busy' \in BOOLEAN /\ (busy' => Open)
      BY <1>t, <2>1, <2>2, <2>3
    <2> QED BY <1>t, <2>1, <2>4, ShownStands DEF api
  <1>4. CASE keepSession
    <2> DEFINE c == [kind |-> "refresh"]
    <2>1. /\ calls # << >> /\ Head(calls).kind = "auth"
          /\ calls' = Append(Tail(calls), c) /\ busy' = (busy /\ ~Head(calls).live)
          /\ session' = TRUE
          /\ step' = IF Head(calls).live /\ Open THEN "confirm" ELSE step
          /\ UNCHANGED << page, view, days, range, guests, quote, booking, leaving, signedIn, taken, booked >>
      BY <1>4 DEF keepSession, Runs, planner
    <2>2. Head(calls).live \in BOOLEAN /\ IsLive(Head(calls)) = Head(calls).live
      BY <2>1, OldestCall
    <2>3. QueueOK(Tail(calls), busy /\ ~IsLive(Head(calls)), quote, range, guests)
      BY <1>t, <2>1, AnswerTakesOne
    <2>4. QueueOK(Tail(calls), busy', quote, range, guests) /\ busy' \in BOOLEAN /\ (busy' => Open)
      BY <1>t, <2>1, <2>2, <2>3
    <2>5. c \in Call /\ c.kind # "quote" /\ ~IsLive(c)
      BY DEF Call, IsLive
    <2> HIDE DEF c
    <2>6. QueueOK(calls', busy', quote, range, guests)
      BY <2>1, <2>4, <2>5, DullCallWaits
    <2>7. step' \in { "signin", "register", "confirm" }
      BY <1>t, <2>1
    <2> QED BY <1>t, <2>1, <2>4, <2>6, <2>7, ShownStands
  <1>5. CASE refresh
    <2>1. /\ calls # << >> /\ Head(calls).kind = "refresh"
          /\ calls' = Tail(calls) /\ busy' = busy /\ signedIn' = session
          /\ UNCHANGED << page, view, days, range, guests, quote, booking, step, leaving, api >>
      BY <1>5 DEF refresh, Runs, planner, dialog
    <2>2. ~IsLive(Head(calls))
      BY <2>1, OldestCall
    <2>3. QueueOK(Tail(calls), busy /\ ~IsLive(Head(calls)), quote, range, guests)
      BY <1>t, <2>1, AnswerTakesOne
    <2>4. QueueOK(calls', busy', quote, range, guests)
      BY <1>t, <2>1, <2>2, <2>3
    <2> QED BY <1>t, <2>1, <2>4, ShownStands DEF api
  <1>6. CASE bookStay
    <2>1. /\ calls # << >> /\ Head(calls).kind = "book"
          /\ BookAtApi(Head(calls).stay)
          /\ leaving' = (leaving \/ Accepted(Head(calls).stay))
          /\ calls' = Tail(calls) /\ busy' = (busy /\ ~Head(calls).live)
          /\ UNCHANGED << page, view, days, range, guests, quote, booking, step, signedIn, session >>
      BY <1>6 DEF bookStay, Runs, planner
    <2>2. /\ Head(calls).live \in BOOLEAN /\ IsLive(Head(calls)) = Head(calls).live
          /\ Head(calls).stay \in Stays
      BY <2>1, OldestCall
    <2>3. QueueOK(Tail(calls), busy /\ ~IsLive(Head(calls)), quote, range, guests)
      BY <1>t, <2>1, AnswerTakesOne
    <2>4. QueueOK(calls', busy', quote, range, guests) /\ busy' \in BOOLEAN /\ (busy' => Open)
      BY <1>t, <2>1, <2>2, <2>3
    <2>5. taken' \subseteq Nights /\ booked' \subseteq Stays
      BY <2>1, <2>2, BookedAtApi
    <2>6. leaving' \in BOOLEAN
      BY <1>t, <2>1
    <2> QED BY <1>t, <2>1, <2>4, <2>5, <2>6, ShownStands
  <1> QED BY <1>1, <1>2, <1>3, <1>4, <1>5, <1>6 DEF Answer

\* What the guest does on the page and in the dialog.
LEMMA GuestsStep ==
  ASSUME PlannerInv,
         \/ \E delta \in { -1, 1 } : go(delta)
         \/ \E d \in Dates : choose(d)
         \/ \E g \in 1 .. MaxGuests : changeGuests(g)
         \/ clear \/ bookNow \/ onClose
         \/ \E s \in { "signin", "register" } : setStep(s)
         \/ submitAuth \/ confirm
  PROVE  PlannerInv'
  <1>t. /\ busy \in BOOLEAN /\ leaving \in BOOLEAN /\ signedIn \in BOOLEAN /\ session \in BOOLEAN
        /\ step \in { "signin", "register", "confirm" }
        /\ DOMAIN days \subseteq Dates
        /\ \A d \in DOMAIN days : days[d] \in { "free", "blocked", "past" }
        /\ taken \subseteq Nights /\ booked \subseteq Stays
        /\ range \in Ranges(Dates) /\ guests \in 1 .. MaxGuests /\ booking \in BOOLEAN
        /\ quote \in Quote \cup {NoQuote}
        /\ busy => Open
        /\ QueueOK(calls, busy, quote, range, guests)
    BY DEF PlannerInv, PTypeOK
  <1>1. ASSUME NEW delta \in { -1, 1 }, go(delta) PROVE PlannerInv'
    <2> DEFINE next == view + delta
               c == [kind |-> "load", month |-> next]
    <2>1. /\ next \in FirstMonth .. LastMonth - 1
          /\ view' = next /\ calls' \in { calls, Append(calls, c) }
          /\ UNCHANGED << page, days, range, guests, quote, booking, signedIn, step, busy, leaving, api >>
      BY <1>1 DEF go, Enqueue, dialog, Arrows
    <2>2. next \in Nat /\ next \in FirstMonth .. LastMonth
      BY <2>1, MonthsOnShow
    <2>3. c \in Call /\ c.kind # "quote" /\ ~IsLive(c)
      BY <2>2 DEF Call, IsLive
    <2> HIDE DEF c, next
    <2>4. QueueOK(calls', busy', quote', range', guests')
      BY <1>t, <2>1, <2>3, DullCallWaits
    <2>5. calls' \in Seq(Call)
      BY <2>4 DEF QueueOK
    <2>6. PTypeOK'
      BY <1>t, <2>1, <2>2, <2>5 DEF PlannerInv, PTypeOK, api, Nights
    <2> QED BY <1>t, <2>1, <2>4, <2>6 DEF PlannerInv, Open, Mounted, q
  <1>2. ASSUME NEW d \in Dates, choose(d) PROVE PlannerInv'
    <2>1. /\ Usable /\ range' = rangeSelect(range, d) /\ guests' = guests /\ booking' = booking
          /\ requote(range', guests)
          /\ UNCHANGED << page, view, days, signedIn, leaving, api >>
      BY <1>2 DEF choose
    <2>2. range' \in Ranges(Dates)
      BY <1>t, <2>1, RangesAreKept
    <2> QED BY <1>t, <2>1, <2>2, RequotedStep
  <1>3. ASSUME NEW g \in 1 .. MaxGuests, changeGuests(g) PROVE PlannerInv'
    <2>1. /\ Usable /\ range' = range /\ guests' = g /\ booking' = booking
          /\ requote(range, g)
          /\ UNCHANGED << page, view, days, signedIn, leaving, api >>
      BY <1>3 DEF changeGuests
    <2> QED BY <1>t, <2>1, RequotedStep
  <1>4. CASE clear
    <2>1. /\ Usable /\ range' = NoRange /\ quote' = NoQuote
          /\ FollowDialog(calls, step, busy)
          /\ UNCHANGED << page, view, days, guests, booking, signedIn, leaving, api >>
      BY <1>4 DEF clear
    <2>2. ~busy /\ NoneLive(calls) /\ calls \in Seq(Call)
      BY <2>1, UsableMeansIdle
    <2>3. range' \in Ranges(Dates) /\ ~Complete(range')
      BY <1>t, <2>1, RangesAreKept
    <2>4. QueueOK(calls, busy, quote', range', guests')
      BY <2>2, <2>3 DEF QueueOK, PricedLast
    <2> QED BY <1>t, <2>1, <2>2, <2>3, <2>4, FollowedStep
  <1>5. CASE bookNow \/ onClose
    <2>1. /\ booking' \in BOOLEAN /\ ~busy
          /\ FollowDialog(calls, step, busy)
          /\ UNCHANGED << page, view, days, range, guests, quote, signedIn, leaving, api >>
      BY <1>5, UsableMeansIdle DEF bookNow, onClose, DialogStep
    <2>2. QueueOK(calls, busy, quote', range', guests')
      BY <1>t, <2>1
    <2> QED BY <1>t, <2>1, <2>2, FollowedStep
  <1>6. ASSUME NEW s \in { "signin", "register" }, setStep(s) PROVE PlannerInv'
    <2>1. /\ step' = s
          /\ UNCHANGED << page, view, days, range, guests, quote, booking, signedIn, calls, busy, leaving, api >>
      BY <1>6 DEF setStep, planner
    <2> QED BY <1>t, <2>1, ShownStands DEF api
  <1>7. CASE submitAuth
    <2> DEFINE c == [kind |-> "auth", live |-> TRUE]
    <2>1. /\ Open /\ ~busy /\ busy' = TRUE /\ calls' = Append(calls, c)
          /\ UNCHANGED << page, view, days, range, guests, quote, booking, signedIn, step, leaving, api >>
      BY <1>7 DEF submitAuth, DialogStep, Enqueue, planner
    <2>2. c \in Call /\ IsLive(c) /\ c.kind # "book"
      BY DEF Call, IsLive
    <2> HIDE DEF c
    <2>3. QueueOK(calls', busy', quote, range, guests)
      BY <1>t, <2>1, <2>2, DialogSends
    <2> QED BY <1>t, <2>1, <2>3, ShownStands DEF api
  <1>8. CASE confirm
    <2> DEFINE c == [kind |-> "book", stay |-> Here, live |-> TRUE]
    <2>1. /\ Open /\ ~busy /\ busy' = TRUE /\ calls' = Append(calls, c)
          /\ UNCHANGED << page, view, days, range, guests, quote, booking, signedIn, step, leaving, api >>
      BY <1>8 DEF confirm, DialogStep, Enqueue, planner
    <2>2. StayOf(range, guests) \in Stays
      BY <1>t, <2>1, RangesAreKept DEF Open, Mounted
    <2>3. c \in Call /\ IsLive(c) /\ c.stay = StayOf(range, guests)
      BY <2>2 DEF Call, IsLive, Here
    <2> HIDE DEF c
    <2>4. QueueOK(calls', busy', quote, range, guests)
      BY <1>t, <2>1, <2>3, DialogSends
    <2> QED BY <1>t, <2>1, <2>4, ShownStands DEF api
  <1> QED BY <1>1, <1>2, <1>3, <1>4, <1>5, <1>6, <1>7, <1>8

\* The page is left, rendered anew, or stands while others act.
LEMMA PageStep ==
  ASSUME PlannerInv,
         \/ Arrive \/ AnswerLost \/ Reload \/ SessionEnds
         \/ \E d \in Dates : OthersBook(d)
         \/ UNCHANGED pvars
  PROVE  PlannerInv'
  <1>t. /\ page \in { "unit", "booking", "error" } /\ view \in FirstMonth .. LastMonth
        /\ busy \in BOOLEAN /\ leaving \in BOOLEAN /\ signedIn \in BOOLEAN /\ session \in BOOLEAN
        /\ step \in { "signin", "register", "confirm" }
        /\ DOMAIN days \subseteq Dates
        /\ \A d \in DOMAIN days : days[d] \in { "free", "blocked", "past" }
        /\ taken \subseteq Nights /\ booked \subseteq Stays
        /\ guests \in 1 .. MaxGuests
        /\ busy => Open
        /\ QueueOK(calls, busy, quote, range, guests)
    BY DEF PlannerInv, PTypeOK
  <1>1. CASE Arrive
    BY <1>t, <1>1, PageLeft DEF Arrive, api
  <1>2. CASE AnswerLost
    <2>1. taken' \subseteq Nights /\ booked' \subseteq Stays
      BY <1>t, <1>2, OldestCall, BookedAtApi DEF AnswerLost
    <2> QED BY <1>t, <1>2, <2>1, PageLeft DEF AnswerLost
  <1>3. CASE Reload
    <2>1. /\ page' \in { "unit", "booking", "error" }
          /\ view' \in FirstMonth .. LastMonth
          /\ DOMAIN days' \subseteq Dates
          /\ \A d \in DOMAIN days' : days'[d] \in { "free", "blocked", "past" }
          /\ guests' \in 1 .. MaxGuests
      <3>1. MaxGuests \in Nat \ {0}
        BY PlannerAssumption
      <3>2. /\ page' = "unit" /\ view' = FirstMonth
            /\ guests' = IF MaxGuests < 2 THEN MaxGuests ELSE 2
        BY <1>3 DEF Reload, Render
      <3>3. DOMAIN days' \subseteq Dates /\ \A d \in DOMAIN days' : days'[d] \in { "free", "blocked", "past" }
        BY <1>3 DEF Reload, Render, Loaded, State
      <3> QED BY <3>1, <3>2, <3>3, MonthsOnShow
    <2>2. /\ range' = NoRange /\ quote' = NoQuote /\ booking' = FALSE /\ busy' = FALSE /\ calls' = << >>
          /\ step' = "signin" /\ leaving' = FALSE /\ signedIn' = session
          /\ UNCHANGED << session, taken, booked >>
      BY <1>3 DEF Reload, Render, api
    <2> QED BY <1>t, <2>1, <2>2, PageLeft
  <1>4. CASE SessionEnds
    <2>1. /\ session' = FALSE
          /\ UNCHANGED << page, view, days, range, guests, quote, booking, step, busy, leaving, signedIn,
                          calls, taken, booked >>
      BY <1>4 DEF SessionEnds, planner, dialog
    <2> QED BY <1>t, <2>1, ShownStands
  <1>5. ASSUME NEW d \in Dates, OthersBook(d) PROVE PlannerInv'
    <2>1. /\ taken' = taken \cup {d} /\ d \in Nights
          /\ UNCHANGED << page, view, days, range, guests, quote, booking, step, busy, leaving, signedIn,
                          calls, session, booked >>
      BY <1>5 DEF OthersBook, planner, dialog
    <2> QED BY <1>t, <2>1, ShownStands
  <1>6. CASE UNCHANGED pvars
    BY <1>t, <1>6, ShownStands DEF pvars
  <1> QED BY <1>1, <1>2, <1>3, <1>4, <1>5, <1>6

\* Every step keeps the invariant.
LEMMA PlannerStep_Inv == PlannerInv /\ [PNext]_pvars => PlannerInv'
  BY AnswerStep, GuestsStep, PageStep DEF PNext

\* So it holds always.
LEMMA PlannerInvHolds == PSpec => []PlannerInv
  BY PlannerInit_Inv, PlannerStep_Inv, PTL DEF PSpec

-----------------------------------------------------------------------------
(* The theorems.                                                           *)

\* Every part of the page keeps its type: in particular a range has its dates
\* in order, a price belongs to a stay, and only nights of the calendar go.
THEOREM PlannerTypes == PSpec => []PTypeOK
  BY PlannerInvHolds, PTL DEF PlannerInv

\* A price kept for a full range is for that stay, or the right one is asked
\* for last.
THEOREM PricesCatchUp == PSpec => []PriceCatchesUp
  <1>1. PlannerInv => PriceCatchesUp
    BY DEF PlannerInv, QueueOK, PricedLast, LastQuoteIs, PriceCatchesUp, Here
  <1> QED BY <1>1, PlannerInvHolds, PTL

\* A stay is booked only when the API was asked to price it before.
THEOREM StaysArePricedFirst == PSpec => []BookedAfterPriced
  <1>1. PlannerInv => BookedAfterPriced
    <2> SUFFICES ASSUME PlannerInv, NEW i \in DOMAIN calls, calls[i].kind = "book", calls[i].live
                 PROVE  \/ quote # NoQuote /\ quote.stay = calls[i].stay
                        \/ \E j \in 1 .. i - 1 : calls[j] = [kind |-> "quote", stay |-> calls[i].stay]
      BY DEF BookedAfterPriced
    <2>1. IsLive(calls[i]) /\ DOMAIN calls = 1 .. Len(calls) /\ Len(calls) \in Nat
      BY DEF IsLive, PlannerInv, PTypeOK
    <2>2. busy /\ OneLive(calls, Here)
      BY <2>1 DEF PlannerInv, QueueOK, NoneLive, Here
    <2>3. calls[i].stay = Here /\ \A j \in DOMAIN calls : j > i => calls[j].kind # "quote"
      BY <2>1, <2>2 DEF OneLive
    <2>4. quote # NoQuote /\ Complete(range)
      BY <2>2 DEF PlannerInv, Open, Mounted, q
    <2>5. CASE NoQuotes(calls)
      BY <2>3, <2>4, <2>5 DEF PlannerInv, QueueOK, PricedLast, Here
    <2>6. CASE ~NoQuotes(calls)
      <3>1. PICK j \in DOMAIN calls : calls[j] = [kind |-> "quote", stay |-> Here]
        BY <2>4, <2>6 DEF PlannerInv, QueueOK, PricedLast, LastQuoteIs, Here
      <3>2. j \in 1 .. i - 1
        BY <2>1, <2>3, <3>1
      <3> QED BY <2>3, <3>1, <3>2
    <2> QED BY <2>5, <2>6
  <1> QED BY <1>1, PlannerInvHolds, PTL

\* The dialog waits exactly while one action of its own has not answered.
THEOREM DialogWaitsForOne == PSpec => []BusyMeansOneAction
  <1>1. PlannerInv => BusyMeansOneAction
    <2> SUFFICES ASSUME PlannerInv PROVE BusyMeansOneAction
      OBVIOUS
    <2> DEFINE S == { i \in DOMAIN calls : calls[i].kind \in { "book", "auth" } /\ calls[i].live }
    <2>1. CASE busy
      <3>1. PICK i \in DOMAIN calls : IsLive(calls[i]) /\ \A j \in DOMAIN calls : IsLive(calls[j]) => j = i
        BY <2>1 DEF PlannerInv, QueueOK, OneLive
      <3>2. S = {i}
        BY <3>1 DEF IsLive
      <3>3. Cardinality(S) = 1
        BY <3>2, FS_Singleton
      <3> QED BY <2>1, <3>3 DEF BusyMeansOneAction
    <2>2. CASE ~busy
      <3>1. S = {}
        BY <2>2 DEF PlannerInv, QueueOK, NoneLive, IsLive
      <3>2. Cardinality(S) = 0
        BY <3>1, FS_EmptySet
      <3> QED BY <2>2, <3>2 DEF BusyMeansOneAction
    <2> QED BY <2>1, <2>2
  <1> QED BY <1>1, PlannerInvHolds, PTL
=============================================================================
