--------------------------- MODULE KisClientProofs ---------------------------
(***************************************************************************)
(* Proofs about KisClient, for any number of threads.                      *)
(***************************************************************************)
EXTENDS KisClient, SequenceTheorems, TLAPS

------------------------------------------------------------------------------
(* The lists of calls.  None jumps over its end, only the first call builds *)
(* a client, and the second, which asks for the token, is neither masked    *)
(* nor needless.  An order is only come to from the answer to its quote.    *)

Get == {"client", "token", "balance", "cash_price", "cash", "price", "closes",
        "amount", "open_orders", "quote", "order"}
Calls == [get : Get, fails : 0..4, spare : 0..4]

Led(s) ==
  \A j \in 1..Len(s) : s[j].get = "order" =>
    /\ j > 1 /\ s[j - 1].get = "quote" /\ s[j - 1].fails = 0 /\ s[j - 1].spare # 1
    /\ \A i \in 1..(j - 2) : /\ i + s[i].fails # j /\ i + s[i].spare # j
                             /\ s[i].get = "cash_price" => i + 2 # j

Inside(s) ==
  /\ s \in Seq(Calls) /\ Led(s)
  /\ \A i \in 1..Len(s) : /\ i + s[i].fails <= Len(s) + 1
                          /\ i + s[i].spare <= Len(s) + 1
                          /\ s[i].get = "cash_price" => i + 2 <= Len(s) + 1

Ordinary(call) == call.get \notin {"client", "token"}

\* A part of a command, and one that can be its beginning.
Part(s) == Inside(s) /\ \A i \in 1..Len(s) : Ordinary(s[i])

First(s) ==
  /\ Inside(s) /\ Len(s) >= 1
  /\ s[1].get # "client" /\ s[1].fails = 0 /\ s[1].spare = 0
  /\ \A i \in 2..Len(s) : Ordinary(s[i])

Whole(s) ==
  /\ Inside(s) /\ Len(s) >= 2
  /\ s[1] = Call("client", 0, 0)
  /\ s[2].get # "client" /\ s[2].fails = 0 /\ s[2].spare = 0
  /\ \A i \in 3..Len(s) : Ordinary(s[i])

LEMMA ConcatFacts ==
  ASSUME NEW s \in Seq(Calls), NEW t \in Seq(Calls)
  PROVE  /\ s \o t \in Seq(Calls)
         /\ Len(s) \in Nat /\ Len(t) \in Nat
         /\ Len(s \o t) = Len(s) + Len(t)
         /\ \A i \in 1..Len(s) : (s \o t)[i] = s[i] /\ s[i] \in Calls
         /\ \A i \in 1..Len(s \o t) : i > Len(s) =>
              /\ i - Len(s) \in 1..Len(t)
              /\ (s \o t)[i] = t[i - Len(s)] /\ t[i - Len(s)] \in Calls
<1>1. s \o t \in Seq(Calls) /\ Len(s \o t) = Len(s) + Len(t)
  BY ConcatProperties
<1>2. \A i \in 1..(Len(s) + Len(t)) : (s \o t)[i] = IF i <= Len(s) THEN s[i] ELSE t[i - Len(s)]
  BY ConcatProperties
<1>3. Len(s) \in Nat /\ Len(t) \in Nat
  OBVIOUS
<1>4. \A i \in 1..Len(s) : (s \o t)[i] = s[i] /\ s[i] \in Calls
  BY <1>2, <1>3, ElementOfSeq
<1>5. ASSUME NEW i \in 1..Len(s \o t), i > Len(s)
      PROVE  /\ i - Len(s) \in 1..Len(t)
             /\ (s \o t)[i] = t[i - Len(s)] /\ t[i - Len(s)] \in Calls
  <2>1. i - Len(s) \in 1..Len(t)
    BY <1>1, <1>3, <1>5
  <2>2. (s \o t)[i] = t[i - Len(s)]
    BY <1>1, <1>2, <1>3, <1>5
  <2> QED
    BY <2>1, <2>2, ElementOfSeq
<1> QED
  BY <1>1, <1>3, <1>4, <1>5

LEMMA LedConcat ==
  ASSUME NEW s, NEW t, Inside(s), Inside(t)
  PROVE  Led(s \o t)
<1>1. s \in Seq(Calls) /\ t \in Seq(Calls) /\ Led(s) /\ Led(t)
  BY DEF Inside
<1>2. /\ Len(s \o t) = Len(s) + Len(t) /\ Len(s) \in Nat /\ Len(t) \in Nat
      /\ \A i \in 1..Len(s) : (s \o t)[i] = s[i] /\ s[i] \in Calls
      /\ \A i \in 1..Len(s \o t) : i > Len(s) =>
           i - Len(s) \in 1..Len(t) /\ (s \o t)[i] = t[i - Len(s)]
  BY <1>1, ConcatFacts
<1> SUFFICES ASSUME NEW j \in 1..Len(s \o t), (s \o t)[j].get = "order"
             PROVE  /\ j > 1 /\ (s \o t)[j - 1].get = "quote"
                    /\ (s \o t)[j - 1].fails = 0 /\ (s \o t)[j - 1].spare # 1
                    /\ \A i \in 1..(j - 2) :
                         /\ i + (s \o t)[i].fails # j /\ i + (s \o t)[i].spare # j
                         /\ (s \o t)[i].get = "cash_price" => i + 2 # j
  BY DEF Led
<1>3. CASE j <= Len(s)
  <2>1. j \in 1..Len(s) /\ s[j].get = "order"
    BY <1>2, <1>3
  <2>2. /\ j > 1 /\ s[j - 1].get = "quote" /\ s[j - 1].fails = 0 /\ s[j - 1].spare # 1
        /\ \A i \in 1..(j - 2) : /\ i + s[i].fails # j /\ i + s[i].spare # j
                                 /\ s[i].get = "cash_price" => i + 2 # j
    BY <1>1, <2>1 DEF Led
  <2>3. j - 1 \in 1..Len(s) /\ \A i \in 1..(j - 2) : i \in 1..Len(s)
    BY <1>2, <2>1, <2>2
  <2> QED
    BY <1>2, <2>2, <2>3
<1>4. CASE j > Len(s)
  <2>1. PICK k \in 1..Len(t) : j = k + Len(s) /\ t[k].get = "order"
    <3>1. j - Len(s) \in 1..Len(t) /\ t[j - Len(s)].get = "order"
      BY <1>2, <1>4
    <3> QED
      BY <1>2, <3>1
  <2>2. /\ k > 1 /\ t[k - 1].get = "quote" /\ t[k - 1].fails = 0 /\ t[k - 1].spare # 1
        /\ \A i \in 1..(k - 2) : /\ i + t[i].fails # k /\ i + t[i].spare # k
                                 /\ t[i].get = "cash_price" => i + 2 # k
    BY <1>1, <2>1 DEF Led
  <2>3. j - 1 \in 1..Len(s \o t) /\ j - 1 > Len(s) /\ (s \o t)[j - 1] = t[k - 1]
    <3>1. j - 1 \in 1..Len(s \o t) /\ j - 1 > Len(s) /\ (j - 1) - Len(s) = k - 1
      BY <1>2, <2>1, <2>2
    <3>2. (s \o t)[j - 1] = t[(j - 1) - Len(s)]
      BY <1>2, <3>1
    <3> QED
      BY <3>1, <3>2
  <2>4. ASSUME NEW i \in 1..(j - 2), i <= Len(s)
        PROVE  /\ i + (s \o t)[i].fails # j /\ i + (s \o t)[i].spare # j
               /\ (s \o t)[i].get = "cash_price" => i + 2 # j
    <3>1. i \in 1..Len(s) /\ (s \o t)[i] = s[i] /\ s[i] \in Calls
      BY <1>2, <2>4
    <3>2. /\ i + s[i].fails <= Len(s) + 1 /\ i + s[i].spare <= Len(s) + 1
          /\ s[i].get = "cash_price" => i + 2 <= Len(s) + 1
      BY <3>1 DEF Inside
    <3>3. s[i].fails \in 0..4 /\ s[i].spare \in 0..4 /\ j > Len(s) + 1
      BY <1>2, <2>1, <2>2, <3>1 DEF Calls
    <3> QED
      BY <1>2, <3>1, <3>2, <3>3
  <2>5. ASSUME NEW i \in 1..(j - 2), i > Len(s)
        PROVE  /\ i + (s \o t)[i].fails # j /\ i + (s \o t)[i].spare # j
               /\ (s \o t)[i].get = "cash_price" => i + 2 # j
    <3>1. PICK h \in 1..(k - 2) : i = h + Len(s)
      <4>1. Len(s) \in Nat /\ i \in Int
        BY <1>2
      <4>2. i - Len(s) \in 1..(k - 2)
        BY <2>1, <2>5, <4>1
      <4>3. i = (i - Len(s)) + Len(s)
        BY <4>1
      <4> QED
        BY <4>2, <4>3
    <3>2. i \in 1..Len(s \o t) /\ i - Len(s) = h /\ h \in 1..Len(t)
      BY <1>2, <2>1, <3>1
    <3>3. (s \o t)[i] = t[h] /\ t[h] \in Calls
      <4>1. (s \o t)[i] = t[i - Len(s)]
        BY <1>2, <2>5, <3>2
      <4> QED
        BY <1>1, <3>2, <4>1, ElementOfSeq
    <3>4. t[h].fails \in Nat /\ t[h].spare \in Nat
      BY <3>3 DEF Calls
    <3>5. PICK f \in Nat, g \in Nat : f = t[h].fails /\ g = t[h].spare
      BY <3>4
    <3>6. h + f # k /\ h + g # k /\ (t[h].get = "cash_price" => h + 2 # k)
      BY <2>2, <3>1, <3>5
    <3>7. i + f # j /\ i + g # j /\ (t[h].get = "cash_price" => i + 2 # j)
      BY <1>2, <2>1, <3>1, <3>6
    <3> QED
      BY <3>3, <3>5, <3>7
  <2>6. \A i \in 1..(j - 2) : i <= Len(s) \/ i > Len(s)
    BY <1>2
  <2> QED
    BY <1>2, <2>1, <2>2, <2>3, <2>4, <2>5, <2>6
<1> QED
  BY <1>2, <1>3, <1>4

LEMMA InsideConcat ==
  ASSUME NEW s, NEW t, Inside(s), Inside(t)
  PROVE  Inside(s \o t)
<1>1. s \in Seq(Calls) /\ t \in Seq(Calls)
  BY DEF Inside
<1>2. s \o t \in Seq(Calls) /\ Len(s \o t) = Len(s) + Len(t)
      /\ Len(s) \in Nat /\ Len(t) \in Nat
  BY <1>1, ConcatFacts
<1>3. ASSUME NEW i \in 1..Len(s \o t)
      PROVE  /\ i + (s \o t)[i].fails <= Len(s \o t) + 1
             /\ i + (s \o t)[i].spare <= Len(s \o t) + 1
             /\ (s \o t)[i].get = "cash_price" => i + 2 <= Len(s \o t) + 1
  <2>1. CASE i <= Len(s)
    <3>1. i \in 1..Len(s)
      BY <1>2, <2>1
    <3>2. (s \o t)[i] = s[i] /\ s[i].fails \in 0..4 /\ s[i].spare \in 0..4
      BY <1>1, <3>1, ConcatFacts DEF Calls
    <3>3. /\ i + s[i].fails <= Len(s) + 1
          /\ i + s[i].spare <= Len(s) + 1
          /\ s[i].get = "cash_price" => i + 2 <= Len(s) + 1
      BY <3>1 DEF Inside
    <3> QED
      BY <1>2, <3>2, <3>3
  <2>2. CASE i > Len(s)
    <3> DEFINE j == i - Len(s)
    <3>1. j \in 1..Len(t)
      BY <1>1, <1>3, <2>2, ConcatFacts
    <3>2. (s \o t)[i] = t[j] /\ t[j].fails \in 0..4 /\ t[j].spare \in 0..4
      BY <1>1, <1>3, <2>2, ConcatFacts DEF Calls
    <3>3. /\ j + t[j].fails <= Len(t) + 1
          /\ j + t[j].spare <= Len(t) + 1
          /\ t[j].get = "cash_price" => j + 2 <= Len(t) + 1
      BY <3>1 DEF Inside
    <3>4. i = j + Len(s) /\ j \in Nat
      BY <1>2, <3>1
    <3> HIDE DEF j
    <3> QED
      BY <1>2, <3>2, <3>3, <3>4
  <2> QED
    BY <1>2, <2>1, <2>2
<1> QED
  BY <1>2, <1>3, LedConcat DEF Inside

LEMMA PartConcat ==
  ASSUME NEW s, NEW t, Part(s), Part(t)
  PROVE  Part(s \o t)
<1>1. Inside(s \o t)
  BY InsideConcat DEF Part
<1>2. s \in Seq(Calls) /\ t \in Seq(Calls)
  BY DEF Part, Inside
<1> QED
  BY <1>1, <1>2, ConcatFacts DEF Part

LEMMA FirstConcat ==
  ASSUME NEW s, NEW t, First(s), Part(t)
  PROVE  First(s \o t)
<1>1. Inside(s \o t)
  BY InsideConcat DEF Part, First
<1>2. s \in Seq(Calls) /\ t \in Seq(Calls)
  BY DEF Part, First, Inside
<1> QED
  BY <1>1, <1>2, ConcatFacts DEF Part, First

LEMMA WholeConcat ==
  ASSUME NEW s, NEW t, Whole(s), Part(t)
  PROVE  Whole(s \o t)
<1>1. Inside(s \o t)
  BY InsideConcat DEF Part, Whole
<1>2. s \in Seq(Calls) /\ t \in Seq(Calls)
  BY DEF Part, Whole, Inside
<1> QED
  BY <1>1, <1>2, ConcatFacts DEF Part, Whole

LEMMA NewClientFirst ==
  ASSUME NEW s, First(s)
  PROVE  Whole(NewClient \o s)
<1>1. Call("client", 0, 0) \in Calls
  BY DEF Call, Calls, Get
<1>2. NewClient \in Seq(Calls) /\ Len(NewClient) = 1 /\ NewClient[1] = Call("client", 0, 0)
  BY <1>1 DEF NewClient, Must
<1>3. Inside(NewClient)
  BY <1>2 DEF Inside, Led, Call
<1>4. Inside(NewClient \o s) /\ s \in Seq(Calls)
  BY <1>3, InsideConcat DEF First, Inside
<1> QED
  BY <1>2, <1>4, ConcatFacts DEF First, Whole

\* The literal pieces.
LEMMA MustIsFirst ==
  ASSUME NEW get \in Get \ {"client", "cash_price", "order"}
  PROVE  First(Must(get)) /\ (get # "token" => Part(Must(get)))
<1>1. Call(get, 0, 0) \in Calls /\ Must(get) = <<Call(get, 0, 0)>>
  BY DEF Call, Calls, Must
<1>2. Must(get) \in Seq(Calls) /\ Len(Must(get)) = 1 /\ Must(get)[1] = Call(get, 0, 0)
  BY <1>1
<1> QED
  BY <1>2 DEF First, Part, Inside, Led, Ordinary, Call

LEMMA OneIsPart ==
  ASSUME NEW a \in Calls, Ordinary(a), a.get \notin {"cash_price", "order"},
         a.fails <= 1, a.spare <= 1
  PROVE  Part(<<a>>)
  BY DEF Part, Inside, Led, Calls

LEMMA TwoArePart ==
  ASSUME NEW a \in Calls, NEW b \in Calls, Ordinary(a), Ordinary(b),
         a.fails <= 2, a.spare <= 2, b.fails <= 1, b.spare <= 1, b.get # "cash_price",
         a.get # "order",
         b.get = "order" => a.get = "quote" /\ a.fails = 0 /\ a.spare # 1
  PROVE  Part(<<a, b>>)
  BY DEF Part, Inside, Led, Calls

LEMMA SnapshotParts == First(Snapshot) /\ Part(Snapshot)
<1>1. /\ Call("cash_price", 0, 0) \in Calls /\ Call("cash", 1, 0) \in Calls
      /\ "balance" \in Get \ {"client", "cash_price", "order"}
  BY DEF Call, Calls, Get
<1>2. Part(<<Call("cash_price", 0, 0), Call("cash", 1, 0)>>)
  BY <1>1, TwoArePart DEF Call, Ordinary
<1> QED
  BY <1>1, <1>2, MustIsFirst, FirstConcat, PartConcat DEF Snapshot

LEMMA PricesPart == Part(Prices)
<1>1. Call("price", 1, 1) \in Calls
  BY DEF Call, Calls, Get
<1> QED
  BY <1>1, TwoArePart DEF Call, Ordinary, Prices

LEMMA ClosesParts == First(Closes) /\ Part(Closes)
  BY MustIsFirst, FirstConcat, PartConcat DEF Closes, Get

LEMMA PlaceOrderPart == Part(PlaceOrder)
<1>1. Call("quote", 0, 2) \in Calls /\ Call("order", 0, 1) \in Calls
  BY DEF Call, Calls, Get
<1> QED
  BY <1>1, TwoArePart DEF Call, Ordinary, PlaceOrder

LEMMA WaitSettlementPart == Part(WaitSettlement)
  BY DEF WaitSettlement, Part, Inside, Led, Call, Calls, Get, Ordinary

LEMMA SalesFirst == First(Sales) /\ Part(Sales)
<1>1. Part(<<Call("open_orders", 1, 0)>>)
  <2>1. Call("open_orders", 1, 0) \in Calls
    BY DEF Call, Calls, Get
  <2> QED
    BY <2>1, OneIsPart DEF Call, Ordinary
<1> QED
  BY <1>1, SnapshotParts, PlaceOrderPart, FirstConcat, PartConcat DEF Sales

LEMMA StatusWhole == Whole(Status)
<1>1. /\ Call("price", 1, 0) \in Calls /\ Call("closes", 2, 0) \in Calls
      /\ Call("closes", 1, 0) \in Calls /\ Call("price", 2, 0) \in Calls
      /\ Call("amount", 1, 0) \in Calls /\ Call("balance", 1, 0) \in Calls
  BY DEF Call, Calls, Get
<1>2. /\ Part(<<Call("price", 1, 0), Call("price", 1, 0)>>)
      /\ Part(<<Call("closes", 2, 0), Call("closes", 1, 0)>>)
      /\ Part(<<Call("price", 2, 0), Call("amount", 1, 0)>>)
      /\ Part(<<Call("balance", 1, 0)>>)
  BY <1>1, OneIsPart, TwoArePart DEF Call, Ordinary
<1> QED
  BY <1>2, SnapshotParts, NewClientFirst, WholeConcat DEF Status

LEMMA PurchasePart == Part(Purchase)
  BY DEF Purchase, Part, Inside, Led, Call, Calls, Get, Ordinary

LEMMA CycleWhole == Whole(Cycle)
<1>1. First(Must("token"))
  BY MustIsFirst DEF Get
<1>2. Whole(NewClient \o Must("token") \o Closes \o Snapshot \o Prices \o Sales)
  BY <1>1, NewClientFirst, WholeConcat, ClosesParts, SnapshotParts, PricesPart, SalesFirst
<1> QED
  BY <1>2, WholeConcat, SnapshotParts, PricesPart, WaitSettlementPart, PurchasePart DEF Cycle

LEMMA ScriptWhole == \A k \in Kinds : Whole(Script[k])
<1>1. Whole(NewClient \o Closes) /\ Whole(NewClient \o Sales) /\ Whole(Nav)
  BY NewClientFirst, WholeConcat, ClosesParts, SalesFirst, SnapshotParts, PricesPart
  DEF Nav
<1>2. /\ Kinds = {"status", "signal", "deposit", "liquidation", "cycle"}
      /\ Script.status = Status /\ Script.signal = NewClient \o Closes
      /\ Script.deposit = Nav /\ Script.liquidation = NewClient \o Sales
      /\ Script.cycle = Cycle
  BY DEF Kinds, Script
<1> QED
  BY <1>1, <1>2, StatusWhole, CycleWhole

------------------------------------------------------------------------------
(* The token.  A thread has asked for none before its second call, asks for *)
(* it there once, and is past that call only with a token.                  *)

Fresh(c) == issued[c] = 0 /\ ~token[c] /\ ~lost[c] /\ holder # c

Alone(c) ==
  /\ kind[c] = "idle" => at[c] = 1
  /\ kind[c] # "idle" /\ waits[c] # "nothing" => at[c] <= Len(Script[kind[c]])
  /\ at[c] = 1 => Fresh(c) /\ waits[c] = "nothing"
  /\ at[c] <= 2 => cached[c] = Uncached
  /\ at[c] = 2 =>
       CASE waits[c] = "nothing" ->
              Fresh(c) \/ (issued[c] = 1 /\ token[c] /\ Here(c).get # "token")
         [] waits[c] = "token" -> issued[c] = 1 /\ ~token[c] /\ (holder = c => lost[c])
         [] OTHER -> issued[c] = 1 /\ token[c]
  /\ at[c] > 2 => issued[c] = 1 /\ token[c] /\ waits[c] # "token"

ClientInv == ClientTypeOK /\ \A c \in Thread : Alone(c)

LEMMA HereFacts ==
  ASSUME ClientTypeOK, NEW c \in Thread, kind[c] # "idle"
  PROVE  /\ Len(Script[kind[c]]) \in Nat /\ Len(Script[kind[c]]) >= 2
         /\ at[c] \in Nat \ {0}
         /\ at[c] <= Len(Script[kind[c]]) =>
              /\ Here(c).fails \in 0..4 /\ Here(c).spare \in 0..4
              /\ at[c] + Here(c).fails <= Len(Script[kind[c]]) + 1
              /\ at[c] + Here(c).spare <= Len(Script[kind[c]]) + 1
              /\ Here(c).get = "cash_price" => at[c] + 2 <= Len(Script[kind[c]]) + 1
              /\ at[c] = 1 => Here(c).get = "client" /\ Here(c).fails = 0 /\ Here(c).spare = 0
              /\ at[c] = 2 => Here(c).get # "client" /\ Here(c).fails = 0 /\ Here(c).spare = 0
              /\ at[c] > 2 => Here(c).get \notin {"client", "token"}
<1> DEFINE s == Script[kind[c]]
<1>1. kind[c] \in Kinds /\ at[c] \in Nat \ {0}
  BY DEF ClientTypeOK
<1>2. Whole(s)
  BY <1>1, ScriptWhole
<1> HIDE DEF s
<1>3. Len(s) \in Nat /\ Len(s) >= 2
  BY <1>2 DEF Whole, Inside
<1>4. ASSUME at[c] <= Len(s)
      PROVE  /\ s[at[c]].fails \in 0..4 /\ s[at[c]].spare \in 0..4
             /\ at[c] + s[at[c]].fails <= Len(s) + 1
             /\ at[c] + s[at[c]].spare <= Len(s) + 1
             /\ s[at[c]].get = "cash_price" => at[c] + 2 <= Len(s) + 1
             /\ at[c] = 1 => s[at[c]].get = "client" /\ s[at[c]].fails = 0 /\ s[at[c]].spare = 0
             /\ at[c] = 2 => s[at[c]].get # "client" /\ s[at[c]].fails = 0 /\ s[at[c]].spare = 0
             /\ at[c] > 2 => s[at[c]].get \notin {"client", "token"}
  <2>1. at[c] \in 1..Len(s)
    BY <1>1, <1>3, <1>4
  <2>2. s[at[c]] \in Calls
    BY <1>2, <2>1, ElementOfSeq DEF Whole, Inside
  <2>3. at[c] > 2 => at[c] \in 3..Len(s)
    BY <1>1, <1>3, <1>4
  <2> QED
    BY <1>2, <2>1, <2>2, <2>3 DEF Whole, Inside, Calls, Call, Ordinary
<1> QED
  BY <1>1, <1>3, <1>4 DEF s, Here

\* What a step of c leaves the other threads with.
Beside(c) ==
  /\ \A q \in Thread \ {c} :
       /\ kind'[q] = kind[q] /\ at'[q] = at[q] /\ waits'[q] = waits[q]
       /\ token'[q] = token[q] /\ cached'[q] = cached[q] /\ issued'[q] = issued[q]
       /\ lost'[q] = lost[q]
  /\ holder' \in {holder, c, before, nobody}

LEMMA StepOfOne ==
  ASSUME ClientInv, NEW c \in Thread, ClientTypeOK', Beside(c), Alone(c)'
  PROVE  ClientInv'
<1>1. ASSUME NEW q \in Thread \ {c}
      PROVE  Alone(q)'
  <2>1. holder' = q => holder = q
    BY ThreadAssumption DEF Beside
  <2> QED
    BY <2>1 DEF ClientInv, Alone, Fresh, Here, Beside
<1> QED
  BY <1>1 DEF ClientInv

LEMMA InitClientInv == Init => ClientInv
  BY ThreadAssumption
  DEF Init, ClientInv, ClientTypeOK, Alone, Fresh, Uncached, Age, MaxAttempts

LEMMA BeginKeeps ==
  ASSUME ClientInv, NEW c \in Thread, NEW k \in KindsOf(c), Begin(c, k)
  PROVE  ClientInv'
<1>1. k \in Kinds /\ kind'[c] = k /\ at[c] = 1
  BY DEF KindsOf, Begin, ClientInv, ClientTypeOK, Alone, Kinds, Script
<1>2. Len(Script[k]) \in Nat /\ Len(Script[k]) >= 2
  BY <1>1, ScriptWhole DEF Whole, Inside
<1>3. ClientTypeOK'
  BY <1>1, <1>2 DEF ClientInv, ClientTypeOK, Begin, client
<1>4. Beside(c)
  BY DEF Beside, Begin, client, ClientInv, ClientTypeOK
<1>5. Alone(c)'
  BY <1>1 DEF ClientInv, Alone, Fresh, Begin, client
<1> QED
  BY <1>3, <1>4, <1>5, StepOfOne

LEMMA EndKeeps ==
  ASSUME ClientInv, NEW c \in Thread, NEW h \in {holder, c}, End(c, h)
  PROVE  ClientInv'
<1>1. ClientTypeOK'
  BY DEF End, ClientInv, ClientTypeOK, Uncached, Age, MaxAttempts
<1>2. Beside(c)
  BY DEF Beside, End, ClientInv, ClientTypeOK
<1>3. Alone(c)'
  BY ThreadAssumption DEF End, ClientInv, ClientTypeOK, Alone, Fresh
<1> QED
  BY <1>1, <1>2, <1>3, StepOfOne

\* A step that goes on to a later call.
LEMMA GoOnKeeps ==
  ASSUME ClientInv, NEW c \in Thread, AtCall(c), NEW n \in Nat \ {0}, GoOn(c, n),
         at[c] + n <= Len(Script[kind[c]]) + 1, UNCHANGED <<kind, issued>>,
         at[c] > 1, at[c] = 2 => issued[c] = 1, token'[c] = TRUE,
         ClientTypeOK', Beside(c)
  PROVE  ClientInv'
<1>1. /\ at'[c] = at[c] + n /\ waits'[c] = "nothing" /\ kind'[c] = kind[c]
      /\ issued'[c] = issued[c] /\ at[c] \in Nat
  BY DEF GoOn, Wait, ClientInv, ClientTypeOK
<1>2. issued[c] = 1
  BY <1>1 DEF ClientInv, Alone
<1>3. Alone(c)'
  BY <1>1, <1>2 DEF Alone, AtCall
<1> QED
  BY <1>3, StepOfOne

LEMMA BuildKeeps ==
  ASSUME ClientInv, NEW c \in Thread, Build(c)
  PROVE  ClientInv'
<1>1. /\ AtCall(c) /\ kind[c] # "idle" /\ waits[c] = "nothing" /\ Here(c).get = "client"
      /\ at[c] = 1
  BY HereFacts DEF Build, Ready, AtCall, ClientInv
<1>2. /\ at'[c] = 2 /\ waits'[c] = "nothing" /\ token'[c] = FALSE /\ cached'[c] = Uncached
      /\ UNCHANGED <<kind, holder, issued, lost>>
  BY <1>1 DEF Build, GoOn, Wait, ClientInv, ClientTypeOK
<1>3. ClientTypeOK'
  BY <1>1, <1>2, HereFacts
  DEF Build, GoOn, Wait, ClientInv, ClientTypeOK, Uncached, Age, MaxAttempts
<1>4. Beside(c)
  BY DEF Beside, Build, GoOn, Wait, ClientInv, ClientTypeOK
<1>5. Alone(c)'
  BY <1>1, <1>2 DEF ClientInv, Alone, Fresh
<1> QED
  BY <1>3, <1>4, <1>5, StepOfOne

LEMMA NeedlessKeeps ==
  ASSUME ClientInv, NEW c \in Thread, Needless(c)
  PROVE  ClientInv'
<1>1. /\ AtCall(c) /\ kind[c] # "idle" /\ waits[c] = "nothing" /\ at[c] > 2
      /\ Here(c).spare \in Nat \ {0} /\ at[c] + Here(c).spare <= Len(Script[kind[c]]) + 1
  BY HereFacts DEF Needless, Ready, AtCall, ClientInv
<1>2. token[c] = TRUE
  BY <1>1 DEF ClientInv, Alone
<1>3. ClientTypeOK'
  BY <1>1 DEF Needless, GoOn, Wait, ClientInv, ClientTypeOK, MaxAttempts
<1>4. Beside(c)
  BY DEF Beside, Needless, GoOn, Wait, ClientInv, ClientTypeOK
<1>5. GoOn(c, Here(c).spare) /\ UNCHANGED <<kind, issued>> /\ token'[c] = TRUE
      /\ at[c] > 1 /\ at[c] # 2
  BY <1>1, <1>2 DEF Needless, ClientInv, ClientTypeOK
<1> QED
  BY <1>1, <1>3, <1>4, <1>5, GoOnKeeps

LEMMA FromCacheKeeps ==
  ASSUME ClientInv, NEW c \in Thread, FromCache(c)
  PROVE  ClientInv'
<1>1. /\ AtCall(c) /\ kind[c] # "idle" /\ waits[c] = "nothing" /\ at[c] > 2
  BY HereFacts DEF FromCache, Ready, AtCall, ClientInv, Alone, Uncached
<1>2. token[c] = TRUE
  BY <1>1 DEF ClientInv, Alone
<1>3. PICK n \in {1, 2} : GoOn(c, n) /\ at[c] + n <= Len(Script[kind[c]]) + 1
  BY <1>1, HereFacts DEF FromCache, AtCall, ClientInv
<1>4. ClientTypeOK'
  BY <1>1, <1>3 DEF FromCache, GoOn, Wait, ClientInv, ClientTypeOK, MaxAttempts
<1>5. Beside(c)
  BY <1>3 DEF Beside, FromCache, GoOn, Wait, ClientInv, ClientTypeOK
<1>6. UNCHANGED <<kind, issued>> /\ token'[c] = TRUE
      /\ at[c] > 1 /\ at[c] # 2 /\ n \in Nat \ {0}
  BY <1>1, <1>2, <1>3 DEF FromCache, ClientInv, ClientTypeOK
<1> QED
  BY <1>1, <1>3, <1>4, <1>5, <1>6, GoOnKeeps

LEMMA AskKeeps ==
  ASSUME ClientInv, NEW c \in Thread, Ask(c)
  PROVE  ClientInv'
<1> DEFINE first == Here(c).get = "token" \/ ~token[c]
<1>1. /\ AtCall(c) /\ kind[c] # "idle" /\ waits[c] = "nothing" /\ at[c] >= 2
      /\ at[c] > 2 => Here(c).get # "token"
  BY HereFacts DEF Ask, Ready, AtCall, ClientInv
<1>2. Caches(c, Here(c).get) \in [balance : Age, cash : Age]
  <2>1. cached[c] \in [balance : Age, cash : Age] /\ DOMAIN cached[c] = {"balance", "cash"}
    BY DEF ClientInv, ClientTypeOK
  <2>2. [x \in DOMAIN cached[c] |-> AfterOrder(cached[c][x])] \in [balance : Age, cash : Age]
    BY <2>1 DEF AfterOrder, Age
  <2> QED
    BY <2>1, <2>2 DEF Caches, Uncached, Age
<1>3. at[c] = 2 => Caches(c, Here(c).get) = Uncached
  <2> SUFFICES ASSUME at[c] = 2 PROVE Caches(c, Here(c).get) = Uncached
    OBVIOUS
  <2>1. cached[c] = Uncached
    BY DEF ClientInv, Alone
  <2>2. [x \in DOMAIN Uncached |-> AfterOrder(Uncached[x])] = Uncached
    BY DEF Uncached, AfterOrder
  <2> QED
    BY <2>1, <2>2 DEF Caches
<1>4. /\ waits'[c] = (IF first THEN "token" ELSE "call")
      /\ issued'[c] = issued[c] + (IF first THEN 1 ELSE 0)
      /\ cached'[c] = Caches(c, Here(c).get)
      /\ UNCHANGED <<kind, at, holder, token, lost>>
  BY DEF Ask, Wait, ClientInv, ClientTypeOK
<1>5. ClientTypeOK'
  BY <1>2 DEF Ask, Wait, ClientInv, ClientTypeOK, MaxAttempts
<1>6. Beside(c)
  BY DEF Beside, Ask, Wait, ClientInv, ClientTypeOK
<1>7. Alone(c)'
  <2>1. at[c] = 2 => \/ first /\ Fresh(c)
                     \/ ~first /\ issued[c] = 1 /\ token[c]
    BY <1>1 DEF ClientInv, Alone, Fresh
  <2>2. at[c] > 2 => ~first /\ issued[c] = 1 /\ token[c]
    BY <1>1 DEF ClientInv, Alone
  <2>3. at'[c] = at[c] /\ kind'[c] = kind[c] /\ token'[c] = token[c] /\ lost'[c] = lost[c]
        /\ at[c] \in Nat /\ holder' = holder
    BY <1>4 DEF ClientInv, ClientTypeOK
  <2> HIDE DEF first
  <2>4. CASE at[c] = 2
    BY <1>1, <1>3, <1>4, <2>1, <2>3, <2>4 DEF Alone, Fresh, AtCall
  <2>5. CASE at[c] > 2
    BY <1>1, <1>4, <2>2, <2>3, <2>5 DEF Alone, AtCall
  <2> QED
    BY <1>1, <2>3, <2>4, <2>5
<1> QED
  BY <1>5, <1>6, <1>7, StepOfOne

\* What a thread that waits for a token, or for another answer, has.
LEMMA Waiting ==
  ASSUME ClientInv, NEW c \in Thread, waits[c] # "nothing"
  PROVE  /\ kind[c] # "idle" /\ AtCall(c) /\ at[c] \in Nat /\ at[c] >= 2
         /\ Len(Script[kind[c]]) \in Nat /\ at[c] <= Len(Script[kind[c]])
         /\ issued[c] = 1
         /\ waits[c] = "token" => /\ at[c] = 2 /\ Here(c).fails = 0
                                  /\ token[c] = FALSE /\ (holder = c => lost[c])
         /\ waits[c] = "call" => token[c] = TRUE
<1>1. kind[c] # "idle" /\ at[c] \in Nat /\ at[c] >= 2 /\ at[c] <= Len(Script[kind[c]])
  BY DEF ClientInv, ClientTypeOK, Alone
<1>2. waits[c] \in {"token", "call"} /\ token[c] \in BOOLEAN
  BY DEF ClientInv, ClientTypeOK
<1>3. Len(Script[kind[c]]) \in Nat /\ (at[c] = 2 => Here(c).fails = 0)
  BY <1>1, HereFacts DEF ClientInv
<1> QED
  BY <1>1, <1>2, <1>3 DEF ClientInv, Alone, AtCall

LEMMA GrantedKeeps ==
  ASSUME ClientInv, NEW c \in Thread, Granted(c)
  PROVE  ClientInv'
<1>1. /\ kind[c] # "idle" /\ at[c] = 2 /\ issued[c] = 1 /\ AtCall(c)
      /\ 2 <= Len(Script[kind[c]]) /\ Len(Script[kind[c]]) \in Nat
  BY Waiting DEF Granted
<1>2. /\ at'[c] = (IF Here(c).get = "token" THEN 3 ELSE 2)
      /\ waits'[c] = "nothing" /\ token'[c] = TRUE /\ holder' = c
      /\ UNCHANGED <<kind, cached, issued, lost>>
  BY <1>1 DEF Granted, GoOn, Wait, Keeps, ClientInv, ClientTypeOK
<1>3. ClientTypeOK'
  BY <1>1, <1>2 DEF Granted, GoOn, Wait, Keeps, ClientInv, ClientTypeOK, MaxAttempts
<1>4. Beside(c)
  BY DEF Beside, Granted, GoOn, Wait, ClientInv, ClientTypeOK
<1>5. Alone(c)'
  BY <1>1, <1>2 DEF Alone, Here, ClientInv
<1> QED
  BY <1>3, <1>4, <1>5, StepOfOne

\* Another attempt, after which the thread knows no more than before.
LEMMA AgainKeeps ==
  ASSUME ClientInv, NEW c \in Thread, waits[c] # "nothing", Again(c),
         UNCHANGED <<kind, at, waits, token, cached, issued>>,
         \/ UNCHANGED <<holder, lost>>
         \/ holder' = c /\ lost' = [lost EXCEPT ![c] = TRUE]
  PROVE  ClientInv'
<1>1. ClientTypeOK'
  <2>1. attempt' \in [Thread -> 0..MaxAttempts]
    BY DEF Again, ClientInv, ClientTypeOK, MaxAttempts
  <2>2. lost' \in [Thread -> BOOLEAN] /\ holder' \in Thread \cup {nobody, before}
    BY DEF ClientInv, ClientTypeOK
  <2> QED
    BY <2>1, <2>2 DEF ClientInv, ClientTypeOK
<1>2. Beside(c)
  BY DEF Beside, ClientInv, ClientTypeOK
<1>3. (lost'[c] = lost[c] /\ holder' = holder) \/ lost'[c] = TRUE
  BY DEF ClientInv, ClientTypeOK
<1>4. Alone(c)'
  BY Waiting, <1>3 DEF Alone, Here, ClientInv
<1> QED
  BY <1>1, <1>2, <1>4, StepOfOne

LEMMA GrantLostKeeps ==
  ASSUME ClientInv, NEW c \in Thread, GrantLost(c)
  PROVE  ClientInv'
<1>1. Here(c).fails = 0
  BY Waiting DEF GrantLost
<1>2. CASE Fails(c, c)
  BY <1>1, <1>2, EndKeeps DEF Fails
<1>3. CASE ~Fails(c, c)
  BY <1>3, AgainKeeps DEF GrantLost
<1> QED
  BY <1>2, <1>3

LEMMA NotGrantedKeeps ==
  ASSUME ClientInv, NEW c \in Thread, NotGranted(c)
  PROVE  ClientInv'
<1>1. Here(c).fails = 0
  BY Waiting DEF NotGranted
<1>2. CASE Fails(c, holder)
  BY <1>1, <1>2, EndKeeps DEF Fails
<1>3. CASE ~Fails(c, holder)
  BY <1>3, AgainKeeps DEF NotGranted
<1> QED
  BY <1>2, <1>3

LEMMA AnsweredKeeps ==
  ASSUME ClientInv, NEW c \in Thread, waits[c] = "call",
         NEW b \in [balance : Age, cash : Age],
         GoOn(c, 1), cached' = [cached EXCEPT ![c] = b],
         UNCHANGED <<kind, holder, token, issued, lost>>
  PROVE  ClientInv'
<1>1. /\ kind[c] # "idle" /\ AtCall(c) /\ at[c] \in Nat /\ at[c] > 1
      /\ at[c] + 1 <= Len(Script[kind[c]]) + 1 /\ issued[c] = 1 /\ token[c] = TRUE
      /\ Len(Script[kind[c]]) \in Nat
  <2>1. waits[c] # "nothing"
    OBVIOUS
  <2>2. /\ kind[c] # "idle" /\ AtCall(c) /\ at[c] \in Nat /\ at[c] >= 2
        /\ Len(Script[kind[c]]) \in Nat /\ at[c] <= Len(Script[kind[c]])
        /\ issued[c] = 1
    BY <2>1, Waiting
  <2>3. token[c] = TRUE
    BY <2>1, Waiting
  <2> QED
    BY <2>2, <2>3
<1>2. ClientTypeOK'
  BY <1>1 DEF GoOn, Wait, ClientInv, ClientTypeOK, MaxAttempts
<1>3. Beside(c)
  BY DEF Beside, GoOn, Wait, ClientInv, ClientTypeOK
<1>4. token'[c] = TRUE /\ 1 \in Nat \ {0}
  BY <1>1
<1> QED
  BY <1>1, <1>2, <1>3, <1>4, GoOnKeeps

LEMMA NotAnsweredKeeps ==
  ASSUME ClientInv, NEW c \in Thread, NotAnswered(c)
  PROVE  ClientInv'
<1>1. waits[c] = "call" /\ waits[c] # "nothing"
  BY DEF NotAnswered
<1>2. cached[c] \in [balance : Age, cash : Age] /\ "current" \in Age
  BY DEF ClientInv, ClientTypeOK, Age
<1>3. CASE /\ Again(c)
           /\ UNCHANGED <<kind, at, waits, token, cached, issued, lost, holder>>
  BY <1>1, <1>3, AgainKeeps
<1>4. CASE Fails(c, holder)
  <2>1. CASE Here(c).fails = 0
    BY <1>4, <2>1, EndKeeps DEF Fails
  <2>2. CASE Here(c).fails # 0
    <3>1. /\ kind[c] # "idle" /\ AtCall(c) /\ at[c] \in Nat /\ at[c] > 1
          /\ issued[c] = 1 /\ token[c] = TRUE /\ Len(Script[kind[c]]) \in Nat
          /\ at[c] <= Len(Script[kind[c]])
      <4>1. /\ kind[c] # "idle" /\ AtCall(c) /\ at[c] \in Nat /\ at[c] >= 2
            /\ Len(Script[kind[c]]) \in Nat /\ at[c] <= Len(Script[kind[c]])
            /\ issued[c] = 1
        BY <1>1, Waiting
      <4>2. token[c] = TRUE
        BY <1>1, Waiting
      <4> QED
        BY <4>1, <4>2
    <3>2. Here(c).fails \in Nat \ {0} /\ at[c] + Here(c).fails <= Len(Script[kind[c]]) + 1
      BY <2>2, <3>1, HereFacts DEF ClientInv
    <3>3. GoOn(c, Here(c).fails) /\ UNCHANGED <<kind, token, cached, issued, holder>>
          /\ lost' = [lost EXCEPT ![c] = @ \/ holder # holder]
      BY <1>4, <2>2 DEF Fails
    <3>4. ClientTypeOK'
      BY <3>1, <3>2, <3>3 DEF GoOn, Wait, ClientInv, ClientTypeOK, MaxAttempts
    <3>5. Beside(c)
      BY <3>3 DEF Beside, GoOn, Wait, ClientInv, ClientTypeOK
    <3>6. token'[c] = TRUE
      BY <3>1, <3>3
    <3> QED
      BY <3>1, <3>2, <3>3, <3>4, <3>5, <3>6, GoOnKeeps
  <2> QED
    BY <2>1, <2>2
<1>5. CASE /\ GoOn(c, 1) /\ cached' = [cached EXCEPT ![c].cash = "current"]
           /\ UNCHANGED <<kind, token, issued, lost, holder>>
  <2>1. cached' = [cached EXCEPT ![c] = [cached[c] EXCEPT !.cash = "current"]]
    BY <1>5
  <2>2. [cached[c] EXCEPT !.cash = "current"] \in [balance : Age, cash : Age]
    BY <1>2
  <2> QED
    BY <1>1, <1>5, <2>1, <2>2, AnsweredKeeps
<1> QED
  BY <1>3, <1>4, <1>5 DEF NotAnswered

LEMMA NextKeeps ==
  ASSUME ClientInv, [Next]_vars
  PROVE  ClientInv'
<1>1. ASSUME NEW c \in Thread, Work(c)
      PROVE  ClientInv'
  <2>1. CASE Return(c)
    BY <2>1, EndKeeps DEF Return
  <2>2. CASE Answered(c)
    <3>1. cached[c] \in [balance : Age, cash : Age] /\ "current" \in Age
      BY DEF ClientInv, ClientTypeOK, Age
    <3>2. [balance |-> BalanceOf(c), cash |-> CashOf(c)] \in [balance : Age, cash : Age]
      BY <3>1 DEF BalanceOf, CashOf
    <3> QED
      BY <2>2, <3>2, AnsweredKeeps DEF Answered
  <2> QED
    BY <1>1, <2>1, <2>2, BuildKeeps, NeedlessKeeps, FromCacheKeeps, AskKeeps,
       GrantedKeeps, GrantLostKeeps, NotGrantedKeeps, NotAnsweredKeeps DEF Work
<1>2. ASSUME NEW c \in Thread, NEW k \in KindsOf(c), Begin(c, k)
      PROVE  ClientInv'
  BY <1>2, BeginKeeps
<1>3. CASE MinuteOver
  BY <1>3, ThreadAssumption
  DEF MinuteOver, client, ClientInv, ClientTypeOK, Alone, Fresh, Here
<1>4. CASE UNCHANGED vars
  BY <1>4 DEF vars, client, ClientInv, ClientTypeOK, Alone, Fresh, Here
<1> QED
  BY <1>1, <1>2, <1>3, <1>4 DEF Next

THEOREM ClientInvariant == Spec => []ClientInv
  BY InitClientInv, NextKeeps, PTL DEF Spec

\* Every variable of the clients keeps its type, and no command runs over the
\* end of its calls, for any number of threads.
THEOREM ClientTypeCorrect == Spec => []ClientTypeOK
<1>1. ClientInv => ClientTypeOK
  BY DEF ClientInv
<1> QED
  BY <1>1, ClientInvariant, PTL

\* HANDOFF.md:59 holds of every command as it is written: whatever fails on
\* the way, issue_token() is called once at most, because the first request of
\* each command is one whose failure ends it.
THEOREM TokenOncePerCommand == Spec => []OneTokenRequest
<1>1. ASSUME ClientInv, NEW c \in Thread
      PROVE  issued[c] <= 1
  <2>1. at[c] = 1 \/ at[c] = 2 \/ at[c] > 2
    BY <1>1 DEF ClientInv, ClientTypeOK
  <2>2. at[c] = 1 => issued[c] = 0
    BY <1>1 DEF ClientInv, Alone, Fresh
  <2>3. at[c] = 2 => issued[c] \in {0, 1}
    BY <1>1 DEF ClientInv, ClientTypeOK, Alone, Fresh
  <2>4. at[c] > 2 => issued[c] = 1
    BY <1>1 DEF ClientInv, Alone
  <2> QED
    BY <2>1, <2>2, <2>3, <2>4
<1>2. ClientInv => OneTokenRequest
  BY <1>1 DEF OneTokenRequest
<1> QED
  BY <1>2, ClientInvariant, PTL

\* A command never meets the limit of one token a minute because of a grant
\* it knows of.
THEOREM LimitComesFromOthers == Spec => []NotLimitedByItself
<1>1. ClientInv => NotLimitedByItself
  BY Waiting DEF NotLimitedByItself
<1> QED
  BY <1>1, ClientInvariant, PTL

------------------------------------------------------------------------------
(* The caches.  They are empty from the moment a quote is asked until the   *)
(* order that follows it is out, and an order is come to in no other way.   *)

AtOrder(c) == AtCall(c) /\ Here(c).get = "order"

Clear(c) ==
  /\ \A x \in {"balance", "cash"} : cached[c][x] # "older"
  /\ AtOrder(c) => cached[c] = Uncached
  /\ waits[c] = "call" /\ Here(c).get = "quote" => cached[c] = Uncached

CachesInv == ClientInv /\ \A c \in Thread : Clear(c)

\* The one way to an order.
LEMMA OrderFollowsQuote ==
  ASSUME ClientTypeOK, NEW c \in Thread, AtCall(c), NEW n \in Nat \ {0},
         at[c] + n <= Len(Script[kind[c]]),
         Script[kind[c]][at[c] + n].get = "order",
         n \in {1, Here(c).fails, Here(c).spare} \/ (n = 2 /\ Here(c).get = "cash_price")
  PROVE  n = 1 /\ Here(c).get = "quote" /\ Here(c).fails = 0 /\ Here(c).spare # 1
<1> DEFINE s == Script[kind[c]]
<1>1. Whole(s) /\ at[c] \in Nat \ {0}
  BY ScriptWhole DEF ClientTypeOK, AtCall
<1>2. PICK i \in Nat \ {0} : i = at[c]
  BY <1>1
<1>3. Here(c) = s[i] /\ i + n <= Len(s) /\ s[i + n].get = "order"
  BY <1>2 DEF Here
<1> HIDE DEF s
<1>4. Len(s) \in Nat /\ Led(s)
  BY <1>1 DEF Whole, Inside
<1>5. PICK j \in 1..Len(s) : j = i + n
  BY <1>3, <1>4
<1>6. /\ s[j - 1].get = "quote" /\ s[j - 1].fails = 0 /\ s[j - 1].spare # 1
      /\ \A h \in 1..(j - 2) : /\ h + s[h].fails # j /\ h + s[h].spare # j
                               /\ s[h].get = "cash_price" => h + 2 # j
  BY <1>3, <1>4, <1>5 DEF Led
<1>7. CASE n = 1
  <2>1. j - 1 = i
    BY <1>5, <1>7
  <2> QED
    BY <1>3, <1>6, <1>7, <2>1
<1>8. CASE n # 1
  <2>1. i \in 1..(j - 2)
    BY <1>5, <1>8
  <2>2. n # s[i].fails /\ n # s[i].spare /\ ~(n = 2 /\ s[i].get = "cash_price")
    BY <1>5, <1>6, <2>1
  <2> QED
    BY <1>3, <1>8, <2>2
<1> QED
  BY <1>7, <1>8

\* A step on to a later call.
LEMMA GoOnClear ==
  ASSUME CachesInv, NEW c \in Thread, AtCall(c), NEW n \in Nat \ {0}, GoOn(c, n),
         n \in {1, Here(c).fails, Here(c).spare} \/ (n = 2 /\ Here(c).get = "cash_price"),
         kind' = kind, \A x \in {"balance", "cash"} : cached'[c][x] # "older",
         \/ cached'[c] = Uncached
         \/ waits[c] = "call" /\ (Here(c).get = "quote" => cached'[c] = cached[c])
         \/ n # 1 \/ Here(c).get # "quote"
  PROVE  Clear(c)'
<1>1. at'[c] = at[c] + n /\ waits'[c] = "nothing" /\ ClientTypeOK
  BY DEF GoOn, Wait, CachesInv, ClientInv, ClientTypeOK
<1>2. ASSUME AtOrder(c)' PROVE cached'[c] = Uncached
  <2>1. at[c] + n <= Len(Script[kind[c]]) /\ Script[kind[c]][at[c] + n].get = "order"
    BY <1>1, <1>2 DEF AtOrder, AtCall, Here
  <2>2. n = 1 /\ Here(c).get = "quote"
    BY <1>1, <2>1, OrderFollowsQuote
  <2> QED
    BY <2>2 DEF CachesInv, Clear
<1> QED
  BY <1>1, <1>2 DEF Clear

LEMMA AskClear ==
  ASSUME CachesInv, NEW c \in Thread, Ask(c)
  PROVE  Clear(c)'
<1>1. /\ cached'[c] = Caches(c, Here(c).get) /\ at'[c] = at[c] /\ kind' = kind
      /\ AtCall(c) /\ cached[c] \in [balance : Age, cash : Age]
  BY DEF Ask, Ready, CachesInv, ClientInv, ClientTypeOK
<1>2. [x \in DOMAIN Uncached |-> AfterOrder(Uncached[x])] = Uncached
  BY DEF Uncached, AfterOrder
<1>3. Here(c).get = "order" => cached'[c] = Uncached
  BY <1>1, <1>2 DEF Caches, CachesInv, Clear, AtOrder
<1>4. Here(c).get = "quote" => cached'[c] = Uncached
  BY <1>1 DEF Caches
<1>5. Here(c).get \notin {"order", "quote"} => cached'[c] = cached[c]
  BY <1>1 DEF Caches
<1>6. \A x \in {"balance", "cash"} : cached'[c][x] # "older"
  BY <1>3, <1>4, <1>5 DEF CachesInv, Clear, Uncached
<1>7. Here(c)' = Here(c)
  BY <1>1 DEF Here
<1> QED
  BY <1>3, <1>4, <1>6, <1>7 DEF Clear, AtOrder

\* What the answer of a request, or the 0 of a failed one, puts into the cache.
LEMMA AnsweredClear ==
  ASSUME CachesInv, NEW c \in Thread, waits[c] = "call", GoOn(c, 1), kind' = kind,
         NEW b \in [balance : Age, cash : Age], cached' = [cached EXCEPT ![c] = b],
         b.balance \in {cached[c].balance, "current"},
         b.cash \in {cached[c].cash, "current"},
         Here(c).get = "quote" => b = cached[c]
  PROVE  Clear(c)'
<1>1. AtCall(c) /\ cached'[c] = b
  BY Waiting DEF CachesInv, ClientInv, ClientTypeOK
<1>2. \A x \in {"balance", "cash"} : b[x] # "older"
  BY DEF CachesInv, Clear
<1> QED
  BY <1>1, <1>2, GoOnClear

LEMMA FailsClear ==
  ASSUME CachesInv, NEW c \in Thread, waits[c] # "nothing", NEW h, Fails(c, h)
  PROVE  Clear(c)'
<1>1. cached[c] \in [balance : Age, cash : Age] /\ AtCall(c)
  BY Waiting DEF CachesInv, ClientInv, ClientTypeOK
<1>2. CASE Here(c).fails = 0
  BY <1>2 DEF Fails, End, Clear, AtOrder, AtCall, Uncached, CachesInv, ClientInv, ClientTypeOK
<1>3. CASE Here(c).fails # 0
  <2>1. Here(c).fails \in Nat \ {0}
    BY <1>1, <1>3, HereFacts DEF CachesInv, ClientInv, AtCall
  <2>2. GoOn(c, Here(c).fails) /\ kind' = kind /\ cached' = cached
    BY <1>3 DEF Fails
  <2>3. waits[c] = "call"
    BY <1>3, Waiting DEF CachesInv, ClientInv, ClientTypeOK
  <2>4. cached'[c] = cached[c] /\ \A x \in {"balance", "cash"} : cached'[c][x] # "older"
    BY <2>2 DEF CachesInv, Clear
  <2> QED
    BY <1>1, <2>1, <2>2, <2>3, <2>4, GoOnClear
<1> QED
  BY <1>2, <1>3

LEMMA WorkClear ==
  ASSUME CachesInv, NEW c \in Thread, Work(c)
  PROVE  Clear(c)'
<1>1. /\ ClientTypeOK /\ Clear(c) /\ cached[c] \in [balance : Age, cash : Age]
      /\ "current" \in Age /\ \A x \in {"balance", "cash"} : cached[c][x] # "older"
  BY DEF CachesInv, ClientInv, ClientTypeOK, Age, Clear
<1>2. CASE Return(c)
  BY <1>1, <1>2 DEF Return, End, Clear, AtOrder, AtCall, Uncached, ClientTypeOK
<1>3. CASE Build(c)
  <2>1. AtCall(c) /\ GoOn(c, 1) /\ kind' = kind /\ cached'[c] = Uncached
    BY <1>1, <1>3 DEF Build, Ready, ClientTypeOK
  <2> QED
    BY <2>1, GoOnClear DEF Uncached
<1>4. CASE Needless(c)
  <2>1. AtCall(c) /\ GoOn(c, Here(c).spare) /\ kind' = kind /\ cached' = cached
        /\ Here(c).spare \in Nat \ {0}
    BY <1>1, <1>4, HereFacts DEF Needless, Ready, AtCall
  <2>2. CASE Here(c).spare = 1 /\ Here(c).get = "quote"
    <3>1. at'[c] = at[c] + 1 /\ waits'[c] = "nothing"
      BY <1>1, <2>1, <2>2 DEF GoOn, Wait, ClientTypeOK
    <3>2. ~AtOrder(c)'
      BY <1>1, <2>1, <2>2, <3>1, OrderFollowsQuote DEF AtOrder, AtCall, Here
    <3> QED
      BY <1>1, <2>1, <3>1, <3>2 DEF Clear
  <2>3. CASE ~(Here(c).spare = 1 /\ Here(c).get = "quote")
    BY <1>1, <2>1, <2>3, GoOnClear
  <2> QED
    BY <2>2, <2>3
<1>5. CASE FromCache(c)
  <2>1. PICK n \in {1, 2} : /\ GoOn(c, n) /\ (n = 2 => Here(c).get = "cash_price")
                           /\ Here(c).get # "quote"
    BY <1>5 DEF FromCache
  <2>2. AtCall(c) /\ kind' = kind /\ cached' = cached /\ n \in Nat \ {0}
    BY <1>5 DEF FromCache, Ready
  <2> QED
    BY <1>1, <2>1, <2>2, GoOnClear
<1>6. CASE Granted(c)
  <2>1. /\ cached[c] = Uncached /\ cached' = cached /\ waits'[c] = "nothing"
    BY <1>1, <1>6, Waiting
    DEF Granted, GoOn, Wait, CachesInv, ClientInv, ClientTypeOK, Alone
  <2> QED
    BY <2>1 DEF Clear, Uncached
<1>7. CASE Answered(c)
  <2> DEFINE b == [balance |-> BalanceOf(c), cash |-> CashOf(c)]
  <2>1. b \in [balance : Age, cash : Age] /\ (Here(c).get = "quote" => b = cached[c])
    BY <1>1 DEF BalanceOf, CashOf
  <2>2. b.balance \in {cached[c].balance, "current"} /\ b.cash \in {cached[c].cash, "current"}
    BY DEF BalanceOf, CashOf
  <2>3. /\ waits[c] = "call" /\ GoOn(c, 1) /\ kind' = kind
        /\ cached' = [cached EXCEPT ![c] = b]
    BY <1>7 DEF Answered
  <2> HIDE DEF b
  <2> QED
    BY <2>1, <2>2, <2>3, AnsweredClear
<1>8. ASSUME waits[c] # "nothing", UNCHANGED <<kind, at, waits, cached>>
      PROVE  Clear(c)'
  BY <1>1, <1>8 DEF Clear, AtOrder, AtCall, Here
<1>9. CASE GrantLost(c)
  BY <1>8, <1>9, FailsClear DEF GrantLost
<1>10. CASE NotGranted(c)
  BY <1>8, <1>10, FailsClear DEF NotGranted
<1>11. CASE NotAnswered(c)
  <2>1. CASE Here(c).get = "cash" /\ GoOn(c, 1) /\ kind' = kind
             /\ cached' = [cached EXCEPT ![c].cash = "current"]
    <3> DEFINE b == [cached[c] EXCEPT !.cash = "current"]
    <3>1. b \in [balance : Age, cash : Age] /\ b.balance = cached[c].balance
          /\ b.cash = "current"
      BY <1>1
    <3>2. cached' = [cached EXCEPT ![c] = b] /\ waits[c] = "call"
      BY <1>11, <2>1 DEF NotAnswered
    <3> HIDE DEF b
    <3> QED
      BY <2>1, <3>1, <3>2, AnsweredClear
  <2> QED
    BY <1>8, <1>11, <2>1, FailsClear DEF NotAnswered
<1> QED
  BY <1>2, <1>3, <1>4, <1>5, <1>6, <1>7, <1>9, <1>10, <1>11, AskClear
  DEF Work

LEMMA CachesStep ==
  ASSUME CachesInv, [Next]_vars
  PROVE  CachesInv'
<1>1. ClientInv' /\ ClientTypeOK
  BY NextKeeps DEF CachesInv, ClientInv
<1>2. ASSUME NEW q \in Thread,
             kind'[q] = kind[q], at'[q] = at[q], waits'[q] = waits[q], cached'[q] = cached[q]
      PROVE  Clear(q)'
  BY <1>2 DEF CachesInv, Clear, AtOrder, AtCall, Here
<1>3. ASSUME NEW c \in Thread, Work(c), NEW q \in Thread \ {c}
      PROVE  /\ kind'[q] = kind[q] /\ at'[q] = at[q] /\ waits'[q] = waits[q]
             /\ cached'[q] = cached[q]
  BY <1>1, <1>3
  DEF Work, Return, End, Build, Needless, FromCache, Ask, Granted, GrantLost, NotGranted,
      Answered, NotAnswered, Fails, GoOn, Wait, ClientTypeOK
<1>4. ASSUME NEW c \in Thread, Work(c)
      PROVE  CachesInv'
  BY <1>1, <1>2, <1>3, <1>4, WorkClear DEF CachesInv
<1>5. ASSUME NEW c \in Thread, NEW k \in KindsOf(c), Begin(c, k)
      PROVE  CachesInv'
  <2>1. k \in Kinds /\ kind'[c] = k /\ at'[c] = 1 /\ cached'[c] = Uncached
    BY <1>5 DEF KindsOf, Kinds, Script, Begin, client, CachesInv, ClientInv, ClientTypeOK, Alone
  <2>2. Clear(c)'
    BY <2>1, <1>5 DEF Clear, Uncached, Begin, client, CachesInv, ClientInv, ClientTypeOK, Alone
  <2>3. \A q \in Thread \ {c} : Clear(q)'
    BY <1>1, <1>2, <1>5 DEF Begin, client, ClientTypeOK
  <2> QED
    BY <1>1, <2>2, <2>3 DEF CachesInv
<1>6. CASE MinuteOver
  BY <1>1, <1>2, <1>6 DEF MinuteOver, client, CachesInv
<1>7. CASE UNCHANGED vars
  BY <1>1, <1>2, <1>7 DEF vars, client, CachesInv
<1> QED
  BY <1>4, <1>5, <1>6, <1>7 DEF Next

\* What a run compares after its orders was asked after them: place_order()
\* empties the caches before the quote, nothing fills them between the quote
\* and the order, and every order of every command comes from its quote.
THEOREM NothingOlderThanAnOrder == Spec => []CachesAreCurrent
<1>1. Init => CachesInv
  <2>1. Init => ClientInv
    BY InitClientInv
  <2>2. ASSUME Init, NEW c \in Thread
        PROVE  Clear(c)
    <3>1. kind[c] = "idle" /\ waits[c] = "nothing" /\ cached[c] = Uncached
      BY <2>2 DEF Init
    <3> QED
      BY <3>1 DEF Clear, AtOrder, AtCall, Uncached
  <2> QED
    BY <2>1, <2>2 DEF CachesInv
<1>2. CachesInv => CachesAreCurrent
  BY DEF CachesInv, Clear, CachesAreCurrent
<1> QED
  BY <1>1, <1>2, CachesStep, PTL DEF Spec
==============================================================================
