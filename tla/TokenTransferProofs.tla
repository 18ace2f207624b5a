------------------------ MODULE TokenTransferProofs ------------------------
(***************************************************************************)
(* Proofs about TokenTransfer, for every set of listings and of amounts,   *)
(* every size of a page and every largest amount. The inductive invariant  *)
(* says what the loop has read: the cells chosen are the token cells of    *)
(* the part of the page before idx, and the running total is their sum.    *)
(***************************************************************************)
EXTENDS TokenTransfer, DataProofs

Cell == [type : {Token, Other}, data : Datum]

------------------------------------------------------------------------------
(***************************************************************************)
(* What is read and what it adds up to.                                    *)
(***************************************************************************)
\* One more token cell in a listing adds its data, any other cell nothing.
LEMMA TokenDataAppend ==
    ASSUME NEW s \in Seq(Cell), NEW c \in Cell
    PROVE  /\ TokenData(s) \in Seq(Datum)
           /\ TokenData(Append(s, c))
                = IF c.type = Token THEN Append(TokenData(s), c.data)
                  ELSE TokenData(s)
<1> DEFINE r == Remaining(s, OtherCells)
           u == Remaining(Append(s, c), OtherCells)
<1>1. r \in Seq(Cell) /\ u = IF c \in OtherCells THEN r ELSE Append(r, c)
    <2>1. s \in Seq(Cell) /\ c \in Cell
        OBVIOUS
    <2>2. r \in Seq(Cell)
        BY <2>1, RemainingAppend
    <2>3. u = IF c \in OtherCells THEN r ELSE Append(r, c)
        BY <2>1, RemainingAppend
    <2> QED
        BY <2>2, <2>3
<1>2. c \in OtherCells <=> c.type # Token
    BY TransferAssumption DEF Cell, OtherCells
<1>3. /\ TokenData(s) = [i \in DOMAIN r |-> r[i].data]
      /\ TokenData(Append(s, c)) = [i \in DOMAIN u |-> u[i].data]
    BY DEF TokenData
<1>4. /\ DOMAIN r = 1..Len(r) /\ Len(r) \in Nat
      /\ \A i \in 1..Len(r) : r[i] \in Cell /\ r[i].data \in Datum
      /\ c.data \in Datum
    <2> HIDE DEF r, u
    <2>1. \A x \in Cell : x.data \in Datum
        BY DEF Cell
    <2> QED
        BY <1>1, <2>1
<1> HIDE DEF r, u
<1>5. TokenData(s) \in Seq(Datum) /\ Len(TokenData(s)) = Len(r)
    BY <1>3, <1>4
<1>6. CASE c.type # Token
    BY <1>1, <1>2, <1>3, <1>5, <1>6
<1>7. CASE c.type = Token
    <2> DEFINE n == Len(r)
               v == TokenData(Append(s, c))
               w == Append(TokenData(s), c.data)
    <2>1. u = Append(r, c)
        BY <1>1, <1>2, <1>7
    <2>2. DOMAIN u = 1..(n + 1) /\ u[n + 1] = c
          /\ \A i \in 1..n : u[i] = r[i]
        BY <1>1, <2>1
    <2>3. /\ w \in Seq(Datum) /\ Len(w) = n + 1 /\ w[n + 1] = c.data
          /\ \A i \in 1..n : w[i] = TokenData(s)[i]
        BY <1>4, <1>5
    <2>4. \A i \in 1..n : TokenData(s)[i] = r[i].data
        BY <1>3, <1>4
    <2>5. \A i \in 1..(n + 1) : i \in 1..n \/ i = n + 1
        BY <1>4
    <2>6. v = [i \in 1..(n + 1) |-> u[i].data]
        BY <1>3, <2>2
    <2>7. w = [i \in 1..(n + 1) |-> w[i]]
        BY <2>3
    <2>8. \A i \in 1..(n + 1) : w[i] = u[i].data
        BY <2>2, <2>3, <2>4, <2>5
    <2> HIDE DEF v, w, n
    <2>9. v = w
        BY <2>6, <2>7, <2>8
    <2> QED
        BY <1>5, <1>7, <2>9 DEF v, w
<1> QED
    BY <1>6, <1>7

LEMMA TokenDataEmpty == TokenData(<<>>) = <<>>
<1>1. <<>> \in Seq(Cell) /\ Len(<<>>) = 0
    OBVIOUS
<1>2. PICK k : IsKept(<<>>, OtherCells, k)
               /\ Remaining(<<>>, OtherCells) = k[Len(<<>>)]
    BY <1>1, Kept
<1>3. k[0] = <<>>
    <2>1. k = [i \in 0..Len(<<>>) |->
                 IF i = 0 THEN <<>>
                 ELSE IF <<>>[i] \in OtherCells THEN k[i - 1]
                 ELSE Append(k[i - 1], <<>>[i])]
        BY <1>2 DEF IsKept
    <2>2. 0 \in 0..Len(<<>>)
        BY <1>1
    <2> QED
        BY <2>1, <2>2
<1>4. Remaining(<<>>, OtherCells) = <<>>
    BY <1>1, <1>2, <1>3
<1> QED
    BY <1>4 DEF TokenData

\* One more cell adds its amount.
LEMMA SumAppend ==
    ASSUME NEW s \in Seq(Datum), NEW d \in Datum
    PROVE  /\ SumOf(s) \in Nat
           /\ SumOf(Append(s, d)) = SumOf(s) + Amount(d)
           /\ AllDecodable(Append(s, d)) <=> AllDecodable(s) /\ Decodable(d)
<1> DEFINE n == Len(s)
           t == Append(s, d)
<1>1. /\ n \in Nat /\ DOMAIN s = 1..n /\ DOMAIN t = 1..(n + 1)
      /\ t[n + 1] = d /\ \A i \in 1..n : t[i] = s[i]
      /\ \A i \in 1..(n + 1) : i \in 1..n \/ i = n + 1
    OBVIOUS
<1> HIDE DEF n, t
<1>2. Amount(t[n + 1]) \in 0..MaxAmount
    BY <1>1, AmountType
<1>3. Total(1..(n + 1), t) = Total(1..n, t) + Amount(d)
    BY <1>1, <1>2, TotalNext
<1>4. Total(1..n, t) = Total(1..n, s)
    BY <1>1, TotalSame
<1>5. Total(1..n, s) \in Nat
    BY <1>1, FS_Interval, TotalType
<1>6. AllDecodable(t) <=> AllDecodable(s) /\ Decodable(d)
    <2>1. n + 1 \in 1..(n + 1) /\ \A i \in 1..n : i \in 1..(n + 1)
        BY <1>1
    <2> QED
        BY <1>1, <2>1 DEF AllDecodable
<1> QED
    BY <1>1, <1>3, <1>4, <1>5, <1>6 DEF SumOf, t

LEMMA SumEmpty == SumOf(<<>>) = 0 /\ AllDecodable(<<>>)
<1>1. DOMAIN <<>> = {}
    OBVIOUS
<1> QED
    BY <1>1, TotalEmpty DEF SumOf, AllDecodable

\* The data of the token cells among the first i of a listing.
Upto(l, i) == TokenData(SubSeq(l, 1, i))

\* Reading one more cell of a listing.
LEMMA ReadNext ==
    ASSUME NEW l \in Seq(Cell), NEW i \in 0..(Len(l) - 1)
    PROVE  /\ l[i + 1] \in Cell /\ l[i + 1].data \in Datum
           /\ Upto(l, i) \in Seq(Datum)
           /\ Upto(l, i + 1)
                = IF l[i + 1].type = Token
                  THEN Append(Upto(l, i), l[i + 1].data) ELSE Upto(l, i)
<1>1. l[i + 1] \in Cell /\ SubSeq(l, 1, i) \in Seq(Cell)
    OBVIOUS
<1>2. SubSeq(l, 1, i + 1) = Append(SubSeq(l, 1, i), l[i + 1])
    <2>1. 1 \in 1..Len(l) /\ i \in (1 - 1)..(Len(l) - 1)
        OBVIOUS
    <2> QED
        BY <2>1, SubSeqNext
<1>3. l[i + 1].data \in Datum
    BY <1>1 DEF Cell
<1> QED
    BY <1>1, <1>2, <1>3, TokenDataAppend DEF Upto

\* The more cells are read, the more they hold, and data that does not decode
\* stays among them.
LEMMA ReadMore ==
    ASSUME NEW l \in Seq(Cell), NEW j \in 0..Len(l), NEW i \in 0..j
    PROVE  /\ SumOf(Upto(l, i)) \in Nat /\ SumOf(Upto(l, j)) \in Nat
           /\ SumOf(Upto(l, i)) <= SumOf(Upto(l, j))
           /\ AllDecodable(Upto(l, j)) => AllDecodable(Upto(l, i))
<1> DEFINE sum(m) == SumOf(Upto(l, i + m))
           ok(m) == AllDecodable(Upto(l, i + m))
           T == {m \in 0..(j - i) : /\ sum(m) \in Nat /\ sum(0) <= sum(m)
                                    /\ ok(m) => ok(0)}
<1>1. j - i \in Nat /\ 0 \in 0..(j - i) /\ i + 0 = i /\ i + (j - i) = j
    OBVIOUS
<1>2. ASSUME NEW m \in 0..(j - i)
      PROVE  sum(m) \in Nat
    <2>1. SubSeq(l, 1, i + m) \in Seq(Cell)
        OBVIOUS
    <2>2. Upto(l, i + m) \in Seq(Datum)
        <3>1. CASE Len(l) = 0
            <4>1. SubSeq(l, 1, i + m) = <<>>
                BY <3>1
            <4>2. <<>> \in Seq(Datum)
                OBVIOUS
            <4> QED
                BY <4>1, <4>2, TokenDataEmpty DEF Upto
        <3>2. CASE Len(l) # 0
            <4>1. l[1] \in Cell
                BY <3>2
            <4> QED
                BY <2>1, <4>1, TokenDataAppend DEF Upto
        <3> QED
            BY <3>1, <3>2
    <2> DEFINE s == Upto(l, i + m)
    <2> HIDE DEF s
    <2>3. DOMAIN s = 1..Len(s) /\ Len(s) \in Nat
        BY <2>2 DEF s
    <2>4. IsFiniteSet(DOMAIN s)
        BY <2>3, FS_Interval
    <2>5. SumOf(s) \in Nat
        BY <2>4, TotalType DEF SumOf
    <2> QED
        BY <2>5 DEF s
<1>3. 0 \in T
    BY <1>1, <1>2
<1>4. ASSUME NEW m \in 0..((j - i) - 1), m \in T
      PROVE  m + 1 \in T
    <2>1. /\ i + m \in 0..(Len(l) - 1) /\ (i + m) + 1 = i + (m + 1)
          /\ m + 1 \in 0..(j - i)
        OBVIOUS
    <2> DEFINE s == Upto(l, i + m)
               c == l[(i + m) + 1]
               t == Upto(l, i + (m + 1))
    <2>2. /\ c.data \in Datum /\ s \in Seq(Datum)
          /\ t = IF c.type = Token THEN Append(s, c.data) ELSE s
        BY <2>1, ReadNext
    <2> HIDE DEF s, c, t
    <2>3. SumOf(s) \in Nat /\ Amount(c.data) \in Nat
        BY <2>2, SumAppend, AmountType, MaxAmountAssumption
    <2>4. SumOf(t) \in Nat /\ SumOf(s) <= SumOf(t)
          /\ (AllDecodable(t) => AllDecodable(s))
        BY <2>2, <2>3, SumAppend
    <2>5. sum(0) \in Nat
        BY <1>1, <1>2
    <2>6. sum(0) <= SumOf(s) /\ (AllDecodable(s) => ok(0))
        BY <1>4 DEF s
    <2> HIDE DEF T
    <2>7. sum(0) <= SumOf(t) /\ (AllDecodable(t) => ok(0))
        BY <2>3, <2>4, <2>5, <2>6
    <2> QED
        BY <2>1, <2>4, <2>7 DEF t, T
<1>5. \A m \in 0..(j - i) : m \in T
    <2> HIDE DEF T
    <2> QED
        BY <1>1, <1>3, <1>4, SetInduction
<1>6. j - i \in T
    BY <1>1, <1>5
<1> QED
    BY <1>1, <1>2, <1>6

------------------------------------------------------------------------------
(***************************************************************************)
(* The inductive invariant.                                                *)
(***************************************************************************)
\* What the parameters are, and the loop's place in the page.
Given ==
    /\ listing \in Seq(Cell) /\ amount \in 0..MaxAmount
    /\ pc \in {"choose", "build", "send"} \cup Ends
    /\ idx \in 1..(Len(Page) + 1)

\* What the loop has read is chosen, and counted without an overflow.
ReadSoFar ==
    /\ inputs = Upto(listing, idx - 1)
    /\ AllDecodable(inputs)
    /\ total = SumOf(inputs) /\ total \in 0..MaxAmount

\* The last cell was needed, unless there is nothing to send.
LastNeeded == inputs # <<>> /\ amount > 0 => SumOf(Front(inputs)) < amount

\* What is known at each place of the function.
Progress ==
    /\ pc = "choose" => inputs = <<>> \/ total < amount
    /\ pc \in {"build", "send", "transferred", "refused"} =>
          total >= amount /\ LastNeeded
    /\ outputs = IF pc \in {"send", "transferred", "refused"}
                 THEN <<Balance(amount)>> \o ChangeCells(total - amount)
                 ELSE <<>>

Inv == Given /\ ReadSoFar /\ Progress /\ FailuresAreReal

\* A page is what the listing begins with.
LEMMA PageIs ==
    ASSUME listing \in Seq(Cell)
    PROVE  /\ Page = SubSeq(listing, 1, Len(Page)) /\ Page \in Seq(Cell)
           /\ Len(Page) \in 0..Len(listing) /\ Len(Page) <= PageLimit
           /\ \A i \in 1..Len(Page) : Page[i] = listing[i]
           /\ TokenData(Page) = Upto(listing, Len(Page))
<1> DEFINE n == Min({PageLimit, Len(listing)})
<1>1. n \in 0..Len(listing) /\ n <= PageLimit
    <2>1. PageLimit \in Nat /\ Len(listing) \in Nat
        BY TransferAssumption
    <2>2. \E x \in {PageLimit, Len(listing)} :
             \A y \in {PageLimit, Len(listing)} : x =< y
        BY <2>1
    <2>3. /\ n \in {PageLimit, Len(listing)}
          /\ \A y \in {PageLimit, Len(listing)} : n =< y
        BY <2>2 DEF Min
    <2> HIDE DEF n
    <2> QED
        BY <2>1, <2>3
<1> HIDE DEF n
<1>2. Page = SubSeq(listing, 1, n)
    BY DEF Page, n
<1>3. /\ Len(SubSeq(listing, 1, n)) = n /\ SubSeq(listing, 1, n) \in Seq(Cell)
      /\ \A i \in 1..n : SubSeq(listing, 1, n)[i] = listing[i]
    BY <1>1
<1> QED
    BY <1>1, <1>2, <1>3 DEF Upto

LEMMA UptoNothing ==
    ASSUME NEW l \in Seq(Cell)
    PROVE  Upto(l, 0) = <<>>
<1>1. SubSeq(l, 1, 0) = <<>>
    OBVIOUS
<1> QED
    BY <1>1, TokenDataEmpty DEF Upto

LEMMA BalanceIs ==
    ASSUME NEW v \in 0..MaxAmount
    PROVE  /\ Balance(v) \in Datum /\ Decodable(Balance(v))
           /\ Amount(Balance(v)) = v
BY MaxAmountAssumption DEF Balance, Datum, Decodable, Amount, AmountSize

\* Recipient and change together are what is given, whatever is sent of it.
LEMMA OutputsAddUp ==
    ASSUME NEW t \in 0..MaxAmount, amount \in 0..t,
           NEW out, out = <<Balance(amount)>> \o ChangeCells(t - amount)
    PROVE  out \in Seq(Datum) /\ SumOf(out) = t /\ AllDecodable(out)
<1> DEFINE b == Balance(amount)
           c == Balance(t - amount)
<1>1. /\ amount \in 0..MaxAmount /\ t - amount \in 0..MaxAmount
      /\ amount + (t - amount) = t /\ t \in Nat /\ amount \in Nat
      /\ (t - amount > 0 \/ t = amount)
    BY MaxAmountAssumption
<1>2. b \in Datum /\ Decodable(b) /\ Amount(b) = amount
    BY <1>1, BalanceIs
<1>3. c \in Datum /\ Decodable(c) /\ Amount(c) = t - amount
    BY <1>1, BalanceIs
<1>4. ChangeCells(t - amount) = IF t - amount > 0 THEN <<c>> ELSE <<>>
    BY DEF ChangeCells
<1> HIDE DEF b, c
<1>5. /\ <<b>> \in Seq(Datum) /\ <<>> \in Seq(Datum)
      /\ <<b, c>> \in Seq(Datum)
      /\ Append(<<>>, b) = <<b>> /\ Append(<<b>>, c) = <<b, c>>
      /\ <<b>> \o <<c>> = <<b, c>> /\ <<b>> \o <<>> = <<b>>
    <2>1. <<b>> \in Seq(Datum) /\ <<>> \in Seq(Datum)
        BY <1>2
    <2>2. <<b, c>> \in Seq(Datum)
        BY <1>2, <1>3
    <2>3. Append(<<>>, b) = <<b>>
        <3>1. /\ Append(<<>>, b) \in Seq(Datum) /\ Len(Append(<<>>, b)) = 1
              /\ Append(<<>>, b)[1] = b /\ Len(<<b>>) = 1 /\ <<b>>[1] = b
            BY <1>2, <2>1
        <3> QED
            BY <2>1, <3>1, SeqEqual
    <2>4. Append(<<b>>, c) = <<b, c>>
        <3>1. /\ Append(<<b>>, c) \in Seq(Datum)
              /\ Len(Append(<<b>>, c)) = 2 /\ Append(<<b>>, c)[1] = b
              /\ Append(<<b>>, c)[2] = c
            BY <1>2, <1>3, <2>1
        <3>2. Len(<<b, c>>) = 2 /\ <<b, c>>[1] = b /\ <<b, c>>[2] = c
            OBVIOUS
        <3>3. \A i \in 1..2 : i = 1 \/ i = 2
            OBVIOUS
        <3> QED
            BY <2>2, <3>1, <3>2, <3>3, SeqEqual
    <2>5. <<b>> \o <<c>> = <<b, c>>
        <3>1. <<c>> \in Seq(Datum) /\ Len(<<b>>) = 1 /\ Len(<<c>>) = 1
              /\ <<b>>[1] = b /\ <<c>>[1] = c
            BY <1>3
        <3>2. /\ <<b>> \o <<c>> \in Seq(Datum) /\ Len(<<b>> \o <<c>>) = 2
              /\ (<<b>> \o <<c>>)[1] = b /\ (<<b>> \o <<c>>)[2] = c
            BY <2>1, <3>1
        <3>3. Len(<<b, c>>) = 2 /\ <<b, c>>[1] = b /\ <<b, c>>[2] = c
            OBVIOUS
        <3>4. \A i \in 1..2 : i = 1 \/ i = 2
            OBVIOUS
        <3> QED
            BY <2>2, <3>2, <3>3, <3>4, SeqEqual
    <2>6. <<b>> \o <<>> = <<b>>
        OBVIOUS
    <2> QED
        BY <2>1, <2>2, <2>3, <2>4, <2>5, <2>6
<1>6. SumOf(Append(<<>>, b)) = SumOf(<<>>) + Amount(b)
      /\ (AllDecodable(Append(<<>>, b)) <=> AllDecodable(<<>>) /\ Decodable(b))
    BY <1>2, <1>5, SumAppend
<1>7. SumOf(<<b>>) = amount /\ AllDecodable(<<b>>)
    BY <1>1, <1>2, <1>5, <1>6, SumEmpty
<1>8. SumOf(Append(<<b>>, c)) = SumOf(<<b>>) + Amount(c)
      /\ (AllDecodable(Append(<<b>>, c)) <=> AllDecodable(<<b>>) /\ Decodable(c))
    BY <1>3, <1>5, SumAppend
<1>9. SumOf(<<b, c>>) = t /\ AllDecodable(<<b, c>>)
    BY <1>1, <1>3, <1>5, <1>7, <1>8
<1>10. out = IF t - amount > 0 THEN <<b, c>> ELSE <<b>>
    BY <1>4, <1>5 DEF b
<1> QED
    BY <1>1, <1>5, <1>7, <1>9, <1>10

LEMMA FrontOfAppend ==
    ASSUME NEW S, NEW s \in Seq(S), NEW d \in S
    PROVE  Front(Append(s, d)) = s
<1> DEFINE t == Append(s, d)
           f == SubSeq(t, 1, Len(t) - 1)
<1>1. t \in Seq(S) /\ Len(t) = Len(s) + 1 /\ \A i \in 1..Len(s) : t[i] = s[i]
    OBVIOUS
<1> HIDE DEF t
<1>2. f \in Seq(S) /\ Len(f) = Len(s) /\ \A i \in 1..Len(s) : f[i] = t[i]
    BY <1>1
<1>3. Front(t) = f
    BY DEF Front
<1> HIDE DEF f
<1> QED
    BY <1>1, <1>2, <1>3, SeqEqual DEF t

LEMMA InitInv == Init => Inv
<1> SUFFICES ASSUME Init
             PROVE  Inv
    OBVIOUS
<1>1. listing \in Seq(Cell) /\ amount \in 0..MaxAmount
    BY TransferAssumption DEF Init, Cell
<1>2. Given
    <2>1. Len(Page) \in Nat
        BY <1>1, PageIs
    <2> QED
        BY <1>1, <2>1 DEF Init, Given
<1>3. ReadSoFar
    <2>1. inputs = <<>> /\ idx - 1 = 0 /\ total = 0
        BY DEF Init
    <2> QED
        BY <1>1, <2>1, UptoNothing, SumEmpty, MaxAmountAssumption DEF ReadSoFar
<1> QED
    BY <1>2, <1>3 DEF Init, Inv, Progress, FailuresAreReal

\* The loop passes a cell of another type.
LEMMA SkipOtherInv == Inv /\ SkipOther => Inv'
<1> SUFFICES ASSUME Inv, SkipOther
             PROVE  Inv'
    OBVIOUS
<1>1. /\ listing \in Seq(Cell) /\ idx \in 1..Len(Page)
      /\ Len(Page) \in 0..Len(listing) /\ Page[idx] = listing[idx]
    BY PageIs DEF Inv, Given, SkipOther
<1>2. idx - 1 \in 0..(Len(listing) - 1) /\ (idx - 1) + 1 = idx
      /\ idx' - 1 = idx /\ idx' \in 1..(Len(Page) + 1)
    BY <1>1 DEF SkipOther
<1>3. Page' = Page
    BY DEF SkipOther, Page
<1>4. Upto(listing, idx) = Upto(listing, idx - 1)
    BY <1>1, <1>2, ReadNext DEF SkipOther
<1>5. Given'
    BY <1>2, <1>3 DEF Inv, Given, SkipOther
<1>6. ReadSoFar'
    BY <1>2, <1>4 DEF Inv, ReadSoFar, SkipOther
<1>7. Progress'
    BY DEF Inv, Progress, SkipOther, LastNeeded, ChangeCells
<1> QED
    BY <1>3, <1>5, <1>6, <1>7
    DEF Inv, SkipOther, FailuresAreReal, Ends

\* The loop reads a token cell, and takes it or panics.
LEMMA ChooseInv == Inv /\ Choose => Inv'
<1> SUFFICES ASSUME Inv, Choose
             PROVE  Inv'
    OBVIOUS
<1> DEFINE d == Page[idx].data
           sum == total + Amount(d)
<1>1. /\ listing \in Seq(Cell) /\ idx \in 1..Len(Page)
      /\ Len(Page) \in 0..Len(listing) /\ Page[idx] = listing[idx]
      /\ TokenData(Page) = Upto(listing, Len(Page))
    BY PageIs DEF Inv, Given, Choose
<1>2. idx - 1 \in 0..(Len(listing) - 1) /\ (idx - 1) + 1 = idx
      /\ (idx + 1) - 1 = idx /\ idx + 1 \in 1..(Len(Page) + 1)
      /\ idx \in 0..Len(Page) /\ Len(Page) \in 0..Len(listing)
    BY <1>1
<1>3. Page' = Page
    BY DEF Choose, Page
<1>4. d \in Datum /\ inputs \in Seq(Datum)
      /\ Upto(listing, idx) = Append(inputs, d)
    BY <1>1, <1>2, ReadNext DEF Inv, ReadSoFar, Choose
<1>5. /\ SumOf(Append(inputs, d)) = sum /\ Amount(d) \in 0..MaxAmount
      /\ AllDecodable(Append(inputs, d)) <=> Decodable(d)
    BY <1>4, SumAppend, AmountType DEF Inv, ReadSoFar
<1>6. \/ /\ ~Decodable(d) \/ ~Fits(sum)
         /\ pc' = "panicked" /\ UNCHANGED <<idx, inputs, total>>
      \/ /\ Decodable(d) /\ Fits(sum)
         /\ inputs' = Append(inputs, d) /\ total' = sum
         /\ idx' = idx + 1
         /\ pc' = IF Reached(sum) THEN "build" ELSE "choose"
    BY DEF Choose
<1>7. UNCHANGED <<listing, amount, outputs>> /\ pc = "choose"
    BY DEF Choose
<1> HIDE DEF d, sum
<1>8. CASE /\ ~Decodable(d) \/ ~Fits(sum)
           /\ pc' = "panicked" /\ UNCHANGED <<idx, inputs, total>>
    <2>1. SumOf(Upto(listing, idx)) \in Nat
          /\ SumOf(Upto(listing, Len(Page))) \in Nat
          /\ SumOf(Upto(listing, idx)) <= SumOf(Upto(listing, Len(Page)))
          /\ (AllDecodable(Upto(listing, Len(Page)))
                 => AllDecodable(Upto(listing, idx)))
        BY <1>1, <1>2, ReadMore
    <2>2. ~AllDecodable(TokenData(Page)) \/ SumOf(TokenData(Page)) > MaxAmount
        BY <1>1, <1>4, <1>5, <1>8, <2>1, MaxAmountAssumption DEF Fits
    <2>3. FailuresAreReal'
        BY <1>3, <1>8, <2>2 DEF FailuresAreReal
    <2>4. Given'
        BY <1>3, <1>7, <1>8 DEF Inv, Given, Ends
    <2>5. ReadSoFar'
        BY <1>7, <1>8 DEF Inv, ReadSoFar
    <2>6. Progress'
        BY <1>7, <1>8 DEF Inv, Progress
    <2> QED
        BY <1>8, <2>3, <2>4, <2>5, <2>6 DEF Inv
<1>9. CASE /\ Decodable(d) /\ Fits(sum)
           /\ inputs' = Append(inputs, d) /\ total' = sum
           /\ idx' = idx + 1
           /\ pc' = IF Reached(sum) THEN "build" ELSE "choose"
    <2>1. sum \in 0..MaxAmount
        BY <1>5, <1>9, MaxAmountAssumption DEF Inv, ReadSoFar, Fits, sum
    <2>2. Given'
        BY <1>2, <1>3, <1>7, <1>9 DEF Inv, Given
    <2>3. ReadSoFar'
        BY <1>2, <1>4, <1>5, <1>7, <1>9, <2>1 DEF ReadSoFar
    <2>4. inputs # <<>> => SumOf(inputs) < amount
        BY <1>7 DEF Inv, Progress, ReadSoFar
    <2>5. Front(inputs') = inputs
        BY <1>4, <1>9, FrontOfAppend
    <2>6. amount > 0 => SumOf(inputs) < amount
        <3>1. CASE inputs = <<>>
            BY <3>1, SumEmpty
        <3> QED
            BY <2>4, <3>1
    <2>7. LastNeeded'
        BY <1>7, <2>5, <2>6 DEF LastNeeded
    <2>8. pc' = "choose" => total' < amount'
        BY <1>7, <1>9, <2>1, MaxAmountAssumption DEF Reached, Inv, Given
    <2>9. pc' = "build" => total' >= amount'
        BY <1>7, <1>9 DEF Reached
    <2>10. outputs' = <<>> /\ pc' \in {"choose", "build"}
        BY <1>7, <1>9 DEF Inv, Progress
    <2>11. Progress'
        BY <2>7, <2>8, <2>9, <2>10 DEF Progress
    <2> QED
        BY <2>2, <2>3, <2>10, <2>11
        DEF Inv, FailuresAreReal
<1> QED
    BY <1>6, <1>8, <1>9

\* The page is read to its end.
LEMMA PageEndsInv == Inv /\ PageEnds => Inv'
<1> SUFFICES ASSUME Inv, PageEnds
             PROVE  Inv'
    OBVIOUS
<1>1. /\ listing \in Seq(Cell) /\ Len(Page) \in Nat
      /\ TokenData(Page) = Upto(listing, Len(Page))
    BY PageIs DEF Inv, Given
<1>2. idx - 1 = Len(Page)
    BY <1>1 DEF Inv, Given, PageEnds
<1>3. inputs = TokenData(Page)
    BY <1>1, <1>2 DEF Inv, ReadSoFar
<1>4. Page' = Page
    BY DEF PageEnds, Page
<1>5. Given'
    BY <1>4 DEF Inv, Given, PageEnds, Ends
<1>6. ReadSoFar'
    BY DEF Inv, ReadSoFar, PageEnds
<1>7. total \in Nat /\ amount \in Nat
    BY MaxAmountAssumption DEF Inv, Given, ReadSoFar
<1>8. Progress'
    BY <1>7 DEF Inv, Progress, PageEnds, Insufficient, LastNeeded
<1>9. FailuresAreReal'
    BY <1>3, <1>4 DEF Inv, FailuresAreReal, ReadSoFar, PageEnds, Insufficient
<1> QED
    BY <1>5, <1>6, <1>8, <1>9 DEF Inv, PageEnds

\* The outputs are written once.
LEMMA BuildInv == Inv /\ Build => Inv'
<1> SUFFICES ASSUME Inv, Build
             PROVE  Inv'
    OBVIOUS
<1>1. Page' = Page
    BY DEF Build, Page
<1>2. Given'
    BY <1>1 DEF Inv, Given, Build
<1>3. ReadSoFar'
    BY DEF Inv, ReadSoFar, Build
<1>4. Progress'
    BY DEF Inv, Progress, Build, LastNeeded, ChangeCells
<1> QED
    BY <1>2, <1>3, <1>4
    DEF Inv, Build, FailuresAreReal

\* The script is run without a token among the inputs.
LEMMA SendInv == Inv /\ Send => Inv'
<1> SUFFICES ASSUME Inv, Send
             PROVE  Inv'
    OBVIOUS
<1>1. Page' = Page
    BY DEF Send, Page
<1>2. Given'
    BY <1>1 DEF Inv, Given, Send, Ends
<1>3. ReadSoFar'
    BY DEF Inv, ReadSoFar, Send
<1>4. Progress'
    BY DEF Inv, Progress, Send, LastNeeded, ChangeCells
<1>5. FailuresAreReal'
    BY DEF Send, FailuresAreReal
<1> QED
    BY <1>2, <1>3, <1>4, <1>5 DEF Inv

LEMMA StutterInv == Inv /\ UNCHANGED vars => Inv'
<1> SUFFICES ASSUME Inv, UNCHANGED vars
             PROVE  Inv'
    OBVIOUS
<1>1. Page' = Page
    BY DEF vars, Page
<1> QED
    BY <1>1 DEF vars, Inv, Given, ReadSoFar, Progress, LastNeeded, ChangeCells,
                FailuresAreReal

LEMMA InvAlways == Spec => []Inv
<1>1. Inv /\ [Next]_vars => Inv'
    BY SkipOtherInv, ChooseInv, PageEndsInv, BuildInv, SendInv, StutterInv
    DEF Next, Done
<1> QED
    BY <1>1, InitInv, PTL DEF Spec

------------------------------------------------------------------------------
(***************************************************************************)
(* The theorems.                                                           *)
(***************************************************************************)
\* Every variable has its type; in particular the loop never runs past the
\* page that get_cells returned, and input_total is a u128.
THEOREM TypeCorrect == Spec => []TypeOK
<1>1. Inv => TypeOK
    <2> SUFFICES ASSUME Inv
                 PROVE  TypeOK
        OBVIOUS
    <2>1. listing \in Seq(Cell) /\ amount \in 0..MaxAmount
          /\ Len(Page) \in 0..Len(listing) /\ Len(Page) <= PageLimit
        BY PageIs DEF Inv, Given
    <2>2. idx \in 1..(PageLimit + 1)
        BY <2>1, TransferAssumption DEF Inv, Given
    <2>3. inputs \in Seq(Datum)
        <3>1. CASE Len(listing) = 0
            <4>1. idx - 1 = 0
                BY <2>1, <3>1 DEF Inv, Given
            <4>2. inputs = <<>>
                BY <2>1, <4>1, UptoNothing DEF Inv, ReadSoFar
            <4> QED
                BY <4>2
        <3>2. CASE Len(listing) # 0
            <4>1. listing[1] \in Cell /\ SubSeq(listing, 1, idx - 1) \in Seq(Cell)
                BY <2>1, <3>2 DEF Inv, Given
            <4> QED
                BY <4>1, TokenDataAppend DEF Inv, ReadSoFar, Upto
        <3> QED
            BY <3>1, <3>2
    <2>4. outputs \in Seq(Datum)
        <3>1. CASE pc \in {"send", "transferred", "refused"}
            <4>1. total \in 0..MaxAmount /\ amount \in 0..total
                BY <3>1, MaxAmountAssumption
                DEF Inv, Given, ReadSoFar, Progress
            <4> QED
                BY <3>1, <4>1, OutputsAddUp DEF Inv, Progress
        <3>2. CASE pc \notin {"send", "transferred", "refused"}
            BY <3>2 DEF Inv, Progress
        <3> QED
            BY <3>1, <3>2
    <2> QED
        BY <2>2, <2>3, <2>4 DEF TypeOK, Inv, Given, ReadSoFar
<1> QED
    BY <1>1, InvAlways, PTL

\* What is sent on is exactly what the chosen cells hold, so the script would
\* accept the transaction if it spent them (transfer_tokens, change and all).
THEOREM ChosenPayOutputsAlways == Spec => []ChosenPayOutputs
<1>1. Inv => ChosenPayOutputs
    <2> SUFFICES ASSUME Inv, pc = "send"
                 PROVE  SumOf(outputs) = SumOf(inputs)
                        /\ Accepts(HashSize, FALSE, inputs, outputs)
        BY DEF ChosenPayOutputs
    <2>1. /\ total \in 0..MaxAmount /\ amount \in 0..total
          /\ outputs = <<Balance(amount)>> \o ChangeCells(total - amount)
        BY MaxAmountAssumption DEF Inv, Given, ReadSoFar, Progress
    <2>2. SumOf(outputs) = total /\ AllDecodable(outputs)
        BY <2>1, OutputsAddUp
    <2>3. SumOf(inputs) = total /\ AllDecodable(inputs)
        BY DEF Inv, ReadSoFar
    <2> QED
        BY <2>1, <2>2, <2>3, MaxAmountAssumption
        DEF Accepts, Sums, Balanced, SumOf
<1> QED
    BY <1>1, InvAlways, PTL

\* The chosen cells are the token cells read so far, and without the last one
\* they would not hold the amount (the break of the loop).
THEOREM ChosenAreFewestAlways == Spec => []ChosenAreFewest
<1>1. Inv => ChosenAreFewest
    BY DEF Inv, ReadSoFar, Progress, LastNeeded, Upto, ChosenAreFewest
<1> QED
    BY <1>1, InvAlways, PTL

\* A panic and an error are about what the page holds, and not about the order
\* of its cells (the expects of the loop and the test after it).
THEOREM FailuresAreRealAlways == Spec => []FailuresAreReal
<1>1. Inv => FailuresAreReal
    BY DEF Inv
<1> QED
    BY <1>1, InvAlways, PTL
============================================================================
