----------------------------- MODULE BinaryFollow -----------------------------
(***************************************************************************)
(* How a reader that is in step with the writer stands to it.  The writer  *)
(* has a history: what it had written and which calls of OnSerialise were  *)
(* in progress after each of its steps.  A reader in step is at one of     *)
(* them, or a few tokens past it.  What lies above a call of the reader,   *)
(* and what is left when that call returns, is a context: the calls of the *)
(* writer still in progress, the arrays and mObjectSkipping of the reader, *)
(* the values it has, and whether all types have agreed.  Stands says what *)
(* each kind of call makes of one context.  The innermost call starts from *)
(* the present one, and each other call where the one above it ends.       *)
(***************************************************************************)
EXTENDS BinaryRoundTrip

Items(s) == {s[i] : i \in 1 .. Len(s)}
\* The Store calls of a class from the d-th on.
From(c, d) == SubSeq(Members[c], d, Len(Members[c]))
LeftOf(s, c) == \E d \in 1 .. (Len(Members[c]) + 1) : s = From(c, d)
Prefix(s, t) == Len(s) <= Len(t) /\ \A i \in 1 .. Len(s) : s[i] = t[i]
OneIf(b) == IF b THEN 1 ELSE 0

-----------------------------------------------------------------------------
(***************************************************************************)
(* The history of the writer.  at: how much it had written; calls; n: how  *)
(* many messages it had entered.                                           *)
(***************************************************************************)
CallRecord ==
  [path : Seq(Nat), todo : Seq(Member), as : {"object", "value", "inner"}]
Moment == [at : Nat, calls : Seq(CallRecord), n : Nat]
Start == [at |-> 0, calls |-> <<>>, n |-> 0]

CallOf(c, path, as) == [path |-> path, todo |-> Members[c], as |-> as]
HeaderOf(m) == Header(m.index, GetHeaderEnum(m.type))
FlagsOf(m) == IF m.packed THEN 1 ELSE 0
AfterStore(cs) == <<[Head(cs) EXCEPT !.todo = Tail(@)]>> \o Tail(cs)
ElementsAs(m, as) ==
  IF as = "value" THEN "inner" ELSE IF m.packed THEN "value" ELSE "object"

Opens(x, y) ==
  /\ x.calls = <<>> /\ y.n = x.n + 1 /\ y.n <= Len(sent)
  /\ y.calls = <<CallOf(sent[y.n], <<y.n>>, "object")>>
  /\ y.at = x.at

Returns(x, y, W) ==
  /\ x.calls # <<>> /\ Head(x.calls).todo = <<>>
  /\ y.n = x.n /\ y.calls = Tail(x.calls)
  /\ y.at = x.at + OneIf(Head(x.calls).as = "object")
  /\ Head(x.calls).as = "object" => W[y.at] = Terminator
  /\ y.calls = <<>> => y.n \in 1 .. Len(ends) /\ ends[y.n] = y.at

\* The next member to be stored, where its value belongs, and whether it has a
\* header of its own.
Item(cs) == Head(Head(cs).todo)
ItemPath(cs) == Append(Head(cs).path, Item(cs).index)
Own(cs) == OneIf(Head(cs).as # "value")

ValueStored(x, y, W) ==
  /\ y.at = x.at + Own(x.calls) + 1
  /\ W[y.at] = Value(ItemPath(x.calls))
  /\ y.calls = AfterStore(x.calls)
VectorStored(x, y, W) ==
  LET m == Item(x.calls)
  IN  /\ y.at = x.at + Own(x.calls) + 2 + m.size
      /\ \A j \in 1 .. m.size :
           W[x.at + Own(x.calls) + 2 + j] = Value(Append(ItemPath(x.calls), j))
      /\ y.calls = AfterStore(x.calls)
ObjectStored(x, y) ==
  /\ y.at = x.at + Own(x.calls)
  /\ y.calls = <<CallOf(Item(x.calls).class, ItemPath(x.calls), "object")>>
               \o AfterStore(x.calls)
ObjectsStored(x, y, W) ==
  LET m == Item(x.calls)
      as == ElementsAs(m, Head(x.calls).as)
      a == x.at + Own(x.calls) + 2
  IN  /\ y.calls = [k \in 1 .. m.size |-> CallOf(m.class, Append(ItemPath(x.calls), k), as)]
                     \o AfterStore(x.calls)
      /\ as # "value" => y.at = a
      /\ as = "value" =>
           /\ y.at = a + Len(Members[m.class]) + 1
           /\ \A j \in 1 .. Len(Members[m.class]) : W[a + j] = HeaderOf(Members[m.class][j])
           /\ W[y.at] = Terminator

StoresNext(x, y, W) ==
  /\ x.calls # <<>> /\ Head(x.calls).todo # <<>>
  /\ y.n = x.n
  /\ Head(x.calls).as # "value" => W[x.at + 1] = HeaderOf(Item(x.calls))
  /\ LET m == Item(x.calls)
         a == x.at + Own(x.calls)
     IN  /\ m.type = "Array" =>
              /\ W[a + 1] = Header(FlagsOf(m), GetHeaderEnum(m.sub))
              /\ W[a + 2] = Size(m.size)
         /\ IsPrimitive(m) => ValueStored(x, y, W)
         /\ IsVector(m) => VectorStored(x, y, W)
         /\ IsObject(m) => ObjectStored(x, y)
         /\ IsObjects(m) => ObjectsStored(x, y, W)

Moves(x, y, W) ==
  /\ x.at <= y.at /\ y.at <= Len(W)
  /\ Opens(x, y) \/ Returns(x, y, W) \/ StoresNext(x, y, W)

HistoryOf(h, W) ==
  /\ h \in Seq(Moment) /\ Len(h) >= 1 /\ h[1] = Start
  /\ W \in Seq(Token)
  /\ \A k \in 1 .. (Len(h) - 1) : Moves(h[k], h[k + 1], W)
  /\ h[Len(h)] = [at |-> Len(W), calls |-> calls, n |-> Len(sent)]
  /\ Len(ends) = Len(sent) - OneIf(calls # <<>>)

-----------------------------------------------------------------------------
(***************************************************************************)
(* What a call of the reader still has to read, and what it makes of it.   *)
(***************************************************************************)
Context ==
  [calls : Seq(CallRecord), arrays : Seq({Null} \cup SUBSET Reader!PendingMember),
   skipping : BOOLEAN, got : SUBSET (Seq(Nat) \X Seq(Nat)), clean : BOOLEAN]

Goes(m, n) == IsObject(n) \/ (IsObjects(n) /\ m.size > 0)
Bad(m, n) == ~Fitting(m, n) \/ (Goes(m, n) /\ Mismatched[<<m.class, n.class>>])
Yield(m, n) == IF Fitting(m, n) THEN Below(m, n, Common) ELSE {}
\* Of the items w that the writer has left, for a reader of class r.
Meeting(w, r) == {mn \in Items(w) \X MembersOf(r) : mn[1].index = mn[2].index}
Rest(w, r) == UNION {Yield(mn[1], mn[2]) : mn \in Meeting(w, r)}
Good(w, r) == \A mn \in Meeting(w, r) : ~Bad(mn[1], mn[2])
\* Read at the place where it was written.
Kept(p) == <<p, p>>
Owed(path, paths) == {Kept(path \o p) : p \in paths}
ElementsOwed(path, K, paths) == UNION {Owed(Append(path, k), paths) : k \in K}

\* The members that the reader has not read: those to be stored, and the
\* pending ones but that of which the closure is running.
Waiting(todo, A, gone) ==
  Items(todo) \cup {p.member : p \in {q \in A : q.member.index \notin gone}}
Meets(pr, w, path, todo, A, gone) ==
  /\ LeftOf(w, pr[1]) /\ LeftOf(todo, pr[2])
  /\ \A p \in A : /\ p.member \in MembersOf(pr[2]) \ Items(todo)
                  /\ p.path = Append(path, p.member.index)
  /\ \A m \in MembersOf(pr[1]), n \in MembersOf(pr[2]) :
       m.index = n.index => (m \in Items(w) <=> n \in Waiting(todo, A, gone))

PlainClass(c) == ~HasPackedTo[MaxDepth][c]
PlainMember(m) ==
  /\ ~m.packed
  /\ IsObject(m) \/ (IsObjects(m) /\ m.size > 0) => PlainClass(m.class)

\* Nothing is read.
Passes(T, R) == R.got = T.got /\ R.clean = T.clean

StandsObject(f, T, R, wr) ==
  /\ ~T.skipping /\ ~R.skipping
  /\ T.calls # <<>> /\ Head(T.calls).as = "object" /\ Head(T.calls).path = f.path
  /\ R.calls = Tail(T.calls)
  /\ IF f.at = "enter" THEN R.arrays = T.arrays
     ELSE T.arrays # <<>> /\ Head(T.arrays) \in SUBSET Reader!PendingMember
          /\ R.arrays = Tail(T.arrays)
  /\ \E pr \in Pairs[wr] :
       /\ Meets(pr, Head(T.calls).todo, f.path, f.todo,
                IF f.at = "enter" THEN {} ELSE Head(T.arrays),
                IF f.at = "returned" THEN {f.index} ELSE {})
       /\ R.got = T.got \cup Owed(f.path, Rest(Head(T.calls).todo, pr[2]))
       /\ R.clean = (T.clean /\ Good(Head(T.calls).todo, pr[2]))

StandsSkip(f, T, R) ==
  /\ T.skipping /\ R.skipping = ~f.clears
  /\ T.calls # <<>> /\ Head(T.calls).as = "object" /\ R.calls = Tail(T.calls)
  /\ R.arrays = T.arrays /\ Passes(T, R)
  /\ f.at \in {"store", "header", "found"}
  /\ \E c \in Class : PlainClass(c) /\ LeftOf(Head(T.calls).todo, c)

\* One item of the writer is read, or passed.
TakesItem(T, R) ==
  /\ T.calls # <<>> /\ Head(T.calls).todo # <<>>
  /\ R.calls = AfterStore(T.calls)
  /\ R.arrays = T.arrays /\ R.skipping = T.skipping

Reads(n, path, T, R, wr) ==
  /\ TakesItem(T, R) /\ ~T.skipping
  /\ n.index = Item(T.calls).index /\ path = ItemPath(T.calls)
  /\ \E pr \in Pairs[wr] :
       /\ Item(T.calls) \in MembersOf(pr[1]) /\ n \in MembersOf(pr[2])
       /\ Head(T.calls).as # "inner"
       /\ Head(T.calls).as = "value" => pr \in PackedPairs[wr]
  /\ R.got = T.got \cup Owed(Head(T.calls).path, Yield(Item(T.calls), n))
  /\ R.clean = (T.clean /\ ~Bad(Item(T.calls), n))

StandsRead(f, T, R, wr) ==
  Reads(f.member, f.path, T, R, wr) /\ f.type = GetHeaderEnum(Item(T.calls).type)

StandsBody(f, T, R, wr) ==
  /\ Reads(f.member, f.path, T, R, wr)
  /\ Item(T.calls).type = "Array" /\ f.member.type = "Array"
  /\ f.flags = FlagsOf(Item(T.calls)) /\ f.type = GetHeaderEnum(Item(T.calls).sub)
  /\ f.n = Item(T.calls).size

\* A reader of class r that has k of n elements of class w behind it.
Caches(headers, w) ==
  \A j \in 1 .. Len(headers) : headers[j] = HeaderOf(Members[w][j])

StandsCache(f, T, R, wr) ==
  LET m == Item(T.calls)
  IN  /\ TakesItem(T, R) /\ ~T.skipping
      /\ Head(T.calls).as = "object" /\ f.path = ItemPath(T.calls)
      /\ IsObjects(m) /\ m.packed /\ f.n = m.size
      /\ Len(f.headers) <= Len(Members[m.class]) /\ Caches(f.headers, m.class)
      /\ f.n > 0 => <<m.class, f.class>> \in Pairs[wr] \cap PackedPairs[wr]
      /\ R.got = T.got \cup ElementsOwed(f.path, 1 .. f.n, Common[<<m.class, f.class>>])
      /\ R.clean = (T.clean /\ (f.n > 0 => ~Mismatched[<<m.class, f.class>>]))

\* The elements k + 1 to n of a packed vector are next.
Ahead(cs, path, k, n, w, rest) ==
  /\ k <= n /\ n - k <= Len(cs) /\ rest = SubSeq(cs, n - k + 1, Len(cs))
  /\ \A i \in 1 .. (n - k) : cs[i] = CallOf(w, Append(path, k + i), "value")

StandsNext(f, T, R, w) ==
  /\ Ahead(T.calls, f.path, f.k, f.n, w, R.calls)
  /\ R.got = T.got \cup ElementsOwed(f.path, (f.k + 1) .. f.n, Common[<<w, f.class>>])
  /\ R.clean = (T.clean /\ (f.n > f.k => ~Mismatched[<<w, f.class>>]))

\* After the loop over pending members the header of the one just read is not
\* passed.
StandsElement(f, T, R, w) ==
  /\ f.k > 0 /\ f.k <= f.n
  /\ T.calls # <<>> /\ Head(T.calls).as = "value"
  /\ Head(T.calls).path = Append(f.path, f.k)
  /\ Ahead(Tail(T.calls), f.path, f.k, f.n, w, R.calls)
  /\ \E d \in {f.h, f.h + 1} :
       /\ f.at = "drain" => d = f.h
       /\ f.at = "returned" => d = f.h + 1
       /\ d <= Len(f.headers) + 1
       /\ Head(T.calls).todo = From(w, d)
  /\ Meets(<<w, f.class>>, Head(T.calls).todo, Append(f.path, f.k), f.todo, f.pending,
           IF f.at = "returned" THEN {f.headers[f.h].index} ELSE {})
  /\ R.got = T.got \cup Owed(Append(f.path, f.k), Rest(Head(T.calls).todo, f.class))
                   \cup ElementsOwed(f.path, (f.k + 1) .. f.n, Common[<<w, f.class>>])
  /\ R.clean = (/\ T.clean /\ Good(Head(T.calls).todo, f.class)
                /\ f.n > f.k => ~Mismatched[<<w, f.class>>])

StandsPacked(f, T, R, wr) ==
  /\ ~T.skipping /\ ~R.skipping /\ R.arrays = T.arrays
  /\ \E w \in Class :
       /\ Len(f.headers) = Len(Members[w]) /\ Caches(f.headers, w)
       /\ f.n > 0 => <<w, f.class>> \in Pairs[wr] \cap PackedPairs[wr]
       /\ IF f.at = "next" THEN StandsNext(f, T, R, w) ELSE StandsElement(f, T, R, w)

StandsUnknown(f, T, R) ==
  /\ TakesItem(T, R) /\ Passes(T, R)
  /\ Head(T.calls).as = "object" /\ PlainMember(Item(T.calls))
  /\ f.type = GetHeaderEnum(Item(T.calls).type)

StandsSkipArray(f, T, R) ==
  /\ TakesItem(T, R) /\ Passes(T, R)
  /\ Head(T.calls).as = "object" /\ PlainMember(Item(T.calls))
  /\ Item(T.calls).type = "Array"
  /\ f.type = GetHeaderEnum(Item(T.calls).sub) /\ f.n = Item(T.calls).size

Stands(f, T, R, wr) ==
  /\ f.what = "object" => StandsObject(f, T, R, wr)
  /\ f.what = "skip" => StandsSkip(f, T, R)
  /\ f.what = "read" => StandsRead(f, T, R, wr)
  /\ f.what = "body" => StandsBody(f, T, R, wr)
  /\ f.what = "cache" => StandsCache(f, T, R, wr)
  /\ f.what = "packed" => StandsPacked(f, T, R, wr)
  /\ f.what = "unknown" => StandsUnknown(f, T, R)
  /\ f.what = "skipArray" => StandsSkipArray(f, T, R)

\* Each call ends in the context that the one below it goes on from.
Chain(F, g, wr) ==
  /\ g \in Seq(Context) /\ Len(g) = Len(F) + 1
  /\ \A i \in 1 .. Len(F) : Stands(F[i], g[i], g[i + 1], wr)

-----------------------------------------------------------------------------
(***************************************************************************)
(* The reader.                                                             *)
(***************************************************************************)
Round == Len(entered)
PairNow == Classes(Round)

\* The present context, at moment x.  Of a block that the end of the stream cuts
\* off the reader has not got all.
Present(T, x) ==
  /\ T.calls = x.calls /\ T.arrays = <<mCurrentPendingVariables>> \o mVariableHistory
  /\ T.skipping = mObjectSkipping /\ T.clean
  /\ x.at <= Len(stream) => T.got = result

\* What the last r messages make.
AllOwed(r) == UNION {Owed(<<q>>, Common[Classes(q)]) : q \in 1 .. r}

\* What the message ends in.
LastContext ==
  [calls |-> <<>>, arrays |-> <<Null>>, skipping |-> FALSE,
   got |-> AllOwed(Round), clean |-> ~Mismatched[PairNow]]

\* A header has been taken that no call has used.
HeaderSeen(f) ==
  /\ f.what \in {"object", "skip"}
  /\ f.at = "found" \/ mCurrentIndexPending
SeenHeader(f) ==
  IF f.at = "found" THEN Header(f.index, f.type) ELSE Header(mCurrentIndex, mCurrentType)

\* A stream that ends early is read to its end at most.
Reached(b) == pos = (IF b <= Len(stream) THEN b ELSE Len(stream)) + 1

\* What the call f has taken of the stream since moment x.
TakenSince(f, x) ==
  LET a == x.at + Own(x.calls)
  IN  /\ f.what \in {"object", "skip"} => Reached(x.at + OneIf(HeaderSeen(f)))
      /\ f.what \in {"read", "unknown"} => Reached(a)
      /\ f.what \in {"body", "skipArray"} => Reached(a + 2)
      /\ f.what = "cache" => Reached(a + 2 + Len(f.headers))
      /\ f.what = "packed" => Reached(x.at)

\* A call that has called another.
Waits(f) == f.what \in {"object", "skip", "packed"} /\ f.at # "found"

Following(x, W, g) ==
  /\ frames # <<>> /\ Round <= Len(sent) /\ x.n = Round
  /\ Chain(frames, g, PairNow) /\ Present(g[1], x)
  /\ g[Len(g)] = LastContext
  /\ TakenSince(frames[1], x)
  /\ HeaderSeen(frames[1]) => x.at + 1 <= Len(stream) /\ W[x.at + 1] = SeenHeader(frames[1])
  /\ \A i \in 2 .. Len(frames) : Waits(frames[i])

Idle(x) ==
  /\ frames = <<>> /\ Round <= Len(sent) /\ x.n = Round /\ x.calls = <<>>
  /\ x.at <= Len(stream) /\ Reached(x.at) /\ ~mCurrentIndexPending
  /\ mCurrentPendingVariables = Null /\ mVariableHistory = <<>> /\ ~mObjectSkipping
  /\ result = AllOwed(Round) /\ (entered # <<>> => ~Mismatched[PairNow])

\* There is no message left to read.
Beyond ==
  /\ Len(frames) = 1 /\ Round > Len(sent) /\ pos > Len(stream)
  /\ frames[1].what = "object" /\ frames[1].at \in {"enter", "store", "header"}
  /\ ~mCurrentIndexPending

\* The Terminator has been taken for the header of a member.
Doomed ==
  /\ frames # <<>> /\ Round <= Len(sent)
  /\ frames[1].what = "read" /\ frames[1].type = "Terminator"
  /\ LacksZero[PairNow]

Somewhere(h, W) ==
  \/ Beyond \/ Doomed
  \/ \E k \in 1 .. Len(h) : Idle(h[k]) \/ \E g : Following(h[k], W, g)

\* The reader is where its history says, as far as it can be said.
Placed(h, W) ==
  /\ HistoryOf(h, W) /\ Prefix(stream, W)
  /\ mCleanExit /\ Supported(Round) => Somewhere(h, W)

FollowInv ==
  /\ phase = "write" => Reader!ReaderInit /\ \E h : HistoryOf(h, stream)
  /\ phase = "read" => calls = <<>> /\ \E h, W : Placed(h, W)

===============================================================================
