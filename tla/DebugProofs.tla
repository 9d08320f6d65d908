----------------------------- MODULE DebugProofs -----------------------------
(***************************************************************************)
(* A debug session in the hands of any of its holders, for every program,  *)
(* recursion limit and layout of the source: a run under the debugger is a *)
(* run of the program as far as it is one, steps stop in time, no armed    *)
(* instruction slips, and the interactive view agrees with the session.    *)
(***************************************************************************)
EXTENDS DebugClients, NaturalsInduction, WellFoundedInduction, TLAPS

Frame == [func : DOMAIN Code, ip : Nat]

\* Every frame stands at an instruction, the callers behind their calls.
InCode(fs) ==
  /\ fs \in Seq(Frame)
  /\ \A j \in DOMAIN fs : fs[j].ip \in DOMAIN Code[fs[j].func]
  /\ \A j \in DOMAIN fs : j < Len(fs) => fs[j].ip > 1

\* The bottom frames of the loops on the Rust stack, outermost first.
Nested(ls, depth) ==
  /\ ls \in Seq(Nat)
  /\ \A i \in DOMAIN ls : 0 < ls[i] /\ ls[i] =< depth
  /\ \A i, j \in DOMAIN ls : i < j => ls[i] < ls[j]

Above(ls, depth) == \A i \in DOMAIN ls : ls[i] > depth

\* A session, whoever holds it.  Between commands no nested loop runs; a program
\* that stopped has a frame to stop in and has not moved since; the grace of a
\* resumed instruction lasts until it ran, in the frame the command was given at;
\* a nested loop is never below the depth a step is to stop at; a run that is not
\* over has not failed.
SessionInv ==
  /\ started \in BOOLEAN /\ finished \in BOOLEAN /\ running \in BOOLEAN
  /\ ran_entry \in BOOLEAN /\ rested \in BOOLEAN /\ arity \in Arities
  /\ mode \in [kind : Kinds, depth : Nat]
  /\ InCode(frames) /\ Nested(loops, Len(frames))
  /\ ~running => loops = <<>>
  /\ ~started => ~running /\ ~finished /\ ~ran_entry /\ frames = <<>>
  /\ running => ~finished
  /\ ~finished => failed = FALSE
  /\ started /\ ~finished /\ ~running => frames # <<>> /\ rested
  /\ running /\ resuming =>
       /\ shallow = 0 /\ rested
       /\ frames # <<>> /\ loops = <<>> /\ Len(frames) = mode.depth
  /\ running /\ mode.kind \in {"Over", "Out"} => Above(loops, mode.depth)
  /\ shallow \in {0, 1}

-----------------------------------------------------------------------------
(* The least and the greatest of some numbers.                               *)

\* Numbers up to one that are not that one.
LEMMA BelowTop ==
  ASSUME NEW n \in Nat, NEW k \in 1 .. n, k # n
  PROVE  k \in 1 .. n - 1
OBVIOUS

\* Max and Min of two numbers.
LEMMA GreaterOfTwo ==
  ASSUME NEW a \in Int, NEW b \in Int
  PROVE  Max({a, b}) = IF a >= b THEN a ELSE b
BY DEF Max

\* The minimum of two numbers.
LEMMA LessOfTwo ==
  ASSUME NEW a \in Int, NEW b \in Int
  PROVE  Min({a, b}) = IF a =< b THEN a ELSE b
BY DEF Min

\* A set of numbers that some number bounds has a greatest.
LEMMA GreatestOf ==
  ASSUME NEW n \in Nat, NEW S \in SUBSET (0 .. n), S # {}
  PROVE  Max(S) \in S /\ \A x \in S : x =< Max(S)
<1> DEFINE gaps == {n - x : x \in S}
           less == {p \in Nat \X Nat : p[1] < p[2]}
<1>1. gaps \subseteq Nat /\ gaps # {}
  <2>1. \A x \in S : n - x \in Nat
    OBVIOUS
  <2>2. PICK x \in S : TRUE
    OBVIOUS
  <2>. QED  BY <2>1, <2>2
<1>2. IsWellFoundedOn(less, Nat)
  BY NatLessThanWellFounded DEF OpToRel
<1>3. \A k, m \in Nat : k < m => <<k, m>> \in less
  OBVIOUS
<1>4. PICK m \in gaps : \A k \in gaps : <<k, m>> \notin less
  <2>. HIDE DEF gaps, less
  <2>. QED  BY <1>1, <1>2, WFMin
<1>5. \A k \in gaps : m =< k
  <2>. HIDE DEF gaps, less
  <2>1. \A k \in gaps : ~(k < m) /\ k \in Nat /\ m \in Nat
    BY <1>1, <1>3, <1>4
  <2>. QED  BY <2>1
<1>6. \E x \in S : \A y \in S : x >= y
  <2>1. PICK x \in S : m = n - x
    OBVIOUS
  <2>2. \A y \in S : n - x =< n - y
    BY <1>5, <2>1
  <2>. QED  BY <2>2
<1>. QED  BY <1>6 DEF Max

-----------------------------------------------------------------------------
(* One instruction.                                                          *)

\* The instruction a frame stands at.
LEMMA InstructionTyped ==
  ASSUME NEW f \in DOMAIN Code, NEW ip \in DOMAIN Code[f]
  PROVE  /\ ip \in Nat \ {0} /\ ip =< Len(Code[f]) /\ Len(Code[f]) \in Nat
         /\ Code[f][ip].op \in Ops
         /\ Code[f][ip].op \in {"call", "native"} => Code[f][ip].to \in DOMAIN Code
         /\ Code[f][ip].op \in {"jump", "branch"} => Code[f][ip].to \in DOMAIN Code[f]
         /\ Code[f][ip].op \notin {"jump", "throw", "ret"} => ip + 1 \in DOMAIN Code[f]
         /\ Handler[f][ip] \in {0} \cup DOMAIN Code[f]
<1>1. /\ Code[f] \in Seq([op : Ops, to : Nat \cup DOMAIN Code])
      /\ Code[f][ip].op \in {"call", "native"} => Code[f][ip].to \in DOMAIN Code
      /\ Code[f][ip].op \in {"jump", "branch"} => Code[f][ip].to \in DOMAIN Code[f]
      /\ Code[f][ip].op \notin {"jump", "throw", "ret"} => ip < Len(Code[f])
      /\ Handler[f][ip] \in {0} \cup DOMAIN Code[f]
  BY CodeAssumption
<1> DEFINE code == Code[f]
           I == [op : Ops, to : Nat \cup DOMAIN Code]
<1>2. /\ ip \in Nat \ {0} /\ ip =< Len(code) /\ Len(code) \in Nat
      /\ code[ip] \in I
      /\ ip < Len(code) => ip + 1 \in DOMAIN code
  <2>1. code \in Seq(I) /\ ip \in DOMAIN code
    BY <1>1
  <2>. HIDE DEF code, I
  <2>. QED  BY <2>1
<1>. QED  BY <1>1, <1>2

\* A function that is entered stands at its first instruction.
LEMMA EnterTyped ==
  ASSUME NEW f \in DOMAIN Code
  PROVE  /\ Enter(f) \in Frame /\ Enter(f).ip \in DOMAIN Code[Enter(f).func]
         /\ InCode(<<Enter(f)>>)
<1>1. Enter(f) \in Frame /\ Enter(f).ip \in DOMAIN Code[Enter(f).func]
  BY CodeAssumption DEF Enter, Frame
<1>. QED  BY <1>1 DEF InCode

\* The loops that are left when the frames are cut down to a depth.
LEMMA InsideNested ==
  ASSUME NEW ls, NEW n \in Nat, Nested(ls, n), NEW depth \in Nat
  PROVE  /\ Nested(Inside(ls, depth), depth)
         /\ \A d \in Nat : Above(ls, d) => Above(Inside(ls, depth), d)
<1> DEFINE S == {0} \cup {i \in DOMAIN ls : ls[i] =< depth}
<1>1. S \in SUBSET (0 .. Len(ls)) /\ S # {} /\ Len(ls) \in Nat
  BY DEF Nested
<1>2. Max(S) \in S /\ \A x \in S : x =< Max(S)
  <2>. HIDE DEF S
  <2>. QED  BY <1>1, GreatestOf
<1>3. Inside(ls, depth) = SubSeq(ls, 1, Max(S))
  BY DEF Inside
<1>4. Max(S) \in 0 .. Len(ls) /\ (Max(S) # 0 => ls[Max(S)] =< depth)
  BY <1>2 DEF Nested
<1>. DEFINE m == Max(S)
<1>5. m \in 0 .. Len(ls) /\ (m # 0 => ls[m] =< depth) /\ Inside(ls, depth) = SubSeq(ls, 1, m)
  BY <1>3, <1>4
<1>. HIDE DEF m, S
<1>6. /\ SubSeq(ls, 1, m) \in Seq(Nat) /\ Len(SubSeq(ls, 1, m)) = m
      /\ \A i \in 1 .. m : SubSeq(ls, 1, m)[i] = ls[i]
  BY <1>5 DEF Nested
<1>7. \A i \in 1 .. m : ls[i] =< depth
  BY <1>5 DEF Nested
<1>8. Nested(Inside(ls, depth), depth)
  <2> DEFINE kept == SubSeq(ls, 1, m)
  <2>1. kept \in Seq(Nat) /\ DOMAIN kept = 1 .. m /\ \A i \in 1 .. m : kept[i] = ls[i]
    BY <1>5, <1>6
  <2>2. /\ m \in Nat /\ \A i \in 1 .. m : 0 < ls[i]
        /\ \A i, j \in 1 .. m : i < j => ls[i] < ls[j]
    <3>1. 1 .. m \subseteq DOMAIN ls /\ m \in Nat
      BY <1>5 DEF Nested
    <3>. QED  BY <3>1 DEF Nested
  <2>3. Inside(ls, depth) = kept
    BY <1>5
  <2>. HIDE DEF kept
  <2>4. \A i \in DOMAIN kept : 0 < kept[i] /\ kept[i] =< depth
    BY <1>7, <2>1, <2>2
  <2>5. \A i, j \in DOMAIN kept : i < j => kept[i] < kept[j]
    BY <2>1, <2>2
  <2>. QED  BY <2>1, <2>3, <2>4, <2>5 DEF Nested
<1>9. ASSUME NEW d \in Nat, Above(ls, d)
      PROVE  Above(Inside(ls, depth), d)
  BY <1>5, <1>6, <1>9 DEF Nested, Above
<1>. QED  BY <1>8, <1>9

\* Moving the top frame moves nothing else.
LEMMA GotoTyped ==
  ASSUME NEW fs \in Seq(Frame), fs # <<>>, NEW ip \in Nat
  PROVE  /\ Goto(fs, ip) \in Seq(Frame) /\ Len(Goto(fs, ip)) = Len(fs)
         /\ \A j \in 1 .. Len(fs) - 1 : Goto(fs, ip)[j] = fs[j]
         /\ Goto(fs, ip)[Len(fs)] = [func |-> fs[Len(fs)].func, ip |-> ip]
<1>1. fs[Len(fs)] \in Frame /\ Len(fs) \in Nat \ {0} /\ DOMAIN fs = 1 .. Len(fs)
  <2>. HIDE DEF Frame
  <2>. QED  OBVIOUS
<1> DEFINE top == [fs[Len(fs)] EXCEPT !.ip = ip]
<1>2. top = [func |-> fs[Len(fs)].func, ip |-> ip] /\ top \in Frame
  BY <1>1 DEF Frame
<1>3. Goto(fs, ip) = [fs EXCEPT ![Len(fs)] = top]
  BY DEF Goto
<1>4. /\ [fs EXCEPT ![Len(fs)] = top] \in Seq(Frame)
      /\ Len([fs EXCEPT ![Len(fs)] = top]) = Len(fs)
  <2>. HIDE DEF Frame, top
  <2>. QED  BY <1>1, <1>2
<1>5. /\ \A j \in 1 .. Len(fs) - 1 : [fs EXCEPT ![Len(fs)] = top][j] = fs[j]
      /\ [fs EXCEPT ![Len(fs)] = top][Len(fs)] = top
  <2>. HIDE DEF Frame, top
  <2>1. Len(fs) \in DOMAIN fs
    BY <1>1
  <2>2. [fs EXCEPT ![Len(fs)] = top][Len(fs)] = top
    BY <2>1
  <2>3. ASSUME NEW j \in 1 .. Len(fs) - 1
        PROVE  [fs EXCEPT ![Len(fs)] = top][j] = fs[j]
    <3>1. \A n \in Nat : \A k \in 1 .. n - 1 : k \in 1 .. n /\ k # n
      OBVIOUS
    <3>2. j \in DOMAIN fs /\ j # Len(fs)
      BY <1>1, <3>1, Zenon
    <3>. QED  BY <3>2, Zenon
  <2>. QED  BY <2>2, <2>3
<1>. QED  BY <1>2, <1>3, <1>4, <1>5

\* The frames that are left when the top one moves to an instruction of its
\* function.
LEMMA GotoInCode ==
  ASSUME NEW fs \in Seq(Frame), fs # <<>>,
         \A j \in 1 .. Len(fs) - 1 : fs[j].ip \in DOMAIN Code[fs[j].func] /\ fs[j].ip > 1,
         NEW ip \in DOMAIN Code[fs[Len(fs)].func], fs[Len(fs)].func \in DOMAIN Code
  PROVE  InCode(Goto(fs, ip))
<1>1. ip \in Nat
  BY InstructionTyped
<1>2. /\ Goto(fs, ip) \in Seq(Frame) /\ Len(Goto(fs, ip)) = Len(fs)
      /\ \A j \in 1 .. Len(fs) - 1 : Goto(fs, ip)[j] = fs[j]
      /\ Goto(fs, ip)[Len(fs)] = [func |-> fs[Len(fs)].func, ip |-> ip]
  BY <1>1, GotoTyped
<1> DEFINE g == Goto(fs, ip)
<1>3. /\ DOMAIN g = 1 .. Len(fs) /\ Len(fs) \in Nat
  <2>1. g \in Seq(Frame) /\ Len(g) = Len(fs)
    BY <1>2
  <2>. HIDE DEF g, Frame
  <2>. QED  BY <2>1
<1>4. ASSUME NEW j \in DOMAIN g
      PROVE  g[j].ip \in DOMAIN Code[g[j].func] /\ (j < Len(fs) => g[j].ip > 1)
  <2>1. CASE j = Len(fs)
    BY <1>2, <2>1
  <2>2. CASE j # Len(fs)
    BY <1>2, <1>3, <2>2
  <2>. QED  BY <2>1, <2>2
<1>. QED  BY <1>2, <1>4 DEF InCode

\* What an instruction leads to, from loops ls.
Sound(next, ls) ==
  /\ InCode(next.frames) /\ Nested(next.loops, Len(next.frames))
  /\ next.failed \in BOOLEAN
  /\ \A d \in Nat : Above(ls, d) => Above(next.loops, d)

\* The frames below some depth.
LEMMA LowerFrames ==
  ASSUME NEW fs \in Seq(Frame), NEW n \in 0 .. Len(fs)
  PROVE  /\ SubSeq(fs, 1, n) \in Seq(Frame) /\ Len(SubSeq(fs, 1, n)) = n
         /\ \A j \in 1 .. n : SubSeq(fs, 1, n)[j] = fs[j]
<1>. HIDE DEF Frame
<1>. QED  OBVIOUS

\* The program that has no frames.
LEMMA EmptySound ==
  InCode(<<>>) /\ Nested(<<>>, 0) /\ Len(<<>>) = 0 /\ (\A d \in Nat : Above(<<>>, d))
BY DEF InCode, Nested, Above

\* An error, raised by a frame that is behind the instruction that faulted.
LEMMA RaisedSound ==
  ASSUME NEW fs \in Seq(Frame), fs # <<>>,
         \A j \in 1 .. Len(fs) - 1 : fs[j].ip \in DOMAIN Code[fs[j].func] /\ fs[j].ip > 1,
         fs[Len(fs)].func \in DOMAIN Code,
         fs[Len(fs)].ip - 1 \in DOMAIN Code[fs[Len(fs)].func],
         NEW ls, Nested(ls, Len(fs) + 1), NEW next \in Raised(fs, ls)
  PROVE  Sound(next, ls)
<1> DEFINE handler(j) == Handler[fs[j].func][fs[j].ip - 1]
           handled == {j \in DOMAIN fs : handler(j) # 0}
           j == Max(handled)
<1>1. /\ DOMAIN fs = 1 .. Len(fs) /\ Len(fs) \in Nat /\ Len(fs) + 1 \in Nat
      /\ \A i \in 1 .. Len(fs) : fs[i] \in Frame
  <2>. HIDE DEF Frame
  <2>. QED  OBVIOUS
<1>2. CASE handled = {}
  <2>1. next = [frames |-> <<>>, loops |-> <<>>, failed |-> TRUE]
    BY <1>2 DEF Raised
  <2>. QED  BY <2>1, EmptySound DEF Sound
<1>3. CASE handled # {}
  <2>1. next = [frames |-> Goto(SubSeq(fs, 1, j), handler(j)), loops |-> Inside(ls, j),
                failed |-> FALSE]
    BY <1>3 DEF Raised
  <2>2. j \in handled
    <3>1. handled \in SUBSET (0 .. Len(fs))
      BY <1>1
    <3>. HIDE DEF handled
    <3>. QED  BY <1>1, <1>3, <3>1, GreatestOf
  <2>. HIDE DEF j
  <2>3. j \in 1 .. Len(fs) /\ handler(j) # 0 /\ fs[j] \in Frame
    BY <1>1, <2>2
  <2>4. fs[j].func \in DOMAIN Code /\ fs[j].ip - 1 \in DOMAIN Code[fs[j].func]
    <3>1. CASE j = Len(fs)
      BY <3>1
    <3>2. CASE j # Len(fs)
      <4>1. /\ fs[j].func \in DOMAIN Code /\ fs[j].ip \in DOMAIN Code[fs[j].func]
            /\ fs[j].ip > 1
        <5>1. j \in 1 .. Len(fs) - 1
          BY <1>1, <2>3, <3>2, BelowTop, Zenon
        <5>. QED  BY <2>3, <5>1 DEF Frame
      <4>2. DOMAIN Code[fs[j].func] = 1 .. Len(Code[fs[j].func])
            /\ Len(Code[fs[j].func]) \in Nat
        BY <4>1, CodeAssumption
      <4>. QED  BY <4>1, <4>2
    <3>. QED  BY <3>1, <3>2
  <2>5. handler(j) \in DOMAIN Code[fs[j].func]
    BY <2>3, <2>4, InstructionTyped
  <2> DEFINE low == SubSeq(fs, 1, j)
  <2>6. /\ low \in Seq(Frame) /\ Len(low) = j /\ low[j] = fs[j] /\ low # <<>>
        /\ \A i \in 1 .. j - 1 : low[i] = fs[i] /\ i \in 1 .. Len(fs) - 1
    <3>1. /\ low \in Seq(Frame) /\ Len(low) = j
          /\ \A i \in 1 .. j : low[i] = fs[i]
      BY <1>1, <2>3, LowerFrames
    <3>. HIDE DEF low
    <3>. QED  BY <1>1, <2>3, <3>1
  <2>. HIDE DEF low
  <2>7. InCode(Goto(low, handler(j)))
    BY <2>4, <2>5, <2>6, GotoInCode
  <2>8. Len(Goto(low, handler(j))) = j
    <3>1. handler(j) \in Nat
      BY <2>4, <2>5, InstructionTyped
    <3>. QED  BY <2>6, <3>1, GotoTyped
  <2>9. /\ Nested(Inside(ls, j), j)
        /\ \A d \in Nat : Above(ls, d) => Above(Inside(ls, j), d)
    BY <1>1, <2>3, InsideNested
  <2>. HIDE DEF handler
  <2>. QED  BY <2>1, <2>7, <2>8, <2>9 DEF Sound, low
<1>. QED  BY <1>2, <1>3

\* A call, by a frame that is already behind it.
LEMMA CalledSound ==
  ASSUME NEW fs \in Seq(Frame), fs # <<>>, NEW f \in DOMAIN Code,
         \A j \in 1 .. Len(fs) : fs[j].ip \in DOMAIN Code[fs[j].func] /\ fs[j].ip > 1,
         NEW ls, Nested(ls, Len(fs) + 1), NEW next \in Called(fs, ls, f)
  PROVE  Sound(next, ls)
<1>1. /\ DOMAIN fs = 1 .. Len(fs) /\ Len(fs) \in Nat \ {0}
      /\ \A i \in 1 .. Len(fs) : fs[i] \in Frame
  <2>. HIDE DEF Frame
  <2>. QED  OBVIOUS
<1>2. CASE next \in Raised(fs, ls)
  <2>1. \A j \in 1 .. Len(fs) - 1 : j \in 1 .. Len(fs)
    BY <1>1
  <2>2. /\ fs[Len(fs)].func \in DOMAIN Code
        /\ fs[Len(fs)].ip - 1 \in DOMAIN Code[fs[Len(fs)].func]
    <3>1. /\ fs[Len(fs)] \in Frame /\ fs[Len(fs)].ip > 1
          /\ fs[Len(fs)].ip \in DOMAIN Code[fs[Len(fs)].func]
      BY <1>1
    <3>2. fs[Len(fs)].func \in DOMAIN Code
      BY <3>1 DEF Frame
    <3>3. /\ DOMAIN Code[fs[Len(fs)].func] = 1 .. Len(Code[fs[Len(fs)].func])
          /\ Len(Code[fs[Len(fs)].func]) \in Nat
      BY <3>2, CodeAssumption
    <3>. QED  BY <3>1, <3>2, <3>3
  <2>. QED  BY <1>2, <2>1, <2>2, RaisedSound
<1>3. CASE next \notin Raised(fs, ls)
  <2>1. next = [frames |-> Append(fs, Enter(f)), loops |-> ls, failed |-> FALSE]
    BY <1>3 DEF Called
  <2>2. /\ Append(fs, Enter(f)) \in Seq(Frame) /\ Len(Append(fs, Enter(f))) = Len(fs) + 1
        /\ DOMAIN Append(fs, Enter(f)) = 1 .. Len(fs) + 1
        /\ \A j \in 1 .. Len(fs) : Append(fs, Enter(f))[j] = fs[j]
        /\ Append(fs, Enter(f))[Len(fs) + 1] = Enter(f)
    <3>1. Enter(f) \in Frame
      BY EnterTyped
    <3>. HIDE DEF Frame
    <3>. QED  BY <3>1
  <2> DEFINE pushed == Append(fs, Enter(f))
  <2>3. ASSUME NEW j \in DOMAIN pushed
        PROVE  pushed[j].ip \in DOMAIN Code[pushed[j].func]
               /\ (j < Len(pushed) => pushed[j].ip > 1)
    <3>1. CASE j = Len(fs) + 1
      <4>1. pushed[j] = Enter(f)
        BY <2>2, <3>1
      <4>2. ~(j < Len(pushed))
        BY <1>1, <2>2, <3>1
      <4>3. Enter(f).ip \in DOMAIN Code[Enter(f).func]
        BY EnterTyped
      <4>. HIDE DEF pushed
      <4>. QED  BY <4>1, <4>2, <4>3
    <3>2. CASE j # Len(fs) + 1
      <4>1. j \in 1 .. Len(fs)
        BY <1>1, <2>2, <3>2
      <4>. QED  BY <2>2, <4>1
    <3>. QED  BY <3>1, <3>2
  <2>4. InCode(pushed)
    BY <2>2, <2>3 DEF InCode
  <2>. QED  BY <2>1, <2>2, <2>4 DEF Sound
<1>. QED  BY <1>2, <1>3

\* A return, and the next turn of a builtin that calls back.
LEMMA ReturnedSound ==
  ASSUME NEW fs, InCode(fs), fs # <<>>,
         NEW ls, Nested(ls, Len(fs)), NEW next \in Returned(fs, ls)
  PROVE  Sound(next, ls)
<1> DEFINE n == Len(fs)
           low == SubSeq(fs, 1, n - 1)
<1>1. /\ fs \in Seq(Frame) /\ DOMAIN fs = 1 .. n /\ n \in Nat \ {0} /\ n - 1 \in Nat
      /\ \A i \in 1 .. n : fs[i] \in Frame /\ fs[i].ip \in DOMAIN Code[fs[i].func]
      /\ \A i \in 1 .. n - 1 : fs[i].ip > 1
  <2>1. fs \in Seq(Frame)
    BY DEF InCode
  <2>2. DOMAIN fs = 1 .. n /\ n \in Nat \ {0} /\ n - 1 \in Nat /\ \A i \in 1 .. n : fs[i] \in Frame
    <3>. HIDE DEF Frame
    <3>. QED  BY <2>1
  <2>. QED  BY <2>1, <2>2 DEF InCode
<1>2. Front(fs) = low
  BY DEF Front
<1>3. /\ low \in Seq(Frame) /\ Len(low) = n - 1
      /\ \A i \in 1 .. n - 1 : low[i] = fs[i]
  BY <1>1, LowerFrames
<1>4. DOMAIN low = 1 .. n - 1
  <2>. HIDE DEF low, Frame
  <2>. QED  BY <1>3
<1>5. InCode(low)
  BY <1>1, <1>3, <1>4 DEF InCode
<1>6. CASE next = [frames |-> low, loops |-> Inside(ls, n - 1), failed |-> FALSE]
  <2>1. /\ Nested(Inside(ls, n - 1), n - 1)
        /\ \A d \in Nat : Above(ls, d) => Above(Inside(ls, n - 1), d)
    BY <1>1, InsideNested
  <2>. HIDE DEF low
  <2>. QED  BY <1>3, <1>5, <1>6, <2>1 DEF Sound
<1>7. CASE next = [frames |-> Append(low, Enter(Last(fs).func)), loops |-> ls, failed |-> FALSE]
  <2>1. Last(fs).func \in DOMAIN Code
    BY <1>1 DEF Last, Frame
  <2> DEFINE e == Enter(Last(fs).func)
  <2>2. e \in Frame /\ e.ip \in DOMAIN Code[e.func]
    BY <2>1, EnterTyped
  <2> DEFINE pushed == Append(low, e)
  <2>3. /\ pushed \in Seq(Frame) /\ Len(pushed) = n /\ DOMAIN pushed = 1 .. n
        /\ \A j \in 1 .. n - 1 : pushed[j] = low[j]
        /\ pushed[n] = e
    <3>1. \A q \in Seq(Frame) : \A x \in Frame :
            /\ Append(q, x) \in Seq(Frame) /\ Len(Append(q, x)) = Len(q) + 1
            /\ DOMAIN Append(q, x) = 1 .. Len(q) + 1
            /\ \A j \in 1 .. Len(q) : Append(q, x)[j] = q[j]
            /\ Append(q, x)[Len(q) + 1] = x
      <4>. HIDE DEF Frame
      <4>. QED  OBVIOUS
    <3>2. n - 1 + 1 = n
      BY <1>1
    <3>. HIDE DEF low, e
    <3>. QED  BY <1>3, <2>2, <3>1, <3>2
  <2>. HIDE DEF pushed, e, low
  <2>4. ASSUME NEW j \in 1 .. n
        PROVE  pushed[j].ip \in DOMAIN Code[pushed[j].func] /\ (j < n => pushed[j].ip > 1)
    <3>1. CASE j = n
      <4>1. pushed[j] = e /\ ~(j < n)
        BY <1>1, <2>3, <3>1
      <4>. QED  BY <2>2, <4>1
    <3>2. CASE j # n
      <4>1. j \in 1 .. n - 1 /\ j \in 1 .. n
        <5>. HIDE DEF n
        <5>. QED  BY <1>1, <3>2, BelowTop
      <4>. QED  BY <1>1, <1>3, <2>3, <4>1
    <3>. QED  BY <3>1, <3>2
  <2>5. InCode(pushed)
    BY <2>3, <2>4 DEF InCode
  <2>. QED  BY <1>7, <2>3, <2>5 DEF Sound, pushed, e
<1>. QED  BY <1>2, <1>3, <1>6, <1>7 DEF Returned

\* Whatever an instruction does, the program stays in its code, the loops stay
\* nested, and one that it starts is above every depth up to the present one.
LEMMA AfterSound ==
  ASSUME NEW fs, InCode(fs), fs # <<>>,
         NEW ls, Nested(ls, Len(fs)), NEW next \in After(fs, ls)
  PROVE  /\ InCode(next.frames) /\ Nested(next.loops, Len(next.frames))
         /\ next.failed \in BOOLEAN
         /\ \A d \in Nat : Above(ls, d) /\ d =< Len(fs) => Above(next.loops, d)
<1> DEFINE n == Len(fs)
           top == fs[n]
           instruction == Code[top.func][top.ip]
           past == Goto(fs, top.ip + 1)
           to == Goto(fs, instruction.to)
           goes(fr) == [frames |-> fr, loops |-> ls, failed |-> FALSE]
<1>1. /\ fs \in Seq(Frame) /\ DOMAIN fs = 1 .. n /\ n \in Nat \ {0} /\ n - 1 \in Nat
      /\ \A i \in 1 .. n : fs[i] \in Frame /\ fs[i].ip \in DOMAIN Code[fs[i].func]
      /\ \A i \in 1 .. n - 1 : i \in 1 .. n /\ fs[i].ip > 1
  <2>1. fs \in Seq(Frame)
    BY DEF InCode
  <2>2. DOMAIN fs = 1 .. n /\ n \in Nat \ {0} /\ n - 1 \in Nat /\ \A i \in 1 .. n : fs[i] \in Frame
    <3>. HIDE DEF Frame
    <3>. QED  BY <2>1
  <2>. QED  BY <2>1, <2>2 DEF InCode
<1>2. top \in Frame /\ top.func \in DOMAIN Code /\ top.ip \in DOMAIN Code[top.func]
  <2>1. top \in Frame /\ top.ip \in DOMAIN Code[top.func]
    BY <1>1
  <2>. QED  BY <2>1 DEF Frame
<1>3. /\ top.ip \in Nat \ {0} /\ instruction.op \in Ops
      /\ instruction.op \in {"call", "native"} => instruction.to \in DOMAIN Code
      /\ instruction.op \in {"jump", "branch"} => instruction.to \in DOMAIN Code[top.func]
      /\ instruction.op \notin {"jump", "throw", "ret"} => top.ip + 1 \in DOMAIN Code[top.func]
  BY <1>2, InstructionTyped
<1>4. /\ past \in Seq(Frame) /\ Len(past) = n /\ past # <<>>
      /\ \A j \in 1 .. n - 1 : past[j] = fs[j]
      /\ past[n] = [func |-> top.func, ip |-> top.ip + 1]
  <2>1. top.ip + 1 \in Nat
    <3>1. top.ip \in Nat
      BY <1>3
    <3>. HIDE DEF top
    <3>. QED  BY <3>1
  <2>2. /\ past \in Seq(Frame) /\ Len(past) = n
        /\ \A j \in 1 .. n - 1 : past[j] = fs[j]
        /\ past[n] = [func |-> top.func, ip |-> top.ip + 1]
    <3> DEFINE ip == top.ip + 1
    <3>1. fs \in Seq(Frame) /\ fs # <<>> /\ ip \in Nat
      BY <1>1, <2>1
    <3>2. /\ Goto(fs, ip) \in Seq(Frame) /\ Len(Goto(fs, ip)) = Len(fs)
          /\ \A j \in 1 .. Len(fs) - 1 : Goto(fs, ip)[j] = fs[j]
          /\ Goto(fs, ip)[Len(fs)] = [func |-> fs[Len(fs)].func, ip |-> ip]
      <4>. HIDE DEF ip
      <4>. QED  BY <3>1, GotoTyped
    <3>. QED  BY <3>2
  <2>. HIDE DEF past
  <2>. QED  BY <1>1, <2>2
<1>5. After(fs, ls) =
        CASE instruction.op = "plain" -> {goes(past)}
          [] instruction.op = "jump" -> {goes(to)}
          [] instruction.op = "branch" -> {goes(past)} \cup {goes(to)}
          [] instruction.op = "call" -> Called(past, ls, instruction.to)
          [] instruction.op = "native" -> Called(past, Append(ls, n + 1), instruction.to)
          [] instruction.op = "throw" -> Raised(past, ls)
          [] instruction.op = "ret" -> Returned(fs, ls)
  BY DEF After, Last
<1>6. SUFFICES \/ Sound(next, ls)
               \/ Sound(next, Append(ls, n + 1))
  <2>1. ASSUME NEW d \in Nat, Above(ls, d), d =< n
        PROVE  Above(Append(ls, n + 1), d)
    <3>1. ls \in Seq(Nat) /\ n + 1 \in Nat /\ n + 1 > d
      BY <1>1, <2>1 DEF Nested
    <3>. HIDE DEF n
    <3>. QED  BY <2>1, <3>1 DEF Above
  <2>. HIDE DEF n
  <2>. QED  BY <2>1 DEF Sound, n
<1>7. ASSUME NEW fr, InCode(fr), Len(fr) = n, next = goes(fr)
      PROVE  Sound(next, ls)
  BY <1>7 DEF Sound
<1>8. ASSUME instruction.op \in {"plain", "branch", "call", "native"}
      PROVE  /\ InCode(past)
             /\ \A j \in 1 .. n : past[j].ip \in DOMAIN Code[past[j].func] /\ past[j].ip > 1
  <2>1. top.ip + 1 \in DOMAIN Code[top.func]
    BY <1>3, <1>8
  <2>2. \A j \in 1 .. n - 1 : fs[j].ip \in DOMAIN Code[fs[j].func] /\ fs[j].ip > 1
    BY <1>1
  <2>3. InCode(past)
    BY <1>1, <1>2, <2>1, <2>2, GotoInCode
  <2>4. ASSUME NEW j \in 1 .. n
        PROVE  past[j].ip \in DOMAIN Code[past[j].func] /\ past[j].ip > 1
    <3>1. CASE j = n
      <4>1. top.ip \in Nat \ {0} /\ top.ip + 1 \in DOMAIN Code[top.func]
        BY <1>3, <2>1
      <4>2. past[j].func = top.func /\ past[j].ip = top.ip + 1
        <5>. HIDE DEF past, top
        <5>. QED  BY <1>4, <3>1
      <4>. HIDE DEF past, top
      <4>. QED  BY <4>1, <4>2
    <3>2. CASE j # n
      <4>1. j \in 1 .. n - 1
        <5>. HIDE DEF n
        <5>. QED  BY <1>1, <3>2, BelowTop
      <4>. HIDE DEF past
      <4>. QED  BY <1>4, <2>2, <4>1
    <3>. QED  BY <3>1, <3>2
  <2>. QED  BY <2>3, <2>4
<1>9. ASSUME instruction.op \in {"jump", "branch"}
      PROVE  InCode(to) /\ Len(to) = n
  <2>1. \A j \in 1 .. n - 1 : fs[j].ip \in DOMAIN Code[fs[j].func] /\ fs[j].ip > 1
    BY <1>1
  <2>2. instruction.to \in DOMAIN Code[top.func] /\ instruction.to \in Nat
    BY <1>2, <1>3, <1>9, InstructionTyped
  <2>3. InCode(to)
    BY <1>1, <1>2, <2>1, <2>2, GotoInCode
  <2>. QED  BY <1>1, <2>2, <2>3, GotoTyped
<1>10. Nested(ls, n + 1) /\ Nested(Append(ls, n + 1), n + 1)
  <2>1. ls \in Seq(Nat) /\ n \in Nat
    BY <1>1 DEF Nested
  <2>. HIDE DEF n
  <2>2. /\ Append(ls, n + 1) \in Seq(Nat) /\ DOMAIN Append(ls, n + 1) = 1 .. Len(ls) + 1
        /\ \A i \in 1 .. Len(ls) : Append(ls, n + 1)[i] = ls[i]
        /\ Append(ls, n + 1)[Len(ls) + 1] = n + 1
        /\ DOMAIN ls = 1 .. Len(ls) /\ Len(ls) \in Nat
    BY <2>1
  <2>3. \A i \in 1 .. Len(ls) : ls[i] \in Nat /\ 0 < ls[i] /\ ls[i] =< n
    BY <2>1, <2>2 DEF Nested, n
  <2>4. Nested(ls, n + 1)
    BY <2>1, <2>2, <2>3 DEF Nested
  <2>5. ASSUME NEW i \in 1 .. Len(ls) + 1
        PROVE  /\ 0 < Append(ls, n + 1)[i] /\ Append(ls, n + 1)[i] =< n + 1
               /\ i # Len(ls) + 1 => i \in 1 .. Len(ls) /\ Append(ls, n + 1)[i] < n + 1
    <3>1. CASE i = Len(ls) + 1
      BY <2>1, <2>2, <3>1
    <3>2. CASE i # Len(ls) + 1
      <4>1. i \in 1 .. Len(ls)
        BY <2>2, <3>2
      <4>2. Append(ls, n + 1)[i] = ls[i]
        BY <2>2, <4>1
      <4>. QED  BY <2>1, <2>3, <3>2, <4>1, <4>2
    <3>. QED  BY <3>1, <3>2
  <2>6. ASSUME NEW i \in 1 .. Len(ls) + 1, NEW j \in 1 .. Len(ls) + 1, i < j
        PROVE  Append(ls, n + 1)[i] < Append(ls, n + 1)[j]
    <3>1. i \in 1 .. Len(ls)
      BY <2>2, <2>6
    <3>2. CASE j = Len(ls) + 1
      BY <2>2, <2>5, <3>1, <3>2
    <3>3. CASE j # Len(ls) + 1
      <4>1. j \in 1 .. Len(ls)
        BY <2>2, <3>3
      <4>. QED  BY <2>2, <2>4, <2>6, <3>1, <4>1 DEF Nested
    <3>. QED  BY <3>2, <3>3
  <2>. QED  BY <2>2, <2>4, <2>5, <2>6 DEF Nested
<1>11. CASE instruction.op = "plain"
  BY <1>4, <1>5, <1>7, <1>8, <1>11
<1>12. CASE instruction.op = "jump"
  BY <1>5, <1>7, <1>9, <1>12
<1>13. CASE instruction.op = "branch"
  BY <1>4, <1>5, <1>7, <1>8, <1>9, <1>13
<1>14. CASE instruction.op = "call"
  <2>1. next \in Called(past, ls, instruction.to)
    BY <1>5, <1>14
  <2>. HIDE DEF past, instruction
  <2>. QED  BY <1>3, <1>4, <1>8, <1>10, <1>14, <2>1, CalledSound
<1>15. CASE instruction.op = "native"
  <2>1. next \in Called(past, Append(ls, n + 1), instruction.to)
    BY <1>5, <1>15
  <2>. HIDE DEF past, instruction
  <2>. QED  BY <1>3, <1>4, <1>8, <1>10, <1>15, <2>1, CalledSound
<1>16. CASE instruction.op = "throw"
  <2>1. next \in Raised(past, ls)
    BY <1>5, <1>16
  <2>2. \A j \in 1 .. n - 1 : past[j].ip \in DOMAIN Code[past[j].func] /\ past[j].ip > 1
    <3>. HIDE DEF past
    <3>. QED  BY <1>1, <1>4
  <2>3. past[n].func \in DOMAIN Code /\ past[n].ip - 1 \in DOMAIN Code[past[n].func]
    <3>1. past[n].func = top.func /\ past[n].ip = top.ip + 1
      <4>. HIDE DEF past, top
      <4>. QED  BY <1>4
    <3>2. top.ip \in Nat
      BY <1>3
    <3>3. \A k \in Nat : \A m : m = k + 1 => m - 1 = k
      OBVIOUS
    <3>. HIDE DEF past, top
    <3>4. past[n].ip - 1 = top.ip
      BY <3>1, <3>2, <3>3
    <3>. QED  BY <1>2, <3>1, <3>4, Zenon
  <2>. HIDE DEF past
  <2>. QED  BY <1>4, <1>10, <2>1, <2>2, <2>3, RaisedSound
<1>17. CASE instruction.op = "ret"
  BY <1>5, <1>17, ReturnedSound
<1>. HIDE DEF instruction
<1>. QED  BY <1>3, <1>11, <1>12, <1>13, <1>14, <1>15, <1>16, <1>17 DEF Ops

\* An error that nobody catches leaves nothing behind.
LEMMA FailedIsEmpty ==
  ASSUME NEW fs, NEW ls, NEW next \in After(fs, ls), InCode(fs), fs # <<>>, next.failed = TRUE
  PROVE  next.frames = <<>> /\ next.loops = <<>>
<1> DEFINE top == fs[Len(fs)]
           instruction == Code[top.func][top.ip]
<1>1. instruction.op \in Ops
  <2>1. top \in Frame /\ top.ip \in DOMAIN Code[top.func]
    <3>1. fs \in Seq(Frame) /\ Len(fs) \in DOMAIN fs /\ fs[Len(fs)] \in Frame
      <4>1. fs \in Seq(Frame)
        BY DEF InCode
      <4>. HIDE DEF Frame
      <4>. QED  BY <4>1
    <3>. QED  BY <3>1 DEF InCode
  <2>2. top.func \in DOMAIN Code
    BY <2>1 DEF Frame
  <2>. QED  BY <2>1, <2>2, InstructionTyped
<1>2. ASSUME NEW gs, NEW ms, next \in Raised(gs, ms)
      PROVE  next.frames = <<>> /\ next.loops = <<>>
  <2> DEFINE handler(i) == Handler[gs[i].func][gs[i].ip - 1]
             handled == {i \in DOMAIN gs : handler(i) # 0}
             j == Max(handled)
  <2>1. CASE handled = {}
    <3>1. next = [frames |-> <<>>, loops |-> <<>>, failed |-> TRUE]
      BY <1>2, <2>1 DEF Raised
    <3>. QED  BY <3>1
  <2>2. CASE handled # {}
    <3>1. next = [frames |-> Goto(SubSeq(gs, 1, j), handler(j)), loops |-> Inside(ms, j),
                  failed |-> FALSE]
      BY <1>2, <2>2 DEF Raised
    <3>. QED  BY <3>1
  <2>. QED  BY <2>1, <2>2
<1>3. ASSUME NEW gs, NEW ms, NEW f, next \in Called(gs, ms, f)
      PROVE  next.frames = <<>> /\ next.loops = <<>>
  BY <1>2, <1>3 DEF Called
<1>4. next \notin Returned(fs, ls)
  BY DEF Returned
<1> DEFINE past == Goto(fs, top.ip + 1)
           to == Goto(fs, instruction.to)
           goes(gs) == [frames |-> gs, loops |-> ls, failed |-> FALSE]
<1>5. After(fs, ls) =
        CASE instruction.op = "plain" -> {goes(past)}
          [] instruction.op = "jump" -> {goes(to)}
          [] instruction.op = "branch" -> {goes(past)} \cup {goes(to)}
          [] instruction.op = "call" -> Called(past, ls, instruction.to)
          [] instruction.op = "native" -> Called(past, Append(ls, Len(fs) + 1), instruction.to)
          [] instruction.op = "throw" -> Raised(past, ls)
          [] instruction.op = "ret" -> Returned(fs, ls)
  BY DEF After, Last
<1>6. next # goes(past) /\ next # goes(to)
  OBVIOUS
<1> HIDE DEF past, to, goes, instruction
<1>7. CASE instruction.op \in {"plain", "jump", "branch"}
  BY <1>5, <1>6, <1>7
<1>8. CASE instruction.op = "call"
  BY <1>3, <1>5, <1>8
<1>9. CASE instruction.op = "native"
  BY <1>3, <1>5, <1>9
<1>10. CASE instruction.op = "throw"
  BY <1>2, <1>5, <1>10
<1>11. CASE instruction.op = "ret"
  BY <1>4, <1>5, <1>11
<1>. QED  BY <1>1, <1>7, <1>8, <1>9, <1>10, <1>11 DEF Ops
-----------------------------------------------------------------------------
(* A session in anyone's hands.                                              *)

\* What a holder does with a session: arm and disarm instructions between
\* commands, interrupt it, and resume it until it is finished.
Held ==
  \/ /\ ~running
     /\ UNCHANGED <<started, finished, running, mode, interrupt, resuming, vm, ghost>>
  \/ RequestInterrupt
  \/ \E kind \in Kinds : ~finished /\ RunWith(kind)
  \/ Loop

\* A new session is in order.
LEMMA SessionStarts == SessionInit => SessionInv
<1>. SUFFICES ASSUME SessionInit
              PROVE  SessionInv
  OBVIOUS
<1>1. InCode(frames) /\ Nested(loops, Len(frames))
  BY EmptySound DEF SessionInit
<1>2. mode \in [kind : Kinds, depth : Nat]
  BY DEF SessionInit, Kinds
<1>. QED  BY <1>1, <1>2 DEF SessionInit, SessionInv

\* A command.
LEMMA CommandStep ==
  ASSUME SessionInv, NEW kind \in Kinds, ~finished, RunWith(kind)
  PROVE  SessionInv'
<1>1. /\ ~running /\ running' = TRUE /\ loops = <<>> /\ loops' = <<>>
      /\ resuming' = started /\ started' = TRUE
      /\ frames' = IF started THEN frames ELSE <<Enter(Toplevel)>>
      /\ shallow' = 0 /\ mode' = [kind |-> kind, depth |-> Len(frames)]
      /\ UNCHANGED <<finished, ran_entry, arity, rested, failed>>
  BY DEF RunWith, SessionInv
<1>2. InCode(frames') /\ Len(frames) \in Nat /\ Len(frames') \in Nat
  <2>1. InCode(<<Enter(Toplevel)>>)
    BY CodeAssumption, EnterTyped
  <2>2. \A fs : InCode(fs) => Len(fs) \in Nat
    BY DEF InCode
  <2>. QED  BY <1>1, <2>1, <2>2 DEF SessionInv
<1>3. Nested(loops', Len(frames')) /\ \A d : Above(loops', d)
  BY <1>1 DEF Nested, Above
<1>4. resuming' => rested' /\ frames' # <<>> /\ Len(frames') = mode'.depth
  BY <1>1 DEF SessionInv
<1>5. mode' \in [kind : Kinds, depth : Nat]
  BY <1>1, <1>2
<1>. QED  BY <1>1, <1>2, <1>3, <1>4, <1>5 DEF SessionInv

\* A step of a command: only an instruction that was resumed runs where the
\* command is to stop.
LEMMA ExecuteStep ==
  ASSUME SessionInv, Execute
  PROVE  SessionInv'
<1>1. PICK next \in After(frames, loops) :
        /\ frames' = next.frames /\ loops' = next.loops
        /\ running' = ~next.failed
        /\ finished' = (finished \/ next.failed)
        /\ failed' = next.failed
  BY DEF Execute
<1>2. /\ running /\ ~ShouldStop /\ frames # <<>> /\ ~finished /\ started
      /\ resuming' = (resuming /\ loops # <<>>)
      /\ rested' = FALSE
      /\ shallow' = IF shallow < 2 /\ Counts THEN shallow + 1 ELSE shallow
      /\ UNCHANGED <<started, mode, ran_entry, arity>>
  BY DEF Execute, SessionInv
<1>3. /\ InCode(next.frames) /\ Nested(next.loops, Len(next.frames))
      /\ next.failed \in BOOLEAN
      /\ \A d \in Nat : Above(loops, d) /\ d =< Len(frames) => Above(next.loops, d)
  BY <1>2, AfterSound DEF SessionInv
<1>4. ~resuming'
  BY <1>2 DEF SessionInv
<1>5. /\ Len(frames) \in Nat \ {0} /\ mode.depth \in Nat /\ mode.kind \in Kinds
      /\ loops \in Seq(Nat)
      /\ loops # <<>> => 1 \in DOMAIN loops /\ loops[1] \in Nat /\ loops[1] =< Len(frames)
  <2>1. Len(frames) \in Nat \ {0}
    BY <1>2 DEF SessionInv, InCode
  <2>2. mode.depth \in Nat /\ mode.kind \in Kinds
    BY DEF SessionInv
  <2>3. loops \in Seq(Nat)
    BY DEF SessionInv, Nested
  <2>4. loops # <<>> => 1 \in DOMAIN loops /\ loops[1] \in Nat
    BY <2>3
  <2>. QED  BY <2>1, <2>2, <2>3, <2>4 DEF SessionInv, Nested
<1>6. ~resuming /\ loops = <<>> => ~interrupt /\ Here \notin breakpoints /\ ~StepModeStops
  BY <1>2 DEF ShouldStop
<1>7. mode.kind \in {"Over", "Out"} =>
        /\ Above(loops, mode.depth) /\ mode.depth =< Len(frames)
        /\ ~resuming /\ mode.kind = "Over" => mode.depth < Len(frames)
  <2>1. SUFFICES ASSUME mode.kind \in {"Over", "Out"}
                 PROVE  /\ mode.depth =< Len(frames)
                        /\ ~resuming /\ mode.kind = "Over" => mode.depth < Len(frames)
    BY <1>2 DEF SessionInv
  <2>2. CASE resuming
    BY <1>2, <1>5, <2>2 DEF SessionInv
  <2>3. CASE ~resuming /\ loops = <<>>
    <3>1. CASE mode.kind = "Over"
      <4>1. ~(Len(frames) =< mode.depth)
        BY <1>6, <2>3, <3>1 DEF StepModeStops
      <4>. QED  BY <1>5, <4>1
    <3>2. CASE mode.kind = "Out"
      <4>1. ~(Len(frames) < mode.depth)
        BY <1>6, <2>3, <3>2 DEF StepModeStops
      <4>. QED  BY <1>5, <3>2, <4>1
    <3>. QED  BY <2>1, <3>1, <3>2
  <2>4. CASE ~resuming /\ loops # <<>>
    BY <1>2, <1>5, <2>1, <2>4 DEF SessionInv, Above
  <2>. QED  BY <2>2, <2>3, <2>4
<1>8. ~resuming => ~Counts
  <2>1. SUFFICES ASSUME ~resuming, Counts
                 PROVE  FALSE
    OBVIOUS
  <2>2. CASE mode.kind = "In" /\ loops = <<>>
    BY <1>6, <2>1, <2>2 DEF StepModeStops
  <2>3. CASE mode.kind = "Over" /\ Len(frames) =< mode.depth
    BY <1>5, <1>7, <2>1, <2>3
  <2>4. CASE mode.kind = "Out" /\ Len(frames) < mode.depth
    BY <1>5, <1>7, <2>1, <2>4
  <2>. QED  BY <2>1, <2>2, <2>3, <2>4 DEF Counts
<1>9. shallow' \in {0, 1}
  BY <1>2, <1>8 DEF SessionInv
<1>10. mode.kind \in {"Over", "Out"} => Above(next.loops, mode.depth)
  BY <1>3, <1>5, <1>7
<1>11. ~running' => loops' = <<>>
  <2>1. ~running' => next.failed
    BY <1>1
  <2>. QED  BY <1>1, <2>1, FailedIsEmpty, <1>2 DEF SessionInv
<1>. QED  BY <1>1, <1>2, <1>3, <1>4, <1>9, <1>10, <1>11 DEF SessionInv

\* Whatever is done with a session, it stays in order.
LEMMA SessionStep == SessionInv /\ [Held]_session => SessionInv'
<1>. SUFFICES ASSUME SessionInv, [Held]_session
              PROVE  SessionInv'
  OBVIOUS
<1>1. CASE ~running /\ UNCHANGED <<started, finished, running, mode, interrupt, resuming, vm, ghost>>
  BY <1>1 DEF SessionInv, vm, ghost
<1>2. CASE RequestInterrupt
  BY <1>2 DEF RequestInterrupt, SessionInv, vm, ghost
<1>3. ASSUME NEW kind \in Kinds, ~finished, RunWith(kind)
      PROVE  SessionInv'
  BY <1>3, CommandStep
<1>4. CASE Pause
  BY <1>4 DEF Pause, ShouldStop, SessionInv, vm
<1>5. CASE Execute
  BY <1>5, ExecuteStep
<1>6. CASE EntryReturned
  <2>1. Len(<<>>) = 0 /\ loops = <<>>
    BY <1>6 DEF EntryReturned, SessionInv, Nested
  <2>2. InCode(<<Enter(Main)>>) /\ Len(<<Enter(Main)>>) = 1 /\ <<Enter(Main)>> # <<>>
    BY CodeAssumption, EnterTyped
  <2>3. /\ running /\ ~finished /\ ~resuming /\ started
        /\ UNCHANGED <<started, mode, resuming, loops, arity, rested, shallow>>
    BY <1>6 DEF EntryReturned, SessionInv, debug, ghost
  <2>4. \A d : Nested(<<>>, d) /\ Above(<<>>, d)
    BY DEF Nested, Above
  <2>5. ASSUME NEW fails, Ends(fails)
        PROVE  SessionInv'
    <3>1. /\ finished' = TRUE /\ running' = FALSE /\ ran_entry' = ran_entry
          /\ frames' = <<>> /\ loops' = <<>>
      BY <1>6, <2>1, <2>3, <2>5 DEF EntryReturned, Ends
    <3>. QED  BY <2>1, <2>3, <2>4, <3>1, EmptySound DEF SessionInv
  <2>6. CASE EntersMain /\ ran_entry' = TRUE
    BY <2>1, <2>2, <2>3, <2>4, <2>6 DEF EntersMain, SessionInv
  <2>. QED  BY <1>6, <2>5, <2>6 DEF EntryReturned
<1>7. CASE UNCHANGED session
  BY <1>7 DEF SessionInv, session, vm, ghost, debug
<1>. QED  BY <1>1, <1>2, <1>3, <1>4, <1>5, <1>6, <1>7 DEF Held, Loop

\* The grace is only ever given to the instruction that the session stopped at.
LEMMA NothingSlips ==
  SessionInv => (Execute /\ loops = <<>> /\ Here \in breakpoints => rested)
<1>. SUFFICES ASSUME SessionInv, Execute, loops = <<>>, Here \in breakpoints
              PROVE  rested
  OBVIOUS
<1>1. running /\ frames # <<>> /\ ~ShouldStop
  BY DEF Execute
<1>2. resuming
  BY <1>1 DEF ShouldStop
<1>. QED  BY <1>1, <1>2 DEF SessionInv

\* The instructions of a run are those of the loop.
LEMMA SameInstructions ==
  ASSUME NEW fs, NEW ls
  PROVE  Program!After(fs, ls) = After(fs, ls)
<1>1. \A f : Program!Enter(f) = Enter(f)
  BY DEF Program!Enter, Enter
<1>2. \A gs, ip : Program!Goto(gs, ip) = Goto(gs, ip)
  BY DEF Program!Goto, Goto
<1>3. \A ms, d : Program!Inside(ms, d) = Inside(ms, d)
  BY DEF Program!Inside, Inside, Program!Max, Max
<1>4. \A gs, ms : Program!Raised(gs, ms) = Raised(gs, ms)
  <2>1. \A S : Program!Max(S) = Max(S)
    BY DEF Program!Max, Max
  <2>. QED  BY <1>2, <1>3, <2>1 DEF Program!Raised, Raised
<1>5. \A gs, ms, f : Program!Called(gs, ms, f) = Called(gs, ms, f)
  BY <1>1, <1>4 DEF Program!Called, Called
<1>6. \A gs, ms : Program!Returned(gs, ms) = Returned(gs, ms)
  BY <1>1, <1>3 DEF Program!Returned, Returned, Program!Last, Last, Program!Front, Front
<1>. QED  BY <1>2, <1>4, <1>5, <1>6 DEF Program!After, After, Program!Last, Last

\* A step of the run, or the one that a plain run has not.
RunOrUnchecked == Program!RunNext \/ UncheckedMain

\* Both runs start where <toplevel> has not been entered.
LEMMA RunStarts == SessionInit => Program!RunInit
BY DEF SessionInit, Program!RunInit, Stage

\* Every step of a session is one of the run, or none, or enters an unchecked main.
LEMMA RunStep == SessionInv /\ [Held]_session => [RunOrUnchecked]_program
<1>. SUFFICES ASSUME SessionInv, [Held]_session
              PROVE  [RunOrUnchecked]_program
  OBVIOUS
<1>1. CASE ~running /\ UNCHANGED <<started, finished, running, mode, interrupt, resuming, vm, ghost>>
  BY <1>1 DEF program, Stage, vm
<1>2. CASE RequestInterrupt
  BY <1>2 DEF RequestInterrupt, program, Stage, vm
<1>3. ASSUME NEW kind \in Kinds, ~finished, RunWith(kind)
      PROVE  [RunOrUnchecked]_program
  <2>1. CASE started
    BY <1>3, <2>1 DEF RunWith, program, Stage
  <2>2. CASE ~started
    <3>1. Stage = "ready" /\ Stage' = "toplevel"
      BY <1>3, <2>2 DEF RunWith, Stage, SessionInv
    <3>2. frames' = <<Enter(Toplevel)>> /\ UNCHANGED <<arity, loops, failed>>
      BY <1>3, <2>2 DEF RunWith
    <3>3. Program!Start
      BY <3>1, <3>2 DEF Program!Start, Program!Enter, Enter
    <3>. QED  BY <3>3 DEF RunOrUnchecked, Program!RunNext
  <2>. QED  BY <2>1, <2>2
<1>4. CASE Pause
  BY <1>4 DEF Pause, program, Stage, vm
<1>5. CASE Execute
  <2>1. PICK next \in After(frames, loops) :
          /\ frames' = next.frames /\ loops' = next.loops
          /\ finished' = (finished \/ next.failed) /\ failed' = next.failed
    BY <1>5 DEF Execute
  <2>2. /\ running /\ frames # <<>> /\ started /\ ~finished
        /\ started' = started /\ ran_entry' = ran_entry /\ arity' = arity
    BY <1>5 DEF Execute, SessionInv
  <2>3. next.failed \in BOOLEAN
    BY <2>2, AfterSound DEF SessionInv
  <2>4. Stage' = IF next.failed THEN "over" ELSE Stage
    BY <2>1, <2>2, <2>3 DEF Stage
  <2>5. next \in Program!After(frames, loops)
    BY SameInstructions
  <2>6. Program!Instruction
    BY <2>1, <2>2, <2>4, <2>5 DEF Program!Instruction
  <2>. QED  BY <2>6 DEF RunOrUnchecked, Program!RunNext
<1>6. CASE EntryReturned
  <2>1. /\ running /\ frames = <<>> /\ started /\ ~finished /\ failed = FALSE
        /\ started' = started /\ UNCHANGED <<arity, loops>>
        /\ arity \in Nat \cup {-1}
    BY <1>6, CodeAssumption DEF EntryReturned, SessionInv, NoMain
  <2>2. ASSUME NEW fails, Ends(fails)
        PROVE  Stage' = "over" /\ frames' = frames /\ failed' = fails
    BY <2>1, <2>2 DEF Ends, Stage
  <2>3. CASE (ran_entry \/ arity = NoMain) /\ Ends(FALSE)
    <3>1. Stage = "main" \/ (Stage = "toplevel" /\ arity = -1)
      BY <2>1, <2>3 DEF Stage, NoMain
    <3>2. Stage = "main" \/ (Stage = "toplevel" /\ arity # 0 /\ (arity > 0) = FALSE)
      BY <2>1, <3>1
    <3>3. Stage' = "over" /\ frames' = frames /\ failed' = FALSE
      BY <2>2, <2>3
    <3>4. Program!NextStage
      BY <2>1, <3>2, <3>3, Zenon DEF Program!NextStage
    <3>. QED  BY <3>4 DEF RunOrUnchecked, Program!RunNext
  <2>4. CASE ~ran_entry /\ Refused /\ Ends(TRUE)
    <3>1. Stage = "toplevel" /\ arity > 0 /\ arity # 0
      BY <2>1, <2>4 DEF Stage, Refused
    <3>2. Stage' = "over" /\ frames' = frames /\ failed' = TRUE
      BY <2>2, <2>4
    <3>3. Program!NextStage
      BY <2>1, <3>1, <3>2, Zenon DEF Program!NextStage
    <3>. QED  BY <3>3 DEF RunOrUnchecked, Program!RunNext
  <2>5. CASE ~ran_entry /\ arity # NoMain /\ ~Refused /\ EntersMain /\ ran_entry' = TRUE
    <3>1. /\ Stage = "toplevel" /\ Stage' = "main"
          /\ frames' = <<Enter(Main)>> /\ failed' = failed
      BY <2>1, <2>5 DEF EntersMain, Stage
    <3>2. CASE arity = 0
      <4>1. Program!NextStage
        BY <2>1, <3>1, <3>2 DEF Program!NextStage, Program!Enter, Enter
      <4>. QED  BY <4>1 DEF RunOrUnchecked, Program!RunNext
    <3>3. CASE arity # 0
      <4>1. arity > 0 /\ resumed
        BY <2>1, <2>5, <3>3 DEF Refused, NoMain
      <4>. QED  BY <2>1, <3>1, <4>1 DEF RunOrUnchecked, UncheckedMain
    <3>. QED  BY <3>2, <3>3
  <2>. QED  BY <1>6, <2>3, <2>4, <2>5 DEF EntryReturned
<1>7. CASE UNCHANGED session
  BY <1>7 DEF session, vm, program, Stage
<1>. QED  BY <1>1, <1>2, <1>3, <1>4, <1>5, <1>6, <1>7 DEF Held, Loop

-----------------------------------------------------------------------------
(* The holders.                                                              *)

\* What the interactive debugger knows of its session while nothing is pending.
TuiKnows ==
  /\ run \in {"Ready", "Paused", "Finished"}
  /\ running => waiting
  /\ waiting => started
  /\ finished => waiting \/ run = "Finished"

\* And what it shows of it: a line in the gutter is one that binds.
TuiShows ==
  /\ cursor \in Nat \ {0} /\ scroll \in Int /\ selected_frame \in Nat
  /\ panel \in Seq(Nat \ {0})
  /\ \A l \in gutter : Bind(Entry, l) # <<>>
  /\ ViewIsHonest

\* What the adapter knows of its session.
DapKnows ==
  /\ running => reporting
  /\ finished => reporting \/ told = "terminated"

ClientInv ==
  /\ SessionInv
  /\ client = "tui" => TuiKnows
  /\ client = "dap" => DapKnows

\* Each holder does with its session only what any holder may do.
LEMMA ClientsHold ==
  ClientInv /\ [ClientNext]_<<client, session, tui, dap, cli>> => [Held]_session
<1>. SUFFICES ASSUME ClientInv, ClientNext
              PROVE  [Held]_session
  BY DEF session
<1>1. CASE client = "api" /\ ApiNext
  BY <1>1 DEF ApiNext, Held, SetBreakpoint, ClearBreakpoint
<1>2. CASE client = "tui" /\ TuiNext
  <2>1. ASSUME NEW kind \in Kinds, Command(kind)
        PROVE  Held
    BY <1>2, <2>1 DEF Command, Key, Held, ClientInv, TuiKnows
  <2>2. CASE ToggleBreakpoint
    BY <2>2 DEF ToggleBreakpoint, Key, SetBreakpoint, ClearBreakpoint, Held
  <2>3. CASE Loop
    BY <2>3 DEF Held
  <2>4. CASE Dismiss \/ Covers \/ Tab \/ Apply \/ \E down \in BOOLEAN : Move(down)
    BY <2>4 DEF Dismiss, Covers, Tab, Apply, Move
  <2>. QED  BY <1>2, <2>1, <2>2, <2>3, <2>4 DEF TuiNext
<1>3. CASE client = "dap" /\ DapNext
  <2>1. ASSUME NEW kind \in Kinds, RunRequest(kind)
        PROVE  Held
    BY <1>3, <2>1 DEF RunRequest, Held, ClientInv, DapKnows
  <2>2. ASSUME NEW file, NEW lines, SetBreakpoints(file, lines)
        PROVE  Held
    BY <2>2 DEF SetBreakpoints, Held
  <2>3. CASE Loop
    BY <2>3 DEF Held
  <2>4. CASE Launch \/ Disconnect \/ Report
    BY <2>4 DEF Launch, Disconnect, Report
  <2>. QED  BY <1>3, <2>1, <2>2, <2>3, <2>4 DEF DapNext
<1>4. CASE client = "cli" /\ CliNext
  <2>1. ASSUME NEW file, NEW line, Break(file, line)
        PROVE  [Held]_session
    <3>1. ~running
      BY <2>1 DEF Break, ClientInv, SessionInv
    <3>. QED  BY <2>1, <3>1 DEF Break, SetBreakpoint, Held
  <2>2. CASE Resume
    BY <2>2 DEF Resume, Held, Kinds
  <2>3. CASE Answer
    BY <2>3 DEF Answer
  <2>4. CASE Loop
    BY <2>4 DEF Held
  <2>. QED  BY <1>4, <2>1, <2>2, <2>3, <2>4 DEF CliNext
<1>. QED  BY <1>1, <1>2, <1>3, <1>4 DEF ClientNext

\* The loop belongs to a running command and touches no breakpoint.
LEMMA LoopKeeps == Loop => running /\ started' = started /\ breakpoints' = breakpoints
BY DEF Loop, Pause, Execute, EntryReturned, debug

\* The holders learn of every answer before they ask again.
LEMMA TuiKnowsStep ==
  ASSUME SessionInv, TuiKnows, TuiNext
  PROVE  TuiKnows'
<1>1. CASE Dismiss \/ Covers \/ Tab
  BY <1>1 DEF Dismiss, Covers, Tab, TuiKnows, session
<1>2. ASSUME NEW down \in BOOLEAN, Move(down)
      PROVE  TuiKnows'
  BY <1>2 DEF Move, TuiKnows, session
<1>3. CASE ToggleBreakpoint
  BY <1>3 DEF ToggleBreakpoint, SetBreakpoint, ClearBreakpoint, TuiKnows, session
<1>4. ASSUME NEW kind \in Kinds, Command(kind)
      PROVE  TuiKnows'
  BY <1>4 DEF Command, RunWith, TuiKnows
<1>5. CASE Apply
  BY <1>5 DEF Apply, TuiKnows, session
<1>6. CASE Loop /\ UNCHANGED tui
  BY <1>6, LoopKeeps DEF TuiKnows, tui
<1>. QED  BY <1>1, <1>2, <1>3, <1>4, <1>5, <1>6 DEF TuiNext

\* Every step of the adapter keeps what it knows of its session.
LEMMA DapKnowsStep ==
  ASSUME DapKnows, DapNext
  PROVE  DapKnows'
<1>1. CASE Launch \/ Disconnect
  BY <1>1 DEF Launch, Disconnect, DapKnows, session
<1>2. ASSUME NEW file, NEW lines, SetBreakpoints(file, lines)
      PROVE  DapKnows'
  BY <1>2 DEF SetBreakpoints, DapKnows
<1>3. ASSUME NEW kind \in Kinds, RunRequest(kind)
      PROVE  DapKnows'
  BY <1>3 DEF RunRequest, DapKnows
<1>4. CASE Report
  BY <1>4 DEF Report, DapKnows, session
<1>5. CASE Loop /\ UNCHANGED dap
  BY <1>5, LoopKeeps DEF DapKnows, dap
<1>. QED  BY <1>1, <1>2, <1>3, <1>4, <1>5 DEF DapNext

clients == <<client, session, tui, dap, cli>>

\* The holders and their session, as they start and after every step.
LEMMA ClientsStart == ClientInit => ClientInv /\ SessionInit
<1>. SUFFICES ASSUME ClientInit
              PROVE  ClientInv /\ SessionInit
  OBVIOUS
<1>1. SessionInit /\ TuiInit /\ DapInit
  BY DEF ClientInit, TuiInit
<1>2. SessionInv
  BY <1>1, SessionStarts
<1>3. TuiKnows /\ DapKnows
  BY <1>1 DEF TuiInit, SessionInit, TuiKnows, DapKnows
<1>. QED  BY <1>1, <1>2, <1>3 DEF ClientInv

\* Every step of either front-end keeps the invariant of both.
LEMMA ClientStep == ClientInv /\ [ClientNext]_clients => ClientInv'
<1>. SUFFICES ASSUME ClientInv, [ClientNext]_clients
              PROVE  ClientInv'
  OBVIOUS
<1>1. SessionInv'
  BY ClientsHold, SessionStep DEF ClientInv, clients
<1>2. client' = client
  BY DEF ClientNext, clients
<1>3. client = "tui" => TuiKnows'
  <2>1. CASE client = "tui" /\ ClientNext
    BY <2>1, TuiKnowsStep DEF ClientNext, ClientInv
  <2>2. CASE UNCHANGED clients
    BY <2>2 DEF clients, session, tui, TuiKnows, ClientInv
  <2>. QED  BY <2>1, <2>2
<1>4. client = "dap" => DapKnows'
  <2>1. CASE client = "dap" /\ ClientNext
    BY <2>1, DapKnowsStep DEF ClientNext, ClientInv
  <2>2. CASE UNCHANGED clients
    BY <2>2 DEF clients, session, dap, DapKnows, ClientInv
  <2>. QED  BY <2>1, <2>2
<1>. QED  BY <1>1, <1>2, <1>3, <1>4 DEF ClientInv

\* In every reachable state the session is in order and its holder knows
\* whether it runs and whether it is finished, so that no command is given to
\* a session that runs or is over (Session::run_with has no such check).
THEOREM HoldersKnow == ClientSpec => []ClientInv
<1>1. ClientInit => ClientInv
  BY ClientsStart
<1>2. ClientInv /\ [ClientNext]_clients => ClientInv'
  BY ClientStep
<1>. QED  BY <1>1, <1>2, PTL DEF ClientSpec, clients

\* StepsStopInTime: a step runs at most one instruction where it is to stop,
\* then it stops there (DebugState::should_stop, Vm::debug_should_stop).
THEOREM StepsStop == ClientSpec => []StepsStopInTime
<1>1. ClientInv => StepsStopInTime
  BY DEF ClientInv, SessionInv, StepsStopInTime
<1>. QED  BY <1>1, HoldersKnow, PTL

\* NoArmedInstructionSlips: the instrumented loop runs an armed instruction
\* only right after it stopped there (DebugState::take_resuming).
THEOREM ArmedInstructionsStop == ClientSpec => NoArmedInstructionSlips
<1>1. ClientInv => [Execute /\ loops = <<>> /\ Here \in breakpoints => rested]_session
  BY NothingSlips DEF ClientInv
<1>. QED  BY <1>1, HoldersKnow, PTL DEF NoArmedInstructionSlips

\* PausesDoNotDisturb: under any of its holders, with any commands and
\* breakpoints, the frames go through a run of the program ("Pausing does not
\* disturb the program", brasa_vm/debug.rs), where resume_debug may enter a main
\* that takes parameters.
THEOREM PausingIsHarmless == ClientSpec => PausesDoNotDisturb
<1>1. ClientInit => Program!RunInit
  BY ClientsStart, RunStarts
<1>2. ClientInv /\ [ClientNext]_clients => [Program!RunNext \/ UncheckedMain]_program
  BY ClientsHold, RunStep DEF ClientInv, clients, RunOrUnchecked
<1>. QED  BY <1>1, <1>2, HoldersKnow, PTL DEF ClientSpec, PausesDoNotDisturb, clients

\* RunSpec: the debugged run of a program whose main, if it has one, takes no
\* parameters "is the run the user would get" (Vm::start_debug), to the frame
\* and to how it ends.
THEOREM DebuggingIsRunning ==
  ASSUME Arities \subseteq {NoMain, 0}
  PROVE  ClientSpec => RunSpec
<1>1. ClientInit => Program!RunInit
  BY ClientsStart, RunStarts
<1>2. SessionInv => ~UncheckedMain
  BY DEF SessionInv, UncheckedMain, NoMain
<1>3. ClientInv /\ [ClientNext]_clients => [Program!RunNext]_program
  BY <1>2, ClientsHold, RunStep DEF ClientInv, clients, RunOrUnchecked
<1>. QED  BY <1>1, <1>3, HoldersKnow, PTL DEF ClientSpec, RunSpec, Program!RunSpec,
          program, clients

-----------------------------------------------------------------------------
(* The interactive view.                                                     *)

\* Wherever the cursor goes, the view follows it.
LEMMA VisibleShows ==
  ASSUME NEW c \in Nat \ {0}, NEW s \in Int
  PROVE  /\ Visible(c, s) \in Int
         /\ Visible(c, s) =< c /\ c < Visible(c, s) + VIEWPORT
<1>1. /\ MARGIN \in Nat \ {0} /\ VIEWPORT \in Nat \ {0} /\ MARGIN < VIEWPORT
  BY ViewAssumption
<1>2. /\ Max({c - MARGIN, 1}) = IF c - MARGIN >= 1 THEN c - MARGIN ELSE 1
      /\ Max({c + MARGIN - VIEWPORT, 1}) =
           IF c + MARGIN - VIEWPORT >= 1 THEN c + MARGIN - VIEWPORT ELSE 1
  BY <1>1, GreaterOfTwo
<1>. QED  BY <1>1, <1>2 DEF Visible

\* Every position is on a line.
LEMMA LineTyped ==
  ASSUME NEW s \in [file : DOMAIN LineStarts, start : Nat, end : Nat]
  PROVE  LineOf(s) \in Nat \ {0}
<1> DEFINE starts == LineStarts[s.file]
           S == {l \in DOMAIN starts : starts[l] =< s.start}
<1>1. starts \in Seq(Nat) /\ starts # <<>> /\ starts[1] = 0 /\ s.start \in Nat
  BY SpansAssumption
<1>2. S \in SUBSET (0 .. Len(starts)) /\ 1 \in S /\ 0 \notin S /\ Len(starts) \in Nat
  <2>. HIDE DEF starts
  <2>. QED  BY <1>1
<1>3. Max(S) \in S
  <2>. HIDE DEF S, starts
  <2>. QED  BY <1>2, GreatestOf
<1>4. LineOf(s) = Max(S)
  BY DEF LineOf
<1>. HIDE DEF S, starts
<1>5. Max(S) \in 0 .. Len(starts) /\ Max(S) # 0
  BY <1>2, <1>3, Zenon
<1>6. Max(S) \in Nat \ {0}
  BY <1>2, <1>5
<1>. QED  BY <1>4, <1>6, Zenon

\* The panel of a session that has stopped.
Lines == [j \in DOMAIN frames |->
  LineOf(SpanAt(<<frames[j].func, Min({frames[j].ip, Len(Code[frames[j].func])})>>))]

\* The panel has a line for each frame.
LEMMA LinesTyped ==
  ASSUME InCode(frames)
  PROVE  Lines \in Seq(Nat \ {0}) /\ Len(Lines) = Len(frames)
<1>1. ASSUME NEW j \in DOMAIN frames
      PROVE  Lines[j] \in Nat \ {0}
  <2> DEFINE f == frames[j].func
             ip == Min({frames[j].ip, Len(Code[f])})
  <2>1. frames[j] \in Frame /\ frames[j].ip \in DOMAIN Code[f]
    <3>1. frames \in Seq(Frame) /\ frames[j].ip \in DOMAIN Code[f]
      BY DEF InCode
    <3>. HIDE DEF Frame
    <3>. QED  BY <3>1
  <2>2. f \in DOMAIN Code
    BY <2>1 DEF Frame
  <2>3. frames[j].ip \in Nat \ {0} /\ frames[j].ip =< Len(Code[f]) /\ Len(Code[f]) \in Nat
    BY <2>1, <2>2, InstructionTyped
  <2>4. ip = frames[j].ip
    BY <2>3, LessOfTwo
  <2>5. SpanAt(<<f, ip>>) \in [file : DOMAIN LineStarts, start : Nat, end : Nat]
    BY <2>1, <2>2, <2>4, SpansAssumption DEF SpanAt
  <2>6. Lines[j] = LineOf(SpanAt(<<f, ip>>))
    BY DEF Lines
  <2>. QED  BY <2>5, <2>6, LineTyped
<1>2. Len(frames) \in Nat /\ DOMAIN Lines = 1 .. Len(frames)
  BY DEF InCode, Lines
<1>3. Lines \in [1 .. Len(frames) -> Nat \ {0}]
  BY <1>1, <1>2 DEF Lines
<1>. HIDE DEF Lines
<1>. QED  BY <1>2, <1>3

\* A cursor that moves stays on screen.
LEMMA ShowsCursor ==
  ASSUME NEW c \in Nat \ {0}, scroll \in Int, Shows(c)
  PROVE  /\ cursor' \in Nat \ {0} /\ scroll' \in Int
         /\ scroll' =< cursor' /\ cursor' < scroll' + VIEWPORT
BY VisibleShows DEF Shows

\* What the view shows, as it starts and after each of its steps.
LEMMA ViewStarts == TuiInit => TuiShows
<1>. SUFFICES ASSUME TuiInit
              PROVE  TuiShows
  OBVIOUS
<1>1. VIEWPORT \in Nat \ {0}
  BY ViewAssumption
<1>2. <<>> \in Seq(Nat \ {0})
  OBVIOUS
<1>. QED  BY <1>1, <1>2 DEF TuiInit, SessionInit, TuiShows, ViewIsHonest

\* A key that moves the cursor or the selection.
LEMMA MoveShows ==
  ASSUME TuiShows, NEW down \in BOOLEAN, Move(down)
  PROVE  TuiShows'
<1>1. /\ UNCHANGED <<run, gutter, unbound, current_line, panel, waiting, breakpoints>>
  BY DEF Move, session, debug
<1>2. /\ cursor' \in Nat \ {0} /\ scroll' \in Int /\ selected_frame' \in Nat
      /\ scroll' =< cursor' /\ cursor' < scroll' + VIEWPORT
      /\ panel # <<>> => selected_frame' < Len(panel)
  <2>1. CASE focus = "Frames" /\ panel = <<>>
    BY <2>1 DEF Move, view, TuiShows, ViewIsHonest
  <2>2. CASE focus = "Frames" /\ panel # <<>>
    <3> DEFINE wanted == IF down THEN Max({selected_frame - 1, 0}) ELSE selected_frame + 1
               chosen == Min({wanted, Len(panel) - 1})
    <3>1. selected_frame' = chosen /\ Shows(panel[chosen + 1])
      BY <2>2 DEF Move
    <3>2. selected_frame \in Nat /\ panel \in Seq(Nat \ {0}) /\ scroll \in Int
      BY DEF TuiShows
    <3>3. Len(panel) \in Nat \ {0} /\ DOMAIN panel = 1 .. Len(panel)
      BY <2>2, <3>2
    <3>4. Max({selected_frame - 1, 0}) \in Nat
      BY <3>2, GreaterOfTwo
    <3>5. wanted \in Nat
      BY <3>2, <3>4
    <3>6. chosen \in Nat /\ chosen < Len(panel)
      <4>. HIDE DEF wanted
      <4>. QED  BY <3>3, <3>5, LessOfTwo
    <3>. HIDE DEF chosen
    <3>7. panel[chosen + 1] \in Nat \ {0}
      BY <3>2, <3>3, <3>6
    <3>. QED  BY <3>1, <3>2, <3>6, <3>7, ShowsCursor
  <2>3. CASE focus # "Frames"
    <3> DEFINE step == cursor + (IF down THEN 1 ELSE -1)
               line == Max({1, Min({step, LastLine})})
    <3>1. Shows(line) /\ selected_frame' = selected_frame
      BY <2>3 DEF Move
    <3>2. cursor \in Nat \ {0} /\ scroll \in Int /\ selected_frame \in Nat
      BY DEF TuiShows
    <3>3. step \in Int /\ LastLine \in Nat
      BY <3>2, ViewAssumption, SpansAssumption DEF LastLine
    <3>4. Min({step, LastLine}) \in Int
      <4>. HIDE DEF step
      <4>. QED  BY <3>3, LessOfTwo
    <3>5. line \in Nat \ {0}
      <4> DEFINE m == Min({step, LastLine})
      <4>. HIDE DEF m
      <4>1. m \in Int
        BY <3>4 DEF m
      <4>2. Max({1, m}) \in Nat \ {0}
        BY <4>1, GreaterOfTwo
      <4>. QED  BY <4>2 DEF m
    <3>. HIDE DEF line
    <3>. QED  BY <3>1, <3>2, <3>5, ShowsCursor DEF TuiShows, ViewIsHonest
  <2>. QED  BY <2>1, <2>2, <2>3
<1>. QED  BY <1>1, <1>2 DEF TuiShows, ViewIsHonest

\* What the gutter shows and what the session has armed change together.
LEMMA ToggleShows ==
  ASSUME TuiShows, ToggleBreakpoint
  PROVE  TuiShows'
<1> DEFINE at == Bind(Entry, cursor)
<1>1. UNCHANGED <<run, current_line, cursor, scroll, selected_frame, panel, waiting>>
  BY DEF ToggleBreakpoint, view
<1>2. /\ breakpoints \subseteq {Bind(Entry, l) : l \in gutter}
      /\ gutter \cap unbound = {} /\ \A l \in gutter : Bind(Entry, l) # <<>>
  BY DEF TuiShows, ViewIsHonest
<1>3. /\ breakpoints' \subseteq {Bind(Entry, l) : l \in gutter'}
      /\ gutter' \cap unbound' = {} /\ \A l \in gutter' : Bind(Entry, l) # <<>>
  <2>1. CASE cursor \in gutter \cup unbound
    <3>1. gutter' = gutter \ {cursor} /\ unbound' = unbound \ {cursor}
      BY <2>1 DEF ToggleBreakpoint
    <3>2. breakpoints' = IF at # <<>> THEN breakpoints \ {at} ELSE breakpoints
      BY <2>1 DEF ToggleBreakpoint, ClearBreakpoint, session, debug
    <3>3. ASSUME NEW p \in breakpoints'
          PROVE  p \in {Bind(Entry, l) : l \in gutter'}
      <4>1. PICK l \in gutter : p = Bind(Entry, l)
        BY <1>2, <3>2, <3>3
      <4>2. l # cursor
        BY <1>2, <3>2, <3>3, <4>1
      <4>. QED  BY <3>1, <4>1, <4>2
    <3>. QED  BY <1>2, <3>1, <3>3
  <2>2. CASE cursor \notin gutter \cup unbound /\ at # <<>>
    <3>1. /\ breakpoints' = breakpoints \cup {at}
          /\ gutter' = gutter \cup {cursor} /\ unbound' = unbound
      BY <2>2 DEF ToggleBreakpoint, SetBreakpoint
    <3>. QED  BY <1>2, <2>2, <3>1
  <2>3. CASE cursor \notin gutter \cup unbound /\ at = <<>>
    <3>1. /\ breakpoints' = breakpoints
          /\ gutter' = gutter /\ unbound' = unbound \cup {cursor}
      BY <2>3 DEF ToggleBreakpoint, session, debug
    <3>. QED  BY <1>2, <2>3, <3>1
  <2>. QED  BY <2>1, <2>2, <2>3
<1>. QED  BY <1>1, <1>3 DEF TuiShows, ViewIsHonest

\* The answer to a command.
LEMMA ApplyShows ==
  ASSUME SessionInv, TuiKnows, TuiShows, Apply
  PROVE  TuiShows'
<1>1. /\ UNCHANGED <<gutter, unbound, breakpoints>>
      /\ waiting /\ ~running /\ ~waiting'
  BY DEF Apply, session, debug
<1>2. CASE finished
  BY <1>1, <1>2 DEF Apply, view, TuiShows, ViewIsHonest
<1>3. CASE ~finished
  <2>1. /\ run' = "Paused" /\ panel' = Lines /\ current_line' = Last(Lines)
        /\ selected_frame' = Max({Len(Lines) - 1, 0}) /\ Shows(Last(Lines))
    BY <1>3 DEF Apply, Lines
  <2>2. InCode(frames) /\ frames # <<>>
    BY <1>1, <1>3 DEF SessionInv, TuiKnows
  <2>3. Lines \in Seq(Nat \ {0}) /\ Len(Lines) \in Nat \ {0}
    <3>1. Len(frames) \in Nat \ {0}
      BY <2>2 DEF InCode
    <3>. QED  BY <2>2, <3>1, LinesTyped
  <2>. HIDE DEF Lines
  <2>4. Last(Lines) \in Nat \ {0}
    BY <2>3 DEF Last
  <2>5. selected_frame' \in Nat /\ selected_frame' < Len(Lines)
    BY <2>1, <2>3, GreaterOfTwo
  <2>6. /\ cursor' \in Nat \ {0} /\ scroll' \in Int
        /\ scroll' =< cursor' /\ cursor' < scroll' + VIEWPORT
    BY <2>1, <2>4, ShowsCursor DEF TuiShows
  <2>. QED  BY <1>1, <2>1, <2>3, <2>5, <2>6 DEF TuiShows, ViewIsHonest
<1>. QED  BY <1>2, <1>3

\* The view after any step.
LEMMA TuiShowsStep ==
  ASSUME SessionInv, TuiKnows, TuiShows, TuiNext
  PROVE  TuiShows'
<1>1. CASE Dismiss \/ Covers \/ Tab
  BY <1>1 DEF Dismiss, Covers, Tab, session, debug, view, TuiShows, ViewIsHonest
<1>2. ASSUME NEW down \in BOOLEAN, Move(down)
      PROVE  TuiShows'
  BY <1>2, MoveShows
<1>3. CASE ToggleBreakpoint
  BY <1>3, ToggleShows
<1>4. ASSUME NEW kind \in Kinds, Command(kind)
      PROVE  TuiShows'
  BY <1>4 DEF Command, RunWith, view, TuiShows, ViewIsHonest
<1>5. CASE Apply
  BY <1>5, ApplyShows
<1>6. CASE Loop /\ UNCHANGED tui
  BY <1>6, LoopKeeps DEF tui, view, TuiShows, ViewIsHonest
<1>. QED  BY <1>1, <1>2, <1>3, <1>4, <1>5, <1>6 DEF TuiNext

\* TuiIsHonest: the interactive debugger's gutter, cursor, panel and current
\* line agree with its session (brasa_tui/debugger.rs, brasa/debug_tui.rs).
THEOREM TheViewIsHonest == ClientSpec => []TuiIsHonest
<1>1. ClientInit => (client = "tui" => TuiShows)
  BY ViewStarts DEF ClientInit
<1>2. ClientInv /\ (client = "tui" => TuiShows) /\ [ClientNext]_clients =>
        (client = "tui" => TuiShows)'
  <2>. SUFFICES ASSUME ClientInv, client = "tui" => TuiShows, [ClientNext]_clients,
                       client' = "tui"
                PROVE  TuiShows'
    OBVIOUS
  <2>1. CASE ClientNext
    BY <2>1, TuiShowsStep DEF ClientNext, ClientInv
  <2>2. CASE UNCHANGED clients
    BY <2>2 DEF clients, session, debug, tui, view, TuiShows, ViewIsHonest
  <2>. QED  BY <2>1, <2>2
<1>3. (client = "tui" => TuiShows) => TuiIsHonest
  BY DEF TuiShows, TuiIsHonest
<1>. QED  BY <1>1, <1>2, <1>3, HoldersKnow, PTL DEF ClientSpec, clients

=============================================================================
