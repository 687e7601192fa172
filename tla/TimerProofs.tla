----------------------------- MODULE TimerProofs -----------------------------
(***************************************************************************)
(* HeldOrLost and NeverEarly for every bound on delays, counter and the    *)
(* register writes on their way.                                           *)
(***************************************************************************)
EXTENDS Timer, SequenceTheorems, TLAPS

(* The length, kept folded from here on, and the j-th element from the end. *)
Size(s)  == Len(s)
At(s, j) == s[Len(s) + 1 - j]

Modes       == {"oneshot", "deadline"}
LapicWrites == {Lvt("oneshot", b) : b \in BOOLEAN} \cup {InitCnt(n) : n \in 0 .. MaxCount}
LapicAccesses == LapicWrites \cup {CurrCnt}
Accesses    == LapicWrites \cup {CurrCnt, Rdtsc} \cup {Lvt("deadline", b) : b \in BOOLEAN}
               \cup {TscDeadline(n) : n \in 0 .. MaxTicks}

InvType ==
    /\ g_src \in Sources \cup {"NONE"}
    /\ todo \in Seq(Accesses) /\ buffer \in Seq(Accesses)
    /\ lvt \in [mode : Modes, masked : BOOLEAN]
    /\ count \in 0 .. MaxCount /\ deadline \in 0 .. MaxTicks
    /\ age \in 0 .. MaxTicks /\ spent \in 0 .. MaxTicks /\ irr \in BOOLEAN
    /\ goal \in 0 .. MaxTicks \cup {None}
    /\ lvt.mode = "deadline" => count = 0
    /\ lvt.mode = "oneshot" => deadline = 0
    /\ inMode \in BOOLEAN
    /\ g_src = "NONE" => /\ todo = <<>> /\ buffer = <<>> /\ goal = None
                         /\ lvt.mode = "oneshot" /\ lvt.masked /\ count = 0

(* A count or a deadline n that is still on its way fits what was asked for. *)
Fits(n) == IF goal = None THEN n = 0 ELSE n \in 1 .. MaxTicks /\ goal <= n /\ n <= goal + spent

Sets(a)  == \E n \in 0 .. MaxCount : a = InitCnt(n) /\ Fits(n)
Opens(a) == \E b \in BOOLEAN : a = Lvt("oneshot", b) /\ (goal # None => ~b)
Opened   == goal # None => ~lvt.masked

(* The LAPIC source: whatever is under way, LVT and count come last, in that
   order, be they still to be written, posted, or there. *)
Ends(s) == Sets(At(s, 1)) /\ (Size(s) >= 2 => Opens(At(s, 2)))

InvLapic ==
    g_src = "LAPIC" =>
        /\ lvt.mode = "oneshot"
        /\ todo \in Seq(LapicAccesses) /\ buffer \in Seq(LapicWrites)
        /\ todo # <<>> =>
              /\ Ends(todo)
              /\ Size(todo) = 1 => IF buffer = <<>> THEN Opened ELSE Opens(At(buffer, 1))
        /\ todo = <<>> /\ buffer # <<>> => Ends(buffer) /\ (Size(buffer) = 1 => Opened)

(* The TSC-deadline source: the LVT is written unmasked for deadlines only, and no
   count but 0.  timer_stop and timer_init disarm before their last two writes, and
   timer_oneshot_ns ends with the rdtsc and the deadline. *)
TscWrites     == {Lvt("deadline", FALSE), Lvt("oneshot", TRUE), InitCnt(0)}
SettingWrites == {Lvt("deadline", FALSE), InitCnt(0)}
TscStops      == TscWrites \cup {TscDeadline(0)}

Stops ==
    /\ todo \in Seq(TscStops)
    /\ Size(todo) >= 3 => At(todo, 3) = TscDeadline(0)
    /\ Size(todo) <= 2 => deadline = 0

Arms ==
    \E n \in 1 .. MaxTicks :
        /\ Size(todo) <= 4 /\ Fits(n)
        /\ At(todo, 1) = TscDeadline(n)
        /\ Size(todo) >= 2 => At(todo, 2) = Rdtsc
        /\ Size(todo) >= 3 => At(todo, 3) = InitCnt(0)
        /\ Size(todo) = 4 => At(todo, 4) = Lvt("deadline", FALSE)
        /\ Size(todo) = 1 => age <= spent /\ (goal = 0 \/ goal + age <= n)

(* What is armed is the last delay; and a call that found the timer in its mode
   leaves it in it and armed. *)
Armed == deadline > 0 => goal # None /\ goal <= deadline /\ deadline <= goal + spent
Kept  == inMode /\ goal # None =>
             /\ lvt.mode = "deadline" /\ buffer \in Seq(SettingWrites)
             /\ todo = <<>> => deadline > 0

InvTsc ==
    g_src = "TSC_DEADLINE" =>
        /\ buffer \in Seq(TscWrites)
        /\ count = 0 /\ (lvt.masked <=> lvt.mode = "oneshot")
        /\ todo # <<>> => IF goal = None THEN Stops ELSE Arms
        /\ todo = <<>> => Armed
        /\ Kept

IInv == InvType /\ InvLapic /\ InvTsc /\ (g_src = "LAPIC" => AlarmHeld)

(* HeldOrLost follows from the invariant. *)
LEMMA HeldFollows == ASSUME IInv PROVE HeldOrLost
<1> SUFFICES ASSUME Settled PROVE Held \/ (Exposed /\ Remaining = 0)
  BY DEF HeldOrLost
<1>1. CASE g_src = "LAPIC"
  BY <1>1 DEF IInv, AlarmHeld
<1>2. CASE g_src = "NONE"
  BY <1>2 DEF IInv, InvType, Held, Remaining
<1>3. CASE g_src = "TSC_DEADLINE"
  <2>1. /\ Armed /\ Kept /\ (lvt.masked <=> lvt.mode = "oneshot") /\ todo = <<>>
        /\ deadline \in Nat /\ lvt.mode \in Modes /\ (lvt.mode = "oneshot" => deadline = 0)
    BY <1>3 DEF IInv, InvType, InvTsc, Settled
  <2>2. Remaining = deadline
    BY <2>1 DEF Remaining, Modes
  <2>3. CASE deadline > 0
    BY <2>1, <2>2, <2>3 DEF Armed, Held
  <2>4. CASE deadline = 0
    <3>1. inMode => goal = None
      BY <2>1, <2>4 DEF Kept
    <3> QED BY <1>3, <2>2, <2>4, <3>1 DEF Held, Exposed
  <2> QED BY <2>1, <2>3, <2>4
<1> QED BY <1>1, <1>2, <1>3, SourcesAssumption DEF IInv, InvType

-----------------------------------------------------------------------------
(* Sequences, seen from their end. *)
LEMMA EmptyLen == ASSUME NEW S, NEW s \in Seq(S) PROVE Size(s) \in Nat /\ (s = <<>> <=> Size(s) = 0)
BY EmptySeq, LenProperties DEF Size

LEMMA TailFacts ==
    ASSUME NEW S, NEW s \in Seq(S), s # <<>>
    PROVE  /\ Size(s) \in Nat \ {0} /\ Head(s) = At(s, Size(s)) /\ Head(s) \in S
           /\ Tail(s) \in Seq(S) /\ Size(Tail(s)) = Size(s) - 1
           /\ Tail(s) = <<>> <=> Size(s) = 1
           /\ \A j \in 1 .. Size(s) - 1 : At(Tail(s), j) = At(s, j)
<1>1. Size(s) \in Nat \ {0}
  BY EmptyLen
<1>2. Head(s) = s[1] /\ Head(s) \in S
  BY DEF Size
<1>3. Tail(s) \in Seq(S) /\ Size(Tail(s)) = Size(s) - 1
  BY DEF Size
<1>4. \A i \in 1 .. Size(s) - 1 : Tail(s)[i] = s[i + 1]
  BY DEF Size
<1>5. Tail(s) = <<>> <=> Size(s) = 1
  <2>1. Tail(s) = <<>> <=> Size(Tail(s)) = 0
    BY <1>3, EmptyLen
  <2> QED BY <2>1, <1>1, <1>3
<1>6. \A j \in 1 .. Size(s) - 1 : At(Tail(s), j) = At(s, j)
  BY <1>1, <1>3, <1>4 DEF At, Size
<1> QED BY <1>1, <1>2, <1>3, <1>5, <1>6 DEF At, Size

LEMMA AppendFacts ==
    ASSUME NEW S, NEW s \in Seq(S), NEW a \in S
    PROVE  /\ Append(s, a) \in Seq(S) /\ Append(s, a) # <<>>
           /\ Size(Append(s, a)) = Size(s) + 1 /\ At(Append(s, a), 1) = a
           /\ s # <<>> => At(Append(s, a), 2) = At(s, 1)
<1>1. Size(s) \in Nat /\ (s = <<>> <=> Size(s) = 0)
  BY EmptyLen
<1>2. Append(s, a) \in Seq(S) /\ Size(Append(s, a)) = Size(s) + 1
  BY DEF Size
<1>3. Append(s, a)[Size(s) + 1] = a /\ \A i \in 1 .. Size(s) : Append(s, a)[i] = s[i]
  BY DEF Size
<1> QED BY <1>1, <1>2, <1>3, EmptyLen DEF At, Size

LEMMA ConcatFacts ==
    ASSUME NEW S, NEW s \in Seq(S), NEW t \in Seq(S), t # <<>>
    PROVE  /\ s \o t \in Seq(S) /\ Size(s \o t) = Size(s) + Size(t) /\ s \o t # <<>>
           /\ Size(s) \in Nat /\ Size(t) \in Nat \ {0}
           /\ \A j \in 1 .. Size(t) : At(s \o t, j) = At(t, j)
           /\ \A j \in 1 .. Size(s) : At(s \o t, Size(t) + j) = At(s, j)
<1>1. Size(s) \in Nat /\ Size(t) \in Nat \ {0}
  BY EmptyLen
<1>2. s \o t \in Seq(S) /\ Size(s \o t) = Size(s) + Size(t)
  BY ConcatProperties DEF Size
<1>3. \A i \in 1 .. Size(s) + Size(t) : (s \o t)[i] = IF i <= Size(s) THEN s[i] ELSE t[i - Size(s)]
  BY ConcatProperties DEF Size
<1>4. \A j \in 1 .. Size(t) : At(s \o t, j) = At(t, j)
  BY <1>1, <1>2, <1>3 DEF At, Size
<1>5. \A j \in 1 .. Size(s) : At(s \o t, Size(t) + j) = At(s, j)
  BY <1>1, <1>2, <1>3 DEF At, Size
<1> QED BY <1>1, <1>2, <1>4, <1>5, EmptyLen

(* Two elements are left alone at the end, or four. *)
LEMMA ConcatTwo ==
    ASSUME NEW S, NEW s \in Seq(S), NEW t \in Seq(S), t # <<>>, Size(t) >= 2
    PROVE  /\ s \o t \in Seq(S) /\ s \o t # <<>> /\ Size(s \o t) = Size(s) + Size(t)
           /\ Size(s \o t) >= 2
           /\ At(s \o t, 1) = At(t, 1) /\ At(s \o t, 2) = At(t, 2)
<1>1. /\ s \o t \in Seq(S) /\ s \o t # <<>> /\ Size(s \o t) = Size(s) + Size(t)
      /\ Size(s) \in Nat /\ Size(t) \in Nat \ {0}
  BY ConcatFacts
<1>2. \A j \in 1 .. Size(t) : At(s \o t, j) = At(t, j)
  BY ConcatFacts
<1> QED BY <1>1, <1>2

LEMMA ConcatFour ==
    ASSUME NEW S, NEW s \in Seq(S), NEW t \in Seq(S), t # <<>>, Size(s) = 2, Size(t) = 2
    PROVE  /\ s \o t \in Seq(S) /\ s \o t # <<>> /\ Size(s \o t) = 4
           /\ At(s \o t, 1) = At(t, 1) /\ At(s \o t, 2) = At(t, 2)
           /\ At(s \o t, 3) = At(s, 1) /\ At(s \o t, 4) = At(s, 2)
<1>1. \A j \in 1 .. Size(s) : At(s \o t, Size(t) + j) = At(s, j)
  BY ConcatFacts
<1>2. /\ 1 \in 1 .. Size(s) /\ 2 \in 1 .. Size(s) /\ Size(t) + 1 = 3 /\ Size(t) + 2 = 4
      /\ Size(t) >= 2 /\ Size(s) + Size(t) = 4
  OBVIOUS
<1>3. At(s \o t, 3) = At(s, 1) /\ At(s \o t, 4) = At(s, 2)
  BY <1>1, <1>2
<1> QED BY <1>2, <1>3, ConcatTwo

LEMMA PairFacts ==
    ASSUME NEW S, NEW a \in S, NEW b \in S
    PROVE  <<a, b>> \in Seq(S) /\ <<a, b>> # <<>> /\ Size(<<a, b>>) = 2 /\ At(<<a, b>>, 1) = b /\ At(<<a, b>>, 2) = a
BY DEF At, Size

LEMMA TripleSeq == ASSUME NEW S, NEW a \in S, NEW b \in S, NEW c \in S PROVE <<a, b, c>> \in Seq(S)
OBVIOUS

-----------------------------------------------------------------------------
(* The lists of accesses. *)
LEMMA SettersSeq ==
    /\ lapic_timer_set_oneshot \in Seq(LapicWrites)
    /\ lapic_timer_set_tsc_deadline \in Seq(Accesses)
    /\ Size(lapic_timer_set_tsc_deadline) = 2
    /\ lapic_timer_set_tsc_deadline # <<>>
    /\ At(lapic_timer_set_tsc_deadline, 1) = InitCnt(0)
    /\ At(lapic_timer_set_tsc_deadline, 2) = Lvt("deadline", FALSE)
    /\ lapic_timer_stop \in Seq(LapicWrites) /\ lapic_timer_stop # <<>> /\ Size(lapic_timer_stop) = 2
    /\ At(lapic_timer_stop, 1) = InitCnt(0) /\ At(lapic_timer_stop, 2) = Lvt("oneshot", TRUE)
    /\ lapic_timer_set_tsc_deadline \in Seq(TscStops) /\ lapic_timer_stop \in Seq(TscStops)
<1>1. InitCnt(0) \in LapicWrites
  BY BoundsAssumption, 0 \in 0 .. MaxCount, Zenon DEF LapicWrites
<1>2. Lvt("oneshot", TRUE) \in LapicWrites /\ Lvt("oneshot", FALSE) \in LapicWrites
  BY Zenon DEF LapicWrites
<1>3. InitCnt(0) \in Accesses /\ Lvt("deadline", FALSE) \in Accesses
  BY <1>1, Zenon DEF Accesses
<1>4. lapic_timer_set_oneshot \in Seq(LapicWrites)
  BY <1>1, <1>2, PairFacts, Zenon DEF lapic_timer_set_oneshot
<1>5. /\ lapic_timer_set_tsc_deadline \in Seq(Accesses)
      /\ Size(lapic_timer_set_tsc_deadline) = 2
      /\ lapic_timer_set_tsc_deadline # <<>>
      /\ At(lapic_timer_set_tsc_deadline, 1) = InitCnt(0)
      /\ At(lapic_timer_set_tsc_deadline, 2) = Lvt("deadline", FALSE)
  <2> DEFINE x == Lvt("deadline", FALSE)
             y == InitCnt(0)
  <2>1. x \in Accesses /\ y \in Accesses
    BY <1>3
  <2>2. lapic_timer_set_tsc_deadline = <<x, y>>
    BY DEF lapic_timer_set_tsc_deadline
  <2> HIDE DEF x, y
  <2>3. /\ <<x, y>> \in Seq(Accesses) /\ <<x, y>> # <<>> /\ Size(<<x, y>>) = 2
        /\ At(<<x, y>>, 1) = y /\ At(<<x, y>>, 2) = x
    BY <2>1 DEF At, Size
  <2> QED BY <2>2, <2>3 DEF x, y
<1>6. /\ lapic_timer_stop \in Seq(LapicWrites) /\ lapic_timer_stop # <<>> /\ Size(lapic_timer_stop) = 2
      /\ At(lapic_timer_stop, 1) = InitCnt(0) /\ At(lapic_timer_stop, 2) = Lvt("oneshot", TRUE)
  <2> DEFINE x == Lvt("oneshot", TRUE)
             y == InitCnt(0)
  <2>1. x \in LapicWrites /\ y \in LapicWrites
    BY <1>1, <1>2
  <2>2. lapic_timer_stop = <<x, y>>
    BY DEF lapic_timer_stop
  <2> HIDE DEF x, y
  <2>3. /\ <<x, y>> \in Seq(LapicWrites) /\ <<x, y>> # <<>> /\ Size(<<x, y>>) = 2
        /\ At(<<x, y>>, 1) = y /\ At(<<x, y>>, 2) = x
    BY <2>1 DEF At, Size
  <2> QED BY <2>2, <2>3 DEF x, y
<1>7. lapic_timer_set_tsc_deadline \in Seq(TscStops) /\ lapic_timer_stop \in Seq(TscStops)
  <2>1. \A x \in TscStops, y \in TscStops : <<x, y>> \in Seq(TscStops)
    OBVIOUS
  <2>2. Lvt("deadline", FALSE) \in TscStops /\ Lvt("oneshot", TRUE) \in TscStops /\ InitCnt(0) \in TscStops
    BY Zenon DEF TscStops, TscWrites
  <2> QED BY <2>1, <2>2, Zenon DEF lapic_timer_set_tsc_deadline, lapic_timer_stop
<1> QED BY <1>4, <1>5, <1>6, <1>7

(* What an access is, told by its register. *)
LEMMA Registers ==
    /\ \A m \in Modes, b \in BOOLEAN :
          /\ Lvt(m, b).reg = "LVT_TIMER"
          /\ Lvt(m, b).value \in [mode : Modes, masked : BOOLEAN]
          /\ Lvt(m, b).value.mode = m /\ Lvt(m, b).value.masked = b
    /\ \A n : InitCnt(n).reg = "TMR_INITCNT" /\ InitCnt(n).value = n
    /\ CurrCnt.reg = "TMR_CURRCNT" /\ Rdtsc.reg = "TSC"
    /\ \A n : TscDeadline(n).reg = "TSC_DEADLINE" /\ TscDeadline(n).value = n
BY DEF Lvt, InitCnt, CurrCnt, Rdtsc, TscDeadline, Modes

LEMMA Regs ==
    /\ \A m, b : Lvt(m, b).reg = "LVT_TIMER"
    /\ \A n : InitCnt(n).reg = "TMR_INITCNT" /\ TscDeadline(n).reg = "TSC_DEADLINE"
    /\ CurrCnt.reg = "TMR_CURRCNT" /\ Rdtsc.reg = "TSC"
BY DEF Lvt, InitCnt, CurrCnt, Rdtsc, TscDeadline

LEMMA OfLvt ==
    ASSUME NEW a \in Accesses, a.reg = "LVT_TIMER"
    PROVE  \E m \in Modes, b \in BOOLEAN : a = Lvt(m, b)
BY Registers DEF Accesses, LapicWrites, Modes

LEMMA OfInitCnt ==
    ASSUME NEW a \in Accesses, a.reg = "TMR_INITCNT"
    PROVE  \E n \in 0 .. MaxCount : a = InitCnt(n)
BY Registers DEF Accesses, LapicWrites, Modes

LEMMA OfDeadline ==
    ASSUME NEW a \in Accesses, a.reg = "TSC_DEADLINE"
    PROVE  \E n \in 0 .. MaxTicks : a = TscDeadline(n)
BY Registers DEF Accesses, LapicWrites, Modes

LEMMA OfLapic ==
    ASSUME NEW a \in LapicAccesses
    PROVE  /\ a \in Accesses /\ a.reg \in {"LVT_TIMER", "TMR_INITCNT", "TMR_CURRCNT"}
           /\ a.reg # "TMR_CURRCNT" => a \in LapicWrites
           /\ a.reg = "LVT_TIMER" => \E b \in BOOLEAN : a = Lvt("oneshot", b)
<1>1. a \in LapicWrites \/ a = CurrCnt
  BY DEF LapicAccesses
<1>2. a \in Accesses
  BY <1>1 DEF Accesses
<1> QED BY <1>1, <1>2, Registers DEF LapicWrites, Modes

-----------------------------------------------------------------------------
(* What a write does to the device. *)
LEMMA WriteFacts ==
    ASSUME InvType, NEW a \in Accesses, Write(a)
    PROVE  /\ lvt' \in [mode : Modes, masked : BOOLEAN]
           /\ count' \in 0 .. MaxCount /\ deadline' \in 0 .. MaxTicks
           /\ lvt'.mode = "deadline" => count' = 0
           /\ lvt'.mode = "oneshot" => deadline' = 0
           /\ a.reg \in {"LVT_TIMER", "TMR_INITCNT"}
           /\ \A m \in Modes, b \in BOOLEAN : a = Lvt(m, b) => lvt'.mode = m /\ lvt'.masked = b
           /\ \A n \in 0 .. MaxCount : a = InitCnt(n) =>
                  lvt' = lvt /\ (lvt.mode = "oneshot" => count' = n)
<1> USE BoundsAssumption
<1>1. a.reg \in {"LVT_TIMER", "TMR_INITCNT"}
  BY DEF Write
<1>2. CASE a.reg = "LVT_TIMER"
  <2>1. PICK m \in Modes, b \in BOOLEAN : a = Lvt(m, b)
    BY <1>2, OfLvt
  <2>2. /\ lvt' = a.value /\ a.value \in [mode : Modes, masked : BOOLEAN]
        /\ a.value.mode = m /\ a.value.masked = b
    BY <1>2, <2>1, Registers DEF Write
  <2>3. IF a.value.mode = lvt.mode THEN count' = count /\ deadline' = deadline
        ELSE count' = 0 /\ deadline' = 0
    BY <1>2 DEF Write
  <2>4. \A n \in 0 .. MaxCount : a # InitCnt(n)
    BY <1>2, Registers
  <2>5. ASSUME NEW k \in Modes, NEW c \in BOOLEAN, a = Lvt(k, c) PROVE k = m /\ c = b
    <3>1. a.value.mode = k /\ a.value.masked = c
      BY <2>5, Registers
    <3> QED BY <2>2, <3>1, Zenon
  <2> QED BY <1>1, <2>2, <2>3, <2>4, <2>5 DEF InvType
<1>3. CASE a.reg = "TMR_INITCNT"
  <2>1. PICK n \in 0 .. MaxCount : a = InitCnt(n)
    BY <1>3, OfInitCnt
  <2>2. /\ a.value = n /\ UNCHANGED <<lvt, deadline>>
        /\ count' = IF lvt.mode = "oneshot" THEN n ELSE count
    BY <1>3, <2>1, Registers DEF Write
  <2>3. \A k \in Modes, c \in BOOLEAN : a # Lvt(k, c)
    BY <1>3, Registers
  <2>4. ASSUME NEW k \in 0 .. MaxCount, a = InitCnt(k) PROVE k = n
    <3>1. a.value = k
      BY <2>4, Registers
    <3> QED BY <2>2, <3>1
  <2> QED BY <1>1, <2>2, <2>3, <2>4 DEF InvType
<1> QED BY <1>1, <1>2, <1>3

LEMMA RaiseFalse ==
    ASSUME InvType, Raise(FALSE)
    PROVE  goal' = goal /\ spent' = spent /\ irr' \in BOOLEAN
BY DEF Raise, InvType

-----------------------------------------------------------------------------
(* Init. *)
LEMMA InitInv == ASSUME Init PROVE IInv
<1> USE BoundsAssumption, NoneAssumption, SourcesAssumption DEF Init
<1>1. InvType
  <2>1. todo \in Seq(Accesses) /\ buffer \in Seq(Accesses)
    OBVIOUS
  <2>2. lvt \in [mode : Modes, masked : BOOLEAN] /\ lvt.mode = "oneshot"
    BY DEF Modes
  <2>3. goal \in 0 .. MaxTicks \cup {None} /\ count \in 0 .. MaxCount /\ deadline \in 0 .. MaxTicks
    OBVIOUS
  <2>4. age \in 0 .. MaxTicks /\ spent \in 0 .. MaxTicks
    OBVIOUS
  <2>5. irr \in BOOLEAN /\ inMode \in BOOLEAN
    BY Zenon
  <2> QED BY <2>1, <2>2, <2>3, <2>4, <2>5 DEF InvType
<1>2. InvLapic /\ InvTsc
  BY DEF InvLapic, InvTsc
<1> QED BY <1>1, <1>2 DEF IInv

(* A new call, by the list of its accesses and what it asks for: on the LAPIC
   source it ends with the LVT and the count, on the other as timer_stop or
   timer_oneshot_ns does. *)
LapicCall(l, w) ==
    /\ l \in Seq(LapicAccesses) /\ Size(l) >= 2
    /\ \E n \in 0 .. MaxCount : At(l, 1) = InitCnt(n) /\ n = IF w = None THEN 0 ELSE w
    /\ \E b \in BOOLEAN : At(l, 2) = Lvt("oneshot", b) /\ (w # None => ~b)

TscCall(l, w) ==
    IF w = None
    THEN l \in Seq(TscStops) /\ Size(l) >= 3 /\ At(l, 3) = TscDeadline(0)
    ELSE /\ Size(l) = 4 /\ At(l, 1) = TscDeadline(w) /\ At(l, 2) = Rdtsc
         /\ At(l, 3) = InitCnt(0) /\ At(l, 4) = Lvt("deadline", FALSE)

LEMMA BeginInv ==
    ASSUME IInv,
           g_src' \in Sources, g_src \in {"NONE", g_src'},
           NEW l \in Seq(Accesses), l # <<>>, NEW w \in 1 .. MaxTicks \cup {None}, Begin(l, w),
           g_src' = "LAPIC" => LapicCall(l, w),
           g_src' = "TSC_DEADLINE" => TscCall(l, w)
    PROVE  IInv'
<1> USE BoundsAssumption, NoneAssumption, SourcesAssumption
<1>1. /\ todo = <<>> /\ todo' = l /\ goal' = w /\ spent' = 0
      /\ age' = age /\ buffer' = buffer /\ lvt' = lvt /\ count' = count
      /\ deadline' = deadline /\ irr' = irr /\ inMode' = (buffer = <<>> /\ lvt = DeadlineMode)
  BY DEF Begin, device
<1>2. InvType /\ InvLapic /\ InvTsc
  BY DEF IInv
<1>3. g_src = "NONE" => buffer = <<>> /\ lvt.mode = "oneshot" /\ lvt.masked /\ count = 0
  BY <1>2 DEF InvType
<1>4. InvType'
  <2>1. g_src' \in {"TSC_DEADLINE", "LAPIC"}
    OBVIOUS
  <2>2. inMode' \in BOOLEAN
    BY <1>1
  <2> QED BY <1>1, <1>2, <2>1, <2>2 DEF InvType
<1>5. InvLapic'
  <2> SUFFICES ASSUME g_src' = "LAPIC" PROVE InvLapic'
    BY DEF InvLapic
  <2>1. lvt'.mode = "oneshot" /\ buffer' \in Seq(LapicWrites)
    BY <1>1, <1>2, <1>3 DEF InvLapic, InvType
  <2>2. LapicCall(todo', goal')
    BY <1>1
  <2>3. PICK n \in 0 .. MaxCount : At(todo', 1) = InitCnt(n) /\ n = IF goal' = None THEN 0 ELSE goal'
    BY <2>2 DEF LapicCall
  <2>4. Fits(n)'
    BY <1>1, <2>3 DEF Fits
  <2>5. Ends(todo)'
    BY <2>2, <2>3, <2>4 DEF LapicCall, Ends, Sets, Opens
  <2>6. todo' \in Seq(LapicAccesses) /\ Size(todo') # 1
    <3>1. todo' \in Seq(LapicAccesses) /\ Size(todo') >= 2
      BY <2>2, Zenon DEF LapicCall
    <3> QED BY <3>1, EmptyLen
  <2>7. todo' # <<>>
    BY <1>1
  <2> QED BY <2>1, <2>5, <2>6, <2>7 DEF InvLapic
<1>6. InvTsc'
  <2> SUFFICES ASSUME g_src' = "TSC_DEADLINE" PROVE InvTsc'
    BY DEF InvTsc
  <2>1. buffer' \in Seq(TscWrites)
    <3>1. CASE g_src = "NONE"
      BY <1>1, <1>3, <3>1, EmptySeq
    <3>2. CASE g_src = "TSC_DEADLINE"
      BY <1>1, <1>2, <3>2 DEF InvTsc
    <3> QED BY <3>1, <3>2
  <2>2. count' = 0 /\ (lvt'.masked <=> lvt'.mode = "oneshot")
    BY <1>1, <1>2, <1>3 DEF InvTsc
  <2>3. TscCall(todo', goal') /\ todo' # <<>>
    BY <1>1
  <2>4. Kept'
    <3> SUFFICES ASSUME inMode', goal' # None PROVE lvt'.mode = "deadline" /\ buffer' \in Seq(SettingWrites)
      BY <2>3 DEF Kept
    <3>1. buffer = <<>> /\ lvt = DeadlineMode
      BY <1>1
    <3> QED BY <1>1, <3>1 DEF DeadlineMode
  <2>5. CASE goal' = None
    <3>1. todo' \in Seq(TscStops) /\ Size(todo') >= 3 /\ At(todo', 3) = TscDeadline(0)
      BY <2>3, <2>5, Zenon DEF TscCall
    <3>2. Size(todo') \in Nat
      BY <3>1, EmptyLen
    <3>3. ~(Size(todo') <= 2)
      BY <3>1, <3>2
    <3>4. Stops'
      BY <3>1, <3>3, Zenon DEF Stops
    <3> QED BY <2>1, <2>2, <2>3, <2>4, <2>5, <3>4 DEF InvTsc
  <2>6. CASE goal' # None
    <3>1. Fits(w)' /\ w \in 1 .. MaxTicks
      BY <1>1, <2>6 DEF Fits
    <3>2. /\ Size(todo') = 4 /\ At(todo', 1) = TscDeadline(w) /\ At(todo', 2) = Rdtsc
          /\ At(todo', 3) = InitCnt(0) /\ At(todo', 4) = Lvt("deadline", FALSE)
      BY <1>1, <2>3, <2>6 DEF TscCall
    <3>3. Size(todo') # 1 /\ Size(todo') <= 4
      BY <3>2
    <3>4. Arms'
      BY <3>1, <3>2, <3>3, Zenon DEF Arms
    <3> QED BY <2>1, <2>2, <2>3, <2>4, <2>6, <3>4 DEF InvTsc
  <2> QED BY <2>5, <2>6
<1>7. AlarmHeld'
  BY <1>1 DEF AlarmHeld, Held, Settled
<1> QED BY <1>4, <1>5, <1>6, <1>7 DEF IInv

(* The lists of timer_stop and timer_oneshot_ns, on either source. *)
LEMMA StopList ==
    /\ lapic_timer_stop \in Seq(Accesses) /\ LapicCall(lapic_timer_stop, None)
    /\ Stop("LAPIC") = lapic_timer_stop
    /\ Stop("TSC_DEADLINE") \in Seq(Accesses) /\ Stop("TSC_DEADLINE") # <<>>
    /\ TscCall(Stop("TSC_DEADLINE"), None)
<1>1. LapicWrites \subseteq Accesses /\ LapicWrites \subseteq LapicAccesses
  BY DEF Accesses, LapicAccesses
<1>2. lapic_timer_stop \in Seq(Accesses) /\ lapic_timer_stop \in Seq(LapicAccesses)
  BY <1>1, SettersSeq
<1>3. LapicCall(lapic_timer_stop, None)
  <2>1. 0 \in 0 .. MaxCount
    BY BoundsAssumption
  <2>2. Size(lapic_timer_stop) >= 2
    BY SettersSeq
  <2>3. \E n \in 0 .. MaxCount : At(lapic_timer_stop, 1) = InitCnt(n) /\ n = IF None = None THEN 0 ELSE None
    BY <2>1, SettersSeq, Zenon
  <2>4. \E b \in BOOLEAN : At(lapic_timer_stop, 2) = Lvt("oneshot", b) /\ (None # None => ~b)
    BY SettersSeq, Zenon
  <2> QED BY <1>2, <2>2, <2>3, <2>4, Zenon DEF LapicCall
<1>4. /\ <<TscDeadline(0)>> \in Seq(Accesses) /\ <<TscDeadline(0)>> \in Seq(TscStops)
      /\ Size(<<TscDeadline(0)>>) = 1 /\ At(<<TscDeadline(0)>>, 1) = TscDeadline(0)
  <2>1. TscDeadline(0) \in Accesses /\ TscDeadline(0) \in TscStops
    BY BoundsAssumption, 0 \in 0 .. MaxTicks, Zenon DEF Accesses, TscStops
  <2> QED BY <2>1 DEF Size, At
<1>5. Stop("TSC_DEADLINE") = <<TscDeadline(0)>> \o lapic_timer_stop
  BY DEF Stop
<1>6. /\ Stop("TSC_DEADLINE") \in Seq(Accesses) /\ Stop("TSC_DEADLINE") # <<>>
      /\ Stop("TSC_DEADLINE") \in Seq(TscStops)
      /\ Size(Stop("TSC_DEADLINE")) = 3 /\ At(Stop("TSC_DEADLINE"), 3) = TscDeadline(0)
  <2> DEFINE one == <<TscDeadline(0)>>
  <2> HIDE DEF one
  <2>1. /\ one \in Seq(Accesses) /\ one \in Seq(TscStops) /\ Size(one) = 1 /\ At(one, 1) = TscDeadline(0)
        /\ Stop("TSC_DEADLINE") = one \o lapic_timer_stop
    BY <1>4, <1>5 DEF one
  <2>2. Size(lapic_timer_stop) = 2 /\ lapic_timer_stop # <<>> /\ lapic_timer_stop \in Seq(TscStops)
    BY SettersSeq
  <2>3. /\ one \o lapic_timer_stop \in Seq(Accesses) /\ one \o lapic_timer_stop # <<>>
        /\ Size(one \o lapic_timer_stop) = Size(one) + Size(lapic_timer_stop)
        /\ \A i \in 1 .. Size(one) :
              At(one \o lapic_timer_stop, Size(lapic_timer_stop) + i) = At(one, i)
    BY <1>2, <2>1, <2>2, ConcatFacts
  <2>4. one \o lapic_timer_stop \in Seq(TscStops)
    BY <2>1, <2>2, ConcatFacts
  <2>5. 1 \in 1 .. Size(one) /\ Size(lapic_timer_stop) + 1 = 3 /\ Size(one) + Size(lapic_timer_stop) = 3
    BY <2>1, <2>2
  <2> QED BY <2>1, <2>3, <2>4, <2>5
<1>7. TscCall(Stop("TSC_DEADLINE"), None)
  BY <1>6, 3 >= 3, Zenon DEF TscCall
<1> QED BY <1>2, <1>3, <1>6, <1>7 DEF Stop

LEMMA OneshotList ==
    ASSUME NEW n \in 1 .. MaxTicks
    PROVE  /\ Oneshot("TSC_DEADLINE", n) \in Seq(Accesses) /\ Oneshot("TSC_DEADLINE", n) # <<>>
           /\ TscCall(Oneshot("TSC_DEADLINE", n), n)
           /\ Oneshot("LAPIC", n) \in Seq(Accesses) /\ Oneshot("LAPIC", n) # <<>>
           /\ LapicCall(Oneshot("LAPIC", n), Least(n, MaxCount))
           /\ Least(n, MaxCount) \in 1 .. MaxTicks
<1> DEFINE c == Least(n, MaxCount)
           s == lapic_timer_set_tsc_deadline
           t == <<Rdtsc, TscDeadline(n)>>
<1>1. c \in 1 .. MaxTicks /\ c \in 0 .. MaxCount
  BY BoundsAssumption DEF Least
<1>2. Rdtsc \in Accesses /\ TscDeadline(n) \in Accesses
  <2>1. n \in 0 .. MaxTicks
    OBVIOUS
  <2> QED BY <2>1, Zenon DEF Accesses
<1>3. t \in Seq(Accesses) /\ t # <<>> /\ Size(t) = 2 /\ At(t, 1) = TscDeadline(n) /\ At(t, 2) = Rdtsc
  BY <1>2, PairFacts
<1>4. Oneshot("TSC_DEADLINE", n) = s \o t
  BY DEF Oneshot
<1> HIDE DEF t, s
<1>5. /\ s \in Seq(Accesses) /\ Size(s) = 2
      /\ At(s, 1) = InitCnt(0) /\ At(s, 2) = Lvt("deadline", FALSE)
  BY SettersSeq DEF s
<1>6. /\ s \o t \in Seq(Accesses) /\ s \o t # <<>> /\ Size(s \o t) = 4
      /\ At(s \o t, 1) = TscDeadline(n) /\ At(s \o t, 2) = Rdtsc
      /\ At(s \o t, 3) = InitCnt(0) /\ At(s \o t, 4) = Lvt("deadline", FALSE)
  <2>1. /\ s \o t \in Seq(Accesses) /\ s \o t # <<>> /\ Size(s \o t) = 4
        /\ At(s \o t, 1) = At(t, 1) /\ At(s \o t, 2) = At(t, 2)
        /\ At(s \o t, 3) = At(s, 1) /\ At(s \o t, 4) = At(s, 2)
    BY <1>3, <1>5, ConcatFour, Zenon
  <2> QED BY <2>1, <1>3, <1>5, Zenon
<1>7. TscCall(s \o t, n)
  <2>1. n # None
    BY NoneAssumption
  <2> QED BY <1>6, <2>1 DEF TscCall
<1> HIDE DEF c
<1>8. Oneshot("LAPIC", n) = <<Lvt("oneshot", FALSE), InitCnt(c)>>
  BY DEF Oneshot, lapic_timer_oneshot, c
<1>9. InitCnt(c) \in LapicWrites /\ Lvt("oneshot", FALSE) \in LapicWrites
  BY <1>1, Zenon DEF LapicWrites
<1>10. LapicWrites \subseteq Accesses /\ LapicWrites \subseteq LapicAccesses
  BY DEF Accesses, LapicAccesses
<1>11. /\ Oneshot("LAPIC", n) \in Seq(Accesses) /\ Oneshot("LAPIC", n) # <<>>
       /\ Oneshot("LAPIC", n) \in Seq(LapicAccesses) /\ Size(Oneshot("LAPIC", n)) = 2
       /\ At(Oneshot("LAPIC", n), 1) = InitCnt(c) /\ At(Oneshot("LAPIC", n), 2) = Lvt("oneshot", FALSE)
  <2> DEFINE l == <<Lvt("oneshot", FALSE), InitCnt(c)>>
  <2>1. /\ l \in Seq(LapicWrites) /\ l # <<>> /\ Size(l) = 2
        /\ At(l, 1) = InitCnt(c) /\ At(l, 2) = Lvt("oneshot", FALSE)
    <3> DEFINE x == Lvt("oneshot", FALSE)
               y == InitCnt(c)
    <3>1. x \in LapicWrites /\ y \in LapicWrites
      BY <1>9
    <3>2. l = <<x, y>>
      OBVIOUS
    <3> HIDE DEF l, x, y
    <3>3. /\ <<x, y>> \in Seq(LapicWrites) /\ <<x, y>> # <<>> /\ Size(<<x, y>>) = 2
          /\ At(<<x, y>>, 1) = y /\ At(<<x, y>>, 2) = x
      BY <3>1 DEF At, Size
    <3> QED BY <3>2, <3>3 DEF x, y
  <2> HIDE DEF l
  <2>2. l \in Seq(Accesses) /\ l \in Seq(LapicAccesses)
    BY <2>1, <1>10
  <2>3. Oneshot("LAPIC", n) = l
    BY <1>8 DEF l
  <2> QED BY <2>1, <2>2, <2>3
<1>12. LapicCall(Oneshot("LAPIC", n), c)
  <2> DEFINE l == Oneshot("LAPIC", n)
  <2>1. c # None
    BY <1>1, NoneAssumption
  <2> HIDE DEF l
  <2>2. /\ l \in Seq(LapicAccesses) /\ Size(l) >= 2
        /\ At(l, 1) = InitCnt(c) /\ At(l, 2) = Lvt("oneshot", FALSE)
    BY <1>11, 2 >= 2, Zenon DEF l
  <2>3. \E i \in 0 .. MaxCount : At(l, 1) = InitCnt(i) /\ i = IF c = None THEN 0 ELSE c
    BY <1>1, <2>1, <2>2, Zenon
  <2>4. \E b \in BOOLEAN : At(l, 2) = Lvt("oneshot", b) /\ (c # None => ~b)
    BY <2>2, Zenon
  <2>5. LapicCall(l, c)
    BY <2>2, <2>3, <2>4, Zenon DEF LapicCall
  <2> QED BY <2>5 DEF l
<1> QED BY <1>1, <1>4, <1>6, <1>7, <1>11, <1>12 DEF c

LEMMA InitList ==
    /\ lapic_timer_set_tsc_deadline \o Stop("TSC_DEADLINE") \in Seq(Accesses)
    /\ lapic_timer_set_tsc_deadline \o Stop("TSC_DEADLINE") # <<>>
    /\ TscCall(lapic_timer_set_tsc_deadline \o Stop("TSC_DEADLINE"), None)
    /\ (lapic_timer_set_oneshot \o lapic_timer_calibrate_tsc) \o Stop("LAPIC") \in Seq(Accesses)
    /\ (lapic_timer_set_oneshot \o lapic_timer_calibrate_tsc) \o Stop("LAPIC") # <<>>
    /\ LapicCall((lapic_timer_set_oneshot \o lapic_timer_calibrate_tsc) \o Stop("LAPIC"), None)
<1> DEFINE d == lapic_timer_set_tsc_deadline \o Stop("TSC_DEADLINE")
           p == lapic_timer_set_oneshot \o lapic_timer_calibrate_tsc
           q == p \o lapic_timer_stop
<1>1. /\ d \in Seq(Accesses) /\ d # <<>> /\ d \in Seq(TscStops)
      /\ Size(d) >= 3 /\ At(d, 3) = TscDeadline(0)
  <2> DEFINE s == lapic_timer_set_tsc_deadline
             t == Stop("TSC_DEADLINE")
  <2>1. /\ t \in Seq(TscStops) /\ Size(t) >= 3 /\ At(t, 3) = TscDeadline(0)
        /\ t \in Seq(Accesses) /\ t # <<>>
    BY StopList DEF TscCall
  <2>2. s \in Seq(Accesses) /\ s \in Seq(TscStops)
    BY SettersSeq
  <2> HIDE DEF s, t
  <2>3. /\ s \o t \in Seq(Accesses) /\ Size(s \o t) = Size(s) + Size(t) /\ s \o t # <<>>
        /\ Size(s) \in Nat /\ Size(t) \in Nat \ {0}
        /\ \A j \in 1 .. Size(t) : At(s \o t, j) = At(t, j)
    BY <2>1, <2>2, ConcatFacts
  <2>4. s \o t \in Seq(TscStops)
    BY <2>1, <2>2, ConcatFacts
  <2>5. Size(s \o t) >= 3 /\ 3 \in 1 .. Size(t)
    BY <2>1, <2>3
  <2> QED BY <2>1, <2>3, <2>4, <2>5 DEF s, t
<1>2. TscCall(d, None)
  BY <1>1, Zenon DEF TscCall
<1>3. p \in Seq(LapicAccesses)
  <2> DEFINE S == LapicAccesses
             e == <<Lvt("oneshot", TRUE), InitCnt(MaxCount), CurrCnt>>
  <2>1. Lvt("oneshot", TRUE) \in S /\ InitCnt(MaxCount) \in S /\ CurrCnt \in S
    BY BoundsAssumption, MaxCount \in 0 .. MaxCount, Zenon DEF LapicWrites, LapicAccesses
  <2>2. lapic_timer_set_oneshot \in Seq(S) /\ lapic_timer_stop \in Seq(S)
    BY SettersSeq DEF LapicAccesses
  <2>3. e \in Seq(S)
    BY <2>1, TripleSeq, Zenon
  <2> HIDE DEF S
  <2>4. lapic_timer_calibrate_tsc = e \o lapic_timer_stop
    BY DEF lapic_timer_calibrate_tsc
  <2> HIDE DEF e
  <2>5. e \o lapic_timer_stop \in Seq(S)
    BY <2>2, <2>3
  <2> QED BY <2>2, <2>4, <2>5 DEF S
<1>4. p \in Seq(Accesses)
  <2>1. LapicAccesses \subseteq Accesses
    BY DEF Accesses, LapicAccesses
  <2> HIDE DEF p
  <2> QED BY <1>3, <2>1
<1> HIDE DEF p
<1>5. q \in Seq(Accesses) /\ q # <<>>
  BY <1>4, SettersSeq, StopList, ConcatFacts
<1>6. /\ q \in Seq(LapicAccesses) /\ Size(q) >= 2
      /\ At(q, 1) = InitCnt(0) /\ At(q, 2) = Lvt("oneshot", TRUE)
  <2>1. lapic_timer_stop \in Seq(LapicAccesses)
    BY StopList DEF LapicCall
  <2>2. /\ lapic_timer_stop # <<>> /\ Size(lapic_timer_stop) = 2
        /\ At(lapic_timer_stop, 1) = InitCnt(0) /\ At(lapic_timer_stop, 2) = Lvt("oneshot", TRUE)
    BY SettersSeq
  <2>3. Size(lapic_timer_stop) >= 2
    BY <2>2
  <2> QED BY <1>3, <2>1, <2>2, <2>3, ConcatTwo, Zenon
<1>7. LapicCall(q, None)
  <2> HIDE DEF q
  <2>1. 0 \in 0 .. MaxCount
    BY BoundsAssumption
  <2>2. \E n \in 0 .. MaxCount : At(q, 1) = InitCnt(n) /\ n = IF None = None THEN 0 ELSE None
    BY <1>6, <2>1, Zenon
  <2>3. \E b \in BOOLEAN : At(q, 2) = Lvt("oneshot", b) /\ (None # None => ~b)
    BY <1>6, Zenon
  <2> QED BY <1>6, <2>2, <2>3, Zenon DEF LapicCall
<1> QED BY <1>1, <1>2, <1>5, <1>7, StopList DEF p

LEMMA CallInv ==
    ASSUME IInv,
           \/ \E src \in Sources : timer_init(src)
           \/ \E n \in 0 .. MaxTicks : timer_oneshot(n)
           \/ timer_stop
    PROVE  IInv'
<1> USE SourcesAssumption, BoundsAssumption
<1>1. ASSUME NEW src \in Sources, timer_init(src) PROVE IInv'
  <2> DEFINE l == (IF src = "TSC_DEADLINE" THEN lapic_timer_set_tsc_deadline
                   ELSE lapic_timer_set_oneshot \o lapic_timer_calibrate_tsc) \o Stop(src)
  <2>1. g_src' = src /\ g_src = "NONE" /\ Begin(l, None)
    BY <1>1 DEF timer_init
  <2>2. src \in {"TSC_DEADLINE", "LAPIC"}
    OBVIOUS
  <2>3. /\ l \in Seq(Accesses) /\ l # <<>>
        /\ src = "LAPIC" => LapicCall(l, None)
        /\ src = "TSC_DEADLINE" => TscCall(l, None)
    <3>1. CASE src = "LAPIC"
      BY <3>1, InitList
    <3>2. CASE src = "TSC_DEADLINE"
      BY <3>2, InitList
    <3> QED BY <2>2, <3>1, <3>2
  <2> HIDE DEF l
  <2> QED BY <2>1, <2>3, BeginInv
<1>2. ASSUME NEW n \in 0 .. MaxTicks, timer_oneshot(n) PROVE IInv'
  <2> DEFINE k == IF n = 0 THEN 1 ELSE n
             w == IF g_src = "LAPIC" THEN Least(k, MaxCount) ELSE k
  <2>1. g_src' = g_src /\ g_src # "NONE" /\ Begin(Oneshot(g_src, k), w)
    BY <1>2 DEF timer_oneshot
  <2>2. k \in 1 .. MaxTicks
    OBVIOUS
  <2>3. g_src \in {"TSC_DEADLINE", "LAPIC"}
    BY <2>1 DEF IInv, InvType
  <2>4. g_src \in Sources
    BY <2>1, <2>3 DEF IInv, InvType
  <2> HIDE DEF k
  <2>5. /\ Oneshot(g_src, k) \in Seq(Accesses) /\ Oneshot(g_src, k) # <<>> /\ w \in 1 .. MaxTicks
        /\ g_src = "LAPIC" => LapicCall(Oneshot(g_src, k), w)
        /\ g_src = "TSC_DEADLINE" => TscCall(Oneshot(g_src, k), w)
    BY <2>2, <2>3, OneshotList
  <2> HIDE DEF w
  <2> QED BY <2>1, <2>4, <2>5, BeginInv
<1>3. CASE timer_stop
  <2>1. g_src' = g_src /\ g_src # "NONE" /\ Begin(Stop(g_src), None)
    BY <1>3 DEF timer_stop
  <2>2. g_src \in {"TSC_DEADLINE", "LAPIC"} /\ g_src \in Sources
    BY <2>1 DEF IInv, InvType
  <2>3. /\ Stop(g_src) \in Seq(Accesses) /\ Stop(g_src) # <<>>
        /\ g_src = "LAPIC" => LapicCall(Stop(g_src), None)
        /\ g_src = "TSC_DEADLINE" => TscCall(Stop(g_src), None)
    BY <2>2, StopList, SettersSeq
  <2> QED BY <2>1, <2>2, <2>3, BeginInv
<1> QED BY <1>1, <1>2, <1>3

-----------------------------------------------------------------------------
(* The device accesses.  What a step takes off todo, and what is left of it. *)
Took == /\ Size(todo) \in Nat \ {0} /\ Access = At(todo, Size(todo)) /\ Access \in Accesses
        /\ todo' \in Seq(Accesses) /\ Size(todo') = Size(todo) - 1
        /\ todo' = <<>> <=> Size(todo) = 1
        /\ \A j \in 1 .. Size(todo) - 1 : At(todo', j) = At(todo, j)
        /\ g_src = "LAPIC" => todo' \in Seq(LapicAccesses) /\ Access \in LapicAccesses
        /\ g_src = "TSC_DEADLINE" /\ goal = None => todo' \in Seq(TscStops) /\ Access \in TscStops

LEMMA TakeFacts ==
    ASSUME IInv, todo # <<>>, todo' = Tail(todo)
    PROVE  Took
<1>1. /\ Size(todo) \in Nat \ {0} /\ Head(todo) = At(todo, Size(todo)) /\ Head(todo) \in Accesses
      /\ todo' \in Seq(Accesses) /\ Size(todo') = Size(todo) - 1
      /\ todo' = <<>> <=> Size(todo) = 1
      /\ \A j \in 1 .. Size(todo) - 1 : At(todo', j) = At(todo, j)
  <2>1. todo \in Seq(Accesses)
    BY DEF IInv, InvType
  <2> QED BY <2>1, TailFacts
<1>2. g_src = "LAPIC" => todo' \in Seq(LapicAccesses) /\ Head(todo) \in LapicAccesses
  <2>1. g_src = "LAPIC" => todo \in Seq(LapicAccesses)
    BY DEF IInv, InvLapic
  <2> QED BY <2>1, TailFacts
<1>3. g_src = "TSC_DEADLINE" /\ goal = None => todo' \in Seq(TscStops) /\ Head(todo) \in TscStops
  <2>1. g_src = "TSC_DEADLINE" /\ goal = None => todo \in Seq(TscStops)
    BY DEF IInv, InvTsc, Stops
  <2> QED BY <2>1, TailFacts
<1> QED BY <1>1, <1>2, <1>3 DEF Took, Access

(* The end of todo after the step. *)
LEMMA TookEnds ==
    ASSUME Took
    PROVE  /\ Size(todo) = 1 => Access = At(todo, 1)
           /\ Size(todo) = 2 => Access = At(todo, 2) /\ Size(todo') = 1
           /\ Size(todo) >= 2 => At(todo', 1) = At(todo, 1)
           /\ Size(todo) >= 3 => At(todo', 2) = At(todo, 2)
           /\ Size(todo) >= 4 => At(todo', 3) = At(todo, 3)
           /\ Size(todo') = 1 => Size(todo) = 2
<1>1. Size(todo) >= 2 => 1 \in 1 .. Size(todo) - 1
  BY DEF Took
<1>2. Size(todo) >= 3 => 2 \in 1 .. Size(todo) - 1
  BY DEF Took
<1>3. Size(todo) >= 4 => 3 \in 1 .. Size(todo) - 1
  BY DEF Took
<1> QED BY <1>1, <1>2, <1>3 DEF Took

(* AlarmHeld says nothing before the last write has arrived. *)
LEMMA HeldUnsettled ==
    ASSUME todo' # <<>> \/ buffer' # <<>> PROVE AlarmHeld'
BY DEF AlarmHeld, Held, Settled

(* The LAPIC source, when its last write has arrived. *)
LEMMA HeldLapic ==
    ASSUME InvType', lvt'.mode = "oneshot", Opened',
           NEW n \in 0 .. MaxCount, count' = n, Fits(n)'
    PROVE  AlarmHeld'
<1>1. Remaining' = IF lvt'.masked THEN 0 ELSE n
  BY DEF Remaining
<1>2. CASE goal' = None
  BY <1>1, <1>2 DEF AlarmHeld, Held, Fits
<1>3. CASE goal' # None
  BY <1>1, <1>3 DEF AlarmHeld, Held, Fits, Opened
<1> QED BY <1>2, <1>3

LEMMA LapicWriteType ==
    ASSUME IInv, LapicWrite
    PROVE  /\ InvType' /\ Took /\ g_src' = g_src /\ g_src \in Sources
           /\ goal' = goal /\ spent' = spent /\ age' = age
           /\ inMode' = inMode /\ buffer' = Append(buffer, Access)
           /\ lvt' = lvt /\ count' = count /\ deadline' = deadline
<1> USE SourcesAssumption
<1>1. InvType /\ Took
  BY TakeFacts DEF IInv, LapicWrite, Advance
<1>2. g_src' = g_src /\ g_src # "NONE" /\ age' = age
  BY <1>1 DEF LapicWrite, Advance, InvType
<1>3. goal' = goal /\ spent' = spent /\ irr' \in BOOLEAN /\ inMode' = inMode
  BY <1>1, RaiseFalse DEF LapicWrite, Raise
<1>4. buffer' = Append(buffer, Access) /\ lvt' = lvt /\ count' = count /\ deadline' = deadline
  BY DEF LapicWrite, device
<1>5. buffer' \in Seq(Accesses)
  BY <1>1, <1>4, AppendFacts DEF InvType, Took
<1> QED BY <1>1, <1>2, <1>3, <1>4, <1>5 DEF InvType, Took

(* On the LAPIC source, the register write being posted. *)
LEMMA LapicPosted ==
    ASSUME IInv, Took, g_src = "LAPIC", g_src' = g_src, goal' = goal, spent' = spent,
           buffer' = Append(buffer, Access), Access \in LapicWrites, todo # <<>>,
           lvt' = lvt
    PROVE  InvLapic' /\ AlarmHeld'
<1>1. /\ lvt.mode = "oneshot" /\ Ends(todo) /\ buffer \in Seq(LapicWrites)
      /\ Size(todo) = 1 => IF buffer = <<>> THEN Opened ELSE Opens(At(buffer, 1))
  BY DEF IInv, InvLapic
<1>2. /\ buffer' \in Seq(LapicWrites) /\ buffer' # <<>> /\ At(buffer', 1) = Access
      /\ Size(buffer') = Size(buffer) + 1 /\ (buffer # <<>> => At(buffer', 2) = At(buffer, 1))
      /\ Size(buffer) \in Nat /\ (buffer = <<>> <=> Size(buffer) = 0)
  BY <1>1, AppendFacts, EmptyLen
<1>3. AlarmHeld' /\ todo' \in Seq(LapicAccesses) /\ lvt'.mode = "oneshot"
  BY <1>1, <1>2, HeldUnsettled DEF Took
<1>4. CASE Size(todo) = 1
  <2>1. todo' = <<>> /\ Sets(Access)
    BY <1>1, <1>4, TookEnds DEF Took, Ends
  <2>2. Sets(At(buffer, 1))'
    BY <1>2, <2>1 DEF Sets, Fits
  <2>3. CASE buffer = <<>>
    <3>1. Opened' /\ Size(buffer') = 1
      BY <1>1, <1>2, <1>4, <2>3 DEF Opened
    <3>2. Ends(buffer)'
      BY <2>2, <3>1 DEF Ends
    <3> QED BY <1>2, <1>3, <2>1, <3>1, <3>2 DEF InvLapic
  <2>4. CASE buffer # <<>>
    <3>1. Opens(At(buffer, 2))' /\ Size(buffer') # 1
      BY <1>1, <1>2, <1>4, <2>4 DEF Opens
    <3>2. Ends(buffer)'
      BY <2>2, <3>1 DEF Ends
    <3> QED BY <1>2, <1>3, <2>1, <3>1, <3>2 DEF InvLapic
  <2> QED BY <2>3, <2>4
<1>5. CASE Size(todo) = 2
  <2>1. todo' # <<>> /\ Size(todo') = 1 /\ Opens(Access) /\ Sets(At(todo, 1)) /\ At(todo', 1) = At(todo, 1)
    BY <1>1, <1>5, TookEnds DEF Took, Ends
  <2>2. Ends(todo)' /\ Opens(At(buffer, 1))'
    BY <1>2, <2>1 DEF Ends, Sets, Opens, Fits
  <2> QED BY <1>2, <1>3, <2>1, <2>2 DEF InvLapic
<1>6. CASE Size(todo) >= 3
  <2>1. /\ todo' # <<>> /\ Size(todo') # 1
        /\ Sets(At(todo, 1)) /\ At(todo', 1) = At(todo, 1)
        /\ Opens(At(todo, 2)) /\ At(todo', 2) = At(todo, 2)
    BY <1>1, <1>6, TookEnds DEF Took, Ends
  <2>2. Ends(todo)'
    BY <2>1 DEF Ends, Sets, Opens, Fits
  <2> QED BY <1>2, <1>3, <2>1, <2>2 DEF InvLapic
<1> QED BY <1>4, <1>5, <1>6 DEF Took

(* On the TSC-deadline source: what is left of timer_stop, and of
   timer_oneshot_ns. *)
LEMMA StopsTakes ==
    ASSUME IInv, Took, todo # <<>>, g_src = "TSC_DEADLINE", goal = None,
           deadline' = 0 \/ (deadline' = deadline /\ Access # TscDeadline(0))
    PROVE  todo' # <<>> => Stops'
<1> SUFFICES ASSUME todo' # <<>> PROVE Stops'
  OBVIOUS
<1>1. /\ Size(todo) >= 3 => At(todo, 3) = TscDeadline(0)
      /\ Size(todo) <= 2 => deadline = 0
  BY Zenon DEF IInv, InvTsc, Stops
<1>2. /\ todo' \in Seq(TscStops) /\ Size(todo) \in Nat \ {0} /\ Size(todo') = Size(todo) - 1
      /\ Access = At(todo, Size(todo))
  BY DEF Took
<1>3. Size(todo') >= 3 => At(todo', 3) = TscDeadline(0)
  <2>1. Size(todo') >= 3 => Size(todo) >= 4 /\ Size(todo) >= 3
    BY <1>2
  <2>2. Size(todo) >= 4 => At(todo', 3) = At(todo, 3)
    BY TookEnds
  <2> QED BY <1>1, <2>1, <2>2, Zenon
<1>4. Size(todo') <= 2 => deadline' = 0
  <2>1. Size(todo) = 3 => Access = TscDeadline(0)
    BY <1>1, <1>2
  <2> QED BY <1>1, <1>2, <2>1
<1> QED BY <1>2, <1>3, <1>4, Zenon DEF Stops

LEMMA ArmsTakes ==
    ASSUME IInv, Took, todo # <<>>, g_src = "TSC_DEADLINE", goal # None
    PROVE  \E n \in 1 .. MaxTicks :
              /\ Fits(n) /\ Size(todo) \in 1 .. 4
              /\ Size(todo) = 1 => /\ Access = TscDeadline(n) /\ todo' = <<>>
                                   /\ age <= spent /\ (goal = 0 \/ goal + age <= n)
              /\ Size(todo) # 1 => todo' # <<>> /\ At(todo', 1) = TscDeadline(n)
              /\ Size(todo) = 2 => Access = Rdtsc /\ Size(todo') = 1
              /\ Size(todo) = 3 => Access = InitCnt(0) /\ Size(todo') = 2 /\ At(todo', 2) = Rdtsc
              /\ Size(todo) = 4 => /\ Access = Lvt("deadline", FALSE) /\ Size(todo') = 3
                                   /\ At(todo', 2) = Rdtsc /\ At(todo', 3) = InitCnt(0)
<1>1. PICK n \in 1 .. MaxTicks :
            /\ Size(todo) <= 4 /\ Fits(n)
            /\ At(todo, 1) = TscDeadline(n)
            /\ Size(todo) >= 2 => At(todo, 2) = Rdtsc
            /\ Size(todo) >= 3 => At(todo, 3) = InitCnt(0)
            /\ Size(todo) = 4 => At(todo, 4) = Lvt("deadline", FALSE)
            /\ Size(todo) = 1 => age <= spent /\ (goal = 0 \/ goal + age <= n)
  BY DEF IInv, InvTsc, Arms
<1>2. /\ Size(todo) \in 1 .. 4 /\ Access = At(todo, Size(todo)) /\ Size(todo') = Size(todo) - 1
      /\ todo' = <<>> <=> Size(todo) = 1
  BY <1>1 DEF Took
<1>3. Size(todo) = 1 => Access = TscDeadline(n) /\ todo' = <<>>
  BY <1>1, <1>2
<1>4. Size(todo) # 1 => todo' # <<>> /\ At(todo', 1) = TscDeadline(n)
  BY <1>1, <1>2, TookEnds
<1>5. Size(todo) = 2 => Access = Rdtsc /\ Size(todo') = 1
  BY <1>1, <1>2
<1>6. Size(todo) = 3 => Access = InitCnt(0) /\ Size(todo') = 2 /\ At(todo', 2) = Rdtsc
  <2>1. Size(todo) = 3 => Size(todo) >= 3 /\ Size(todo) >= 2 /\ Size(todo') = 2
    BY <1>2
  <2> QED BY <1>1, <1>2, <2>1, TookEnds, Zenon
<1>7. Size(todo) = 4 => /\ Access = Lvt("deadline", FALSE) /\ Size(todo') = 3
                        /\ At(todo', 2) = Rdtsc /\ At(todo', 3) = InitCnt(0)
  <2>1. Size(todo) = 4 => Size(todo) >= 4 /\ Size(todo) >= 3 /\ Size(todo) >= 2 /\ Size(todo') = 3
    BY <1>2
  <2>2. Size(todo) = 4 => Access = At(todo, 4)
    BY <1>2
  <2> QED BY <1>1, <2>1, <2>2, TookEnds, Zenon
<1> QED BY <1>1, <1>2, <1>3, <1>4, <1>5, <1>6, <1>7, Zenon

LEMMA TscPosted ==
    ASSUME IInv, Took, g_src = "TSC_DEADLINE", g_src' = g_src,
           goal' = goal, spent' = spent, age' = age, inMode' = inMode,
           buffer' = Append(buffer, Access), todo # <<>>, Access.reg \in {"LVT_TIMER", "TMR_INITCNT"},
           lvt' = lvt, count' = count, deadline' = deadline
    PROVE  InvTsc'
<1>1. /\ buffer \in Seq(TscWrites) /\ Kept
      /\ count = 0 /\ (lvt.masked <=> lvt.mode = "oneshot")
  BY DEF IInv, InvTsc
<1>2. Access # Rdtsc /\ \A n : Access # TscDeadline(n)
  BY Regs
<1>3. CASE goal = None
  <2>1. Access \in TscWrites
    BY <1>2, <1>3 DEF Took, TscStops
  <2>2. buffer' \in Seq(TscWrites)
    BY <1>1, <2>1, AppendFacts
  <2>3. todo' = <<>> => Armed'
    <3>1. Size(todo) = 1 => Size(todo) <= 2
      OBVIOUS
    <3>2. todo' = <<>> => deadline = 0
      BY <1>3, <3>1 DEF IInv, InvTsc, Stops, Took
    <3> QED BY <3>2 DEF Armed
  <2> QED BY <1>1, <1>2, <1>3, <2>2, <2>3, StopsTakes DEF InvTsc, Kept
<1>4. CASE goal # None
  <2>1. PICK n \in 1 .. MaxTicks :
              /\ Fits(n) /\ Size(todo) \in 1 .. 4
              /\ Size(todo) = 1 => Access = TscDeadline(n)
              /\ Size(todo) # 1 => todo' # <<>> /\ At(todo', 1) = TscDeadline(n)
              /\ Size(todo) = 2 => Access = Rdtsc
              /\ Size(todo) = 3 => Access = InitCnt(0) /\ Size(todo') = 2 /\ At(todo', 2) = Rdtsc
              /\ Size(todo) = 4 => /\ Access = Lvt("deadline", FALSE) /\ Size(todo') = 3
                                   /\ At(todo', 2) = Rdtsc /\ At(todo', 3) = InitCnt(0)
    BY <1>4, ArmsTakes, Zenon
  <2>2. Size(todo) \in {3, 4}
    BY <1>2, <2>1
  <2>3. Access \in SettingWrites /\ Access \in TscWrites
    BY <2>1, <2>2, Zenon DEF SettingWrites, TscWrites
  <2>4. buffer' \in Seq(TscWrites) /\ (buffer \in Seq(SettingWrites) => buffer' \in Seq(SettingWrites))
    BY <1>1, <2>3, AppendFacts
  <2>5. todo' # <<>> /\ Size(todo) # 1
    BY <2>1, <2>2
  <2>6. Fits(n)'
    BY <2>1 DEF Fits
  <2>7. Arms'
    <3>1. CASE Size(todo) = 3
      BY <2>1, <2>6, <3>1 DEF Arms
    <3>2. CASE Size(todo) = 4
      BY <2>1, <2>6, <3>2 DEF Arms
    <3> QED BY <2>2, <3>1, <3>2
  <2>8. Kept'
    BY <1>1, <2>4, <2>5 DEF Kept
  <2> QED BY <1>1, <1>4, <2>4, <2>5, <2>7, <2>8 DEF InvTsc
<1> QED BY <1>3, <1>4

LEMMA LapicWriteInv ==
    ASSUME IInv, LapicWrite PROVE IInv'
<1>1. /\ InvType' /\ Took /\ g_src' = g_src /\ g_src \in Sources
      /\ goal' = goal /\ spent' = spent /\ age' = age
      /\ inMode' = inMode /\ buffer' = Append(buffer, Access)
      /\ lvt' = lvt /\ count' = count /\ deadline' = deadline
  BY LapicWriteType
<1>2. todo # <<>> /\ Access.reg \in {"LVT_TIMER", "TMR_INITCNT"}
  BY DEF LapicWrite
<1>3. CASE g_src = "LAPIC"
  <2>1. Access \in LapicWrites
    BY <1>1, <1>2, <1>3, OfLapic DEF Took
  <2>2. InvLapic' /\ AlarmHeld'
    BY <1>1, <1>2, <1>3, <2>1, LapicPosted
  <2> QED BY <1>1, <1>3, <2>2 DEF IInv, InvTsc
<1>4. CASE g_src = "TSC_DEADLINE"
  <2>1. InvTsc'
    BY <1>1, <1>2, <1>4, TscPosted
  <2> QED BY <1>1, <1>4, <2>1 DEF IInv, InvLapic
<1> QED BY <1>1, <1>3, <1>4, SourcesAssumption

(* A posted write arrives. *)
LEMMA LapicDrain ==
    ASSUME IInv, Drain, g_src = "LAPIC" PROVE IInv'
<1> USE SourcesAssumption
<1>1. /\ buffer # <<>> /\ buffer' = Tail(buffer) /\ Write(Head(buffer)) /\ Raise(FALSE)
      /\ g_src' = g_src /\ todo' = todo /\ age' = age
  BY DEF Drain, kernel
<1>2. InvType
  BY DEF IInv
<1>3. inMode' \in BOOLEAN
  BY <1>1, <1>2 DEF Raise, InvType
<1>4. /\ lvt.mode = "oneshot" /\ buffer \in Seq(LapicWrites)
      /\ todo # <<>> => Ends(todo) /\ (Size(todo) = 1 => Opens(At(buffer, 1)))
      /\ todo = <<>> => Ends(buffer) /\ (Size(buffer) = 1 => Opened)
  BY <1>1 DEF IInv, InvLapic
<1>5. /\ Size(buffer) \in Nat \ {0} /\ Head(buffer) = At(buffer, Size(buffer)) /\ Head(buffer) \in LapicWrites
      /\ buffer' \in Seq(LapicWrites) /\ Size(buffer') = Size(buffer) - 1
      /\ buffer' = <<>> <=> Size(buffer) = 1
      /\ \A j \in 1 .. Size(buffer) - 1 : At(buffer', j) = At(buffer, j)
  BY <1>1, <1>4, TailFacts
<1>6. goal' = goal /\ spent' = spent /\ irr' \in BOOLEAN
  BY <1>1, <1>2, RaiseFalse
<1>7. Head(buffer) \in Accesses /\ buffer' \in Seq(Accesses)
  <2>1. LapicWrites \subseteq Accesses
    BY DEF Accesses
  <2> QED BY <1>5, <2>1
<1>8. /\ lvt' \in [mode : Modes, masked : BOOLEAN]
      /\ count' \in 0 .. MaxCount /\ deadline' \in 0 .. MaxTicks
      /\ lvt'.mode = "deadline" => count' = 0
      /\ lvt'.mode = "oneshot" => deadline' = 0
      /\ \A b \in BOOLEAN : Head(buffer) = Lvt("oneshot", b) => lvt'.mode = "oneshot" /\ lvt'.masked = b
      /\ \A n \in 0 .. MaxCount : Head(buffer) = InitCnt(n) => lvt' = lvt /\ count' = n
  BY <1>1, <1>2, <1>4, <1>7, WriteFacts DEF Modes
<1>9. lvt'.mode = "oneshot"
  BY <1>4, <1>5, <1>8 DEF LapicWrites
<1>10. InvType'
  BY <1>1, <1>2, <1>3, <1>6, <1>7, <1>8 DEF InvType
<1>11. todo' \in Seq(LapicAccesses)
  BY <1>1 DEF IInv, InvLapic
<1>12. InvLapic' /\ AlarmHeld'
  <2>1. CASE todo # <<>>
    <3>1. Ends(todo)' /\ todo' # <<>>
      BY <1>1, <1>4, <1>6, <2>1 DEF Ends, Sets, Opens, Fits
    <3>2. Size(todo') = 1 => IF buffer' = <<>> THEN Opened' ELSE Opens(At(buffer, 1))'
      <4> SUFFICES ASSUME Size(todo') = 1
                   PROVE  IF buffer' = <<>> THEN Opened' ELSE Opens(At(buffer, 1))'
        OBVIOUS
      <4>1. Opens(At(buffer, 1))
        BY <1>1, <1>4, <2>1
      <4>2. CASE buffer' = <<>>
        <5>1. Head(buffer) = At(buffer, 1)
          BY <1>5, <4>2
        <5>2. Opened'
          BY <1>6, <1>8, <4>1, <5>1 DEF Opens, Opened
        <5> QED BY <4>2, <5>2
      <4>3. CASE buffer' # <<>>
        <5>1. 1 \in 1 .. Size(buffer) - 1
          BY <1>5, <4>3
        <5>2. At(buffer', 1) = At(buffer, 1)
          BY <1>5, <5>1
        <5> QED BY <1>6, <4>1, <4>3, <5>2 DEF Opens
      <4> QED BY <4>2, <4>3
    <3> QED BY <1>5, <1>9, <1>11, <3>1, <3>2, HeldUnsettled DEF InvLapic
  <2>2. CASE todo = <<>>
    <3>1. Ends(buffer) /\ (Size(buffer) = 1 => Opened) /\ todo' = <<>>
      BY <1>1, <1>4, <2>2
    <3>2. CASE Size(buffer) = 1
      <4>1. buffer' = <<>> /\ Sets(Head(buffer)) /\ Opened
        BY <1>5, <3>1, <3>2 DEF Ends
      <4>2. PICK n \in 0 .. MaxCount : Head(buffer) = InitCnt(n) /\ Fits(n)
        BY <4>1 DEF Sets
      <4>3. lvt' = lvt /\ count' = n
        BY <1>8, <4>2
      <4>4. Opened' /\ Fits(n)'
        BY <1>6, <4>1, <4>2, <4>3 DEF Opened, Fits
      <4>5. AlarmHeld'
        BY <1>9, <1>10, <4>3, <4>4, HeldLapic
      <4> QED BY <1>5, <1>9, <1>11, <3>1, <4>1, <4>5 DEF InvLapic
    <3>3. CASE Size(buffer) # 1
      <4>1. buffer' # <<>> /\ 1 \in 1 .. Size(buffer) - 1 /\ Size(buffer) >= 2
        BY <1>5, <3>3
      <4>2. At(buffer', 1) = At(buffer, 1) /\ Sets(At(buffer, 1)) /\ Opens(At(buffer, 2))
        BY <1>5, <3>1, <4>1 DEF Ends
      <4>3. Size(buffer') = 1 => Opened'
        <5> SUFFICES ASSUME Size(buffer') = 1 PROVE Opened'
          OBVIOUS
        <5>1. Head(buffer) = At(buffer, 2)
          BY <1>5
        <5> QED BY <1>6, <1>8, <4>2, <5>1 DEF Opens, Opened
      <4>4. Size(buffer') >= 2 => At(buffer', 2) = At(buffer, 2)
        BY <1>5
      <4>5. Ends(buffer)'
        BY <1>6, <4>2, <4>4 DEF Ends, Sets, Opens, Fits
      <4> QED BY <1>5, <1>9, <1>11, <3>1, <4>1, <4>3, <4>5, HeldUnsettled DEF InvLapic
    <3> QED BY <3>2, <3>3
  <2> QED BY <2>1, <2>2
<1> QED BY <1>1, <1>10, <1>12 DEF IInv, InvTsc

LEMMA TscDrain ==
    ASSUME IInv, Drain, g_src = "TSC_DEADLINE" PROVE IInv'
<1> DEFINE a == Head(buffer)
<1>1. /\ buffer # <<>> /\ buffer' = Tail(buffer) /\ Write(a)
      /\ g_src' = g_src /\ todo' = todo /\ age' = age
      /\ goal' = goal /\ spent' = spent /\ inMode' = inMode /\ irr' \in BOOLEAN
  BY RaiseFalse DEF Drain, kernel, Raise, IInv
<1>2. /\ InvType /\ buffer \in Seq(TscWrites) /\ Kept
      /\ count = 0 /\ (lvt.masked <=> lvt.mode = "oneshot")
      /\ todo # <<>> => IF goal = None THEN Stops ELSE Arms
      /\ todo = <<>> => Armed
  BY DEF IInv, InvTsc
<1>3. a \in TscWrites /\ buffer' \in Seq(TscWrites)
  BY <1>1, <1>2, TailFacts
<1>4. a \in Accesses /\ buffer' \in Seq(Accesses)
  <2>1. InitCnt(0) \in Accesses
    BY BoundsAssumption, 0 \in 0 .. MaxCount, Zenon DEF Accesses, LapicWrites
  <2>2. TscWrites \subseteq Accesses
    BY <2>1, Zenon DEF TscWrites, Accesses, LapicWrites
  <2> QED BY <1>3, <2>2
<1> HIDE DEF a
<1>5. /\ lvt' \in [mode : Modes, masked : BOOLEAN]
      /\ count' \in 0 .. MaxCount /\ deadline' \in 0 .. MaxTicks
      /\ lvt'.mode = "deadline" => count' = 0
      /\ lvt'.mode = "oneshot" => deadline' = 0
      /\ \A m \in Modes, b \in BOOLEAN : a = Lvt(m, b) => lvt'.mode = m /\ lvt'.masked = b
      /\ \A n \in 0 .. MaxCount : a = InitCnt(n) =>
             lvt' = lvt /\ (lvt.mode = "oneshot" => count' = n)
  BY <1>1, <1>2, <1>4, WriteFacts
<1>6. lvt.mode \in Modes /\ lvt'.mode \in Modes
  BY <1>2, <1>5 DEF InvType
<1>7. /\ a = Lvt("deadline", FALSE) => lvt'.mode = "deadline" /\ ~lvt'.masked
      /\ a = Lvt("oneshot", TRUE) => lvt'.mode = "oneshot" /\ lvt'.masked
  BY <1>5, Zenon DEF Modes
<1>8. a = InitCnt(0) => lvt' = lvt /\ count' = 0
  BY <1>5, <1>6, BoundsAssumption, 0 \in 0 .. MaxCount DEF Modes
<1>9. lvt'.masked <=> lvt'.mode = "oneshot"
  BY <1>2, <1>3, <1>7, <1>8 DEF TscWrites
<1>10. deadline' \in {deadline, 0} /\ (lvt'.mode = lvt.mode => deadline' = deadline)
  BY <1>1 DEF Write
<1>11. count' = 0
  BY <1>1, <1>2, <1>3, <1>8, Registers DEF Write, TscWrites, Modes
<1>12. InvType'
  BY <1>1, <1>2, <1>4, <1>5 DEF InvType
<1>13. Kept'
  <2> SUFFICES ASSUME inMode, goal # None
               PROVE  /\ lvt'.mode = "deadline" /\ buffer' \in Seq(SettingWrites)
                      /\ todo = <<>> => deadline' > 0
    BY <1>1 DEF Kept
  <2>1. lvt.mode = "deadline" /\ buffer \in Seq(SettingWrites) /\ (todo = <<>> => deadline > 0)
    BY <1>2 DEF Kept
  <2>2. a \in SettingWrites /\ buffer' \in Seq(SettingWrites)
    BY <1>1, <2>1, TailFacts DEF a
  <2>3. lvt'.mode = "deadline"
    BY <1>7, <1>8, <2>1, <2>2 DEF SettingWrites
  <2> QED BY <1>10, <2>1, <2>2, <2>3
<1>14. InvTsc'
  <2>1. todo = <<>> => Armed'
    BY <1>1, <1>2, <1>10 DEF Armed, InvType
  <2>2. Stops => Stops'
    <3>1. deadline = 0 => deadline' = 0
      BY <1>10
    <3> QED BY <1>1, <3>1, Zenon DEF Stops
  <2>3. Arms => Arms'
    BY <1>1, Zenon DEF Arms, Fits
  <2> QED BY <1>1, <1>2, <1>3, <1>9, <1>11, <1>13, <2>1, <2>2, <2>3 DEF InvTsc
<1> QED BY <1>1, <1>12, <1>14 DEF IInv, InvLapic

LEMMA DrainInv ==
    ASSUME IInv, Drain PROVE IInv'
<1>1. buffer # <<>>
  BY DEF Drain
<1>2. g_src \in {"LAPIC", "TSC_DEADLINE"}
  BY <1>1, SourcesAssumption DEF IInv, InvType
<1> QED BY <1>2, LapicDrain, TscDrain

(* Neither read is among the last two accesses of a call on the LAPIC source, nor
   of timer_stop. *)
LEMMA ReadInv ==
    ASSUME IInv, LapicRead \/ ReadTsc PROVE IInv'
<1> USE SourcesAssumption, BoundsAssumption
<1>1. /\ InvType /\ todo # <<>> /\ Took /\ Access.reg \in {"TMR_CURRCNT", "TSC"}
      /\ g_src' = g_src /\ buffer' = buffer /\ lvt' = lvt /\ count' = count /\ deadline' = deadline
      /\ goal' = goal /\ spent' = spent /\ inMode' = inMode
  BY TakeFacts, RaiseFalse DEF LapicRead, ReadTsc, Advance, device, asked, Raise, IInv
<1>2. age' = IF Access.reg = "TSC" THEN 0 ELSE age
  BY DEF LapicRead, ReadTsc, Advance
<1>3. irr' \in BOOLEAN
  <2>1. CASE LapicRead
    BY <1>1, <2>1, RaiseFalse DEF LapicRead
  <2>2. CASE ReadTsc
    BY <1>1, <2>2, Zenon DEF ReadTsc, InvType
  <2> QED BY <2>1, <2>2
<1>4. g_src # "NONE"
  BY <1>1 DEF InvType
<1>5. InvType'
  <2>1. age' \in 0 .. MaxTicks
    BY <1>1, <1>2 DEF InvType
  <2> QED BY <1>1, <1>3, <1>4, <2>1 DEF InvType, Took
<1>6. /\ \A n : Access # InitCnt(n)
      /\ \A m \in Modes, b \in BOOLEAN : Access # Lvt(m, b)
      /\ \A n : Access # TscDeadline(n)
  BY <1>1, Registers
<1>7. CASE g_src = "LAPIC"
  <2>1. /\ lvt.mode = "oneshot" /\ Ends(todo) /\ buffer \in Seq(LapicWrites)
    BY <1>1, <1>7 DEF IInv, InvLapic
  <2>2. Size(todo) # 1
    BY <1>1, <1>6, <2>1, TookEnds DEF Ends, Sets
  <2>3. Size(todo) # 2
    BY <1>1, <1>6, <2>1, TookEnds DEF Ends, Opens, Modes
  <2>4. /\ Size(todo) >= 3 /\ todo' # <<>> /\ Size(todo') # 1
        /\ Sets(At(todo, 1)) /\ At(todo', 1) = At(todo, 1)
        /\ Opens(At(todo, 2)) /\ At(todo', 2) = At(todo, 2)
    BY <1>1, <2>1, <2>2, <2>3, TookEnds DEF Took, Ends
  <2>5. Ends(todo)'
    BY <1>1, <2>4 DEF Ends, Sets, Opens, Fits
  <2>6. InvLapic' /\ AlarmHeld'
    BY <1>1, <1>7, <2>1, <2>4, <2>5, HeldUnsettled DEF InvLapic, Took
  <2> QED BY <1>1, <1>5, <1>7, <2>6 DEF IInv, InvTsc
<1>8. CASE g_src = "TSC_DEADLINE"
  <2>1. /\ buffer \in Seq(TscWrites) /\ Kept
        /\ count = 0 /\ (lvt.masked <=> lvt.mode = "oneshot")
    BY <1>8 DEF IInv, InvTsc
  <2>2. CASE goal = None
    <3>1. Access \in TscStops
      BY <1>1, <1>8, <2>2 DEF Took
    <3> QED BY <1>6, <3>1, Zenon DEF TscStops, TscWrites, Modes
  <2>3. CASE goal # None
    <3>1. PICK n \in 1 .. MaxTicks :
                /\ Fits(n) /\ Size(todo) \in 1 .. 4
                /\ Size(todo) = 1 => Access = TscDeadline(n)
                /\ Size(todo) # 1 => todo' # <<>> /\ At(todo', 1) = TscDeadline(n)
                /\ Size(todo) = 2 => Access = Rdtsc /\ Size(todo') = 1
                /\ Size(todo) = 3 => Access = InitCnt(0)
                /\ Size(todo) = 4 => Access = Lvt("deadline", FALSE)
      BY <1>1, <1>8, <2>3, ArmsTakes, Zenon
    <3>2. Size(todo) # 4
      BY <1>6, <3>1, Zenon DEF Modes
    <3>3. Size(todo) = 2
      BY <1>6, <3>1, <3>2
    <3>4. /\ age' = 0 /\ todo' # <<>> /\ Size(todo') = 1 /\ At(todo', 1) = TscDeadline(n)
      BY <1>2, <3>1, <3>3, Registers
    <3>5. Fits(n)' /\ 0 <= spent' /\ (goal' = 0 \/ goal' + 0 <= n)
      BY <1>1, <1>5, <2>3, <3>1 DEF Fits, InvType
    <3>6. Arms'
      BY <3>4, <3>5 DEF Arms
    <3>7. Kept'
      BY <1>1, <2>1, <3>4 DEF Kept
    <3>8. InvTsc'
      BY <1>1, <2>1, <2>3, <3>4, <3>6, <3>7 DEF InvTsc
    <3> QED BY <1>1, <1>5, <1>8, <3>8 DEF IInv, InvLapic
  <2> QED BY <2>2, <2>3
<1> QED BY <1>1, <1>4, <1>7, <1>8 DEF InvType

(* The write that arms the deadline is the last of timer_oneshot_ns; in the other mode
   it is ignored. *)
LEMMA DeadlineInv ==
    ASSUME IInv, WriteDeadline PROVE IInv'
<1> USE SourcesAssumption, BoundsAssumption, NoneAssumption
<1>1. /\ InvType /\ todo # <<>> /\ Took /\ Access.reg = "TSC_DEADLINE"
      /\ g_src' = g_src /\ age' = age /\ buffer' = buffer /\ lvt' = lvt /\ count' = count
  BY TakeFacts DEF WriteDeadline, Advance, IInv
<1>2. PICK v \in 0 .. MaxTicks : Access = TscDeadline(v)
  BY <1>1, OfDeadline DEF Took
<1>3. Access.value = v
  BY <1>2, Registers
<1>4. g_src = "TSC_DEADLINE"
  <2>1. g_src # "LAPIC"
    BY <1>1, OfLapic DEF Took
  <2> QED BY <1>1, <2>1 DEF InvType
<1>5. spent' = spent /\ inMode' = inMode
  BY DEF WriteDeadline, Raise
<1>6. /\ lvt.mode = "deadline" => deadline' = IF v <= age THEN 0 ELSE v - age
      /\ lvt.mode # "deadline" => deadline' = deadline
  BY <1>3 DEF WriteDeadline
<1>7. irr' \in BOOLEAN
  <2>1. \E fires \in BOOLEAN : irr' = (irr \/ fires)
    BY Zenon DEF WriteDeadline, Raise
  <2> QED BY <1>1, <2>1, Zenon DEF InvType
<1>8. goal' \in {goal, None}
  BY DEF WriteDeadline, Raise
<1>9. InvType'
  <2>1. deadline' \in 0 .. MaxTicks /\ (lvt.mode = "oneshot" => deadline' = 0)
    BY <1>1, <1>6 DEF InvType, Modes
  <2>2. goal' \in 0 .. MaxTicks \cup {None}
    BY <1>1, <1>8 DEF InvType
  <2> QED BY <1>1, <1>4, <1>5, <1>7, <2>1, <2>2 DEF InvType, Took
<1>10. /\ buffer \in Seq(TscWrites) /\ Kept
       /\ count = 0 /\ (lvt.masked <=> lvt.mode = "oneshot")
  BY <1>4 DEF IInv, InvTsc
<1>11. CASE goal = None
  <2>1. deadline' = 0
    <3>1. Access = TscDeadline(0)
      <4>1. Access \in TscStops
        BY <1>1, <1>4, <1>11 DEF Took
      <4> QED BY <1>1, <4>1, Regs DEF TscStops, TscWrites
    <3>2. v = 0
      BY <1>3, <3>1, Registers
    <3> QED BY <1>1, <1>6, <3>2 DEF InvType, Modes
  <2>2. goal' = None
    BY <1>8, <1>11
  <2>3. Armed' /\ Kept'
    BY <2>1, <2>2 DEF Armed, Kept
  <2>4. todo' # <<>> => Stops'
    BY <1>1, <1>4, <1>11, <2>1, StopsTakes
  <2>5. InvTsc'
    BY <1>1, <1>10, <2>2, <2>3, <2>4 DEF InvTsc
  <2> QED BY <1>1, <1>4, <1>9, <2>5 DEF IInv, InvLapic
<1>12. CASE goal # None
  <2>1. PICK n \in 1 .. MaxTicks :
              /\ Fits(n) /\ Size(todo) \in 1 .. 4
              /\ Size(todo) = 1 => /\ Access = TscDeadline(n) /\ todo' = <<>>
                                   /\ age <= spent /\ (goal = 0 \/ goal + age <= n)
              /\ Size(todo) = 2 => Access = Rdtsc
              /\ Size(todo) = 3 => Access = InitCnt(0)
              /\ Size(todo) = 4 => Access = Lvt("deadline", FALSE)
    BY <1>1, <1>4, <1>12, ArmsTakes, Zenon
  <2>2. Access # Rdtsc /\ Access # InitCnt(0) /\ Access # Lvt("deadline", FALSE)
    BY <1>1, Regs
  <2>3. Size(todo) = 1
    <3>1. Size(todo) # 4
      BY <2>1, <2>2, Zenon
    <3> QED BY <2>1, <2>2, <3>1
  <2>4. todo' = <<>> /\ Access = TscDeadline(n) /\ (goal = 0 \/ goal + age <= n)
    BY <2>1, <2>3
  <2>5. n = v
    BY <1>3, <2>4, Registers
  <2>6. InForce'
    BY <1>1, <1>4, <2>4 DEF InForce
  <2>7. lvt.mode = "deadline" => goal' = IF n <= age THEN None ELSE goal
    BY <1>3, <1>10, <2>5, <2>6 DEF WriteDeadline, Raise, Late
  <2>8. lvt.mode # "deadline" => deadline' = 0
    BY <1>1, <1>6 DEF InvType, Modes
  <2>9. goal \in 0 .. MaxTicks /\ age \in Nat /\ spent \in Nat /\ n <= goal + spent
    BY <1>1, <1>12, <2>1 DEF InvType, Fits
  <2>10. Armed'
    <3> SUFFICES ASSUME deadline' > 0
                 PROVE  goal' # None /\ goal' <= deadline' /\ deadline' <= goal' + spent'
      BY DEF Armed
    <3>1. lvt.mode = "deadline" /\ ~(n <= age) /\ deadline' = n - age
      BY <1>6, <2>5, <2>8, <2>9
    <3>2. goal' = goal
      BY <2>7, <3>1
    <3>3. goal <= n
      BY <1>12, <2>1 DEF Fits
    <3> QED BY <1>5, <1>12, <2>4, <2>9, <3>1, <3>2, <3>3
  <2>11. Kept'
    <3> SUFFICES ASSUME inMode, goal' # None
                 PROVE  lvt.mode = "deadline" /\ buffer \in Seq(SettingWrites) /\ deadline' > 0
      BY <1>1, <1>5 DEF Kept
    <3>1. lvt.mode = "deadline" /\ buffer \in Seq(SettingWrites)
      BY <1>10, <1>12 DEF Kept
    <3>2. ~(n <= age)
      BY <2>7, <3>1
    <3> QED BY <1>6, <2>5, <2>9, <3>1, <3>2
  <2>12. InvTsc'
    BY <1>1, <1>10, <2>4, <2>10, <2>11 DEF InvTsc
  <2> QED BY <1>1, <1>4, <1>9, <2>12 DEF IInv, InvLapic
<1> QED BY <1>11, <1>12

-----------------------------------------------------------------------------
(* Time goes on. *)
LEMMA TickInv ==
    ASSUME IInv, Tick PROVE IInv'
<1> USE SourcesAssumption, BoundsAssumption, NoneAssumption
<1> DEFINE fires == ~lvt.masked /\ 1 \in {count, deadline}
<1>1. /\ g_src' = g_src /\ todo' = todo /\ buffer' = buffer /\ lvt' = lvt
      /\ age' = Least(age + 1, MaxTicks) /\ count' = Down(count) /\ deadline' = Down(deadline)
      /\ irr' = (irr \/ fires) /\ goal' = IF fires /\ InForce THEN None ELSE Down(goal)
      /\ spent' = IF InForce THEN spent ELSE Least(spent + 1, MaxTicks)
      /\ inMode' = inMode
  BY DEF Tick
<1>2. InvType
  BY DEF IInv
<1>3. /\ age' \in 0 .. MaxTicks /\ spent' \in 0 .. MaxTicks
      /\ count' \in 0 .. MaxCount /\ deadline' \in 0 .. MaxTicks
      /\ count = 0 => count' = 0
      /\ deadline = 0 => deadline' = 0
      /\ goal' \in 0 .. MaxTicks \cup {None}
  BY <1>1, <1>2 DEF InvType, Least, Down
<1>4. InvType'
  <2>1. irr' \in BOOLEAN
    BY <1>1, <1>2, Zenon DEF InvType
  <2>2. lvt'.mode = "deadline" => count' = 0
    BY <1>1, <1>2 DEF InvType, Down
  <2>3. lvt'.mode = "oneshot" => deadline' = 0
    BY <1>1, <1>2 DEF InvType, Down
  <2>4. g_src = "NONE" => count' = 0 /\ goal' = None
    BY <1>1, <1>2, <1>3 DEF InvType, Down
  <2> QED BY <1>1, <1>2, <1>3, <2>1, <2>2, <2>3, <2>4 DEF InvType
<1>5. ASSUME ~InForce
      PROVE  /\ goal' = Down(goal) /\ spent' = Least(spent + 1, MaxTicks)
             /\ goal' = None <=> goal = None
             /\ \A n \in Nat : Fits(n) => Fits(n)'
  <2>1. /\ goal' = Down(goal) /\ spent' = Least(spent + 1, MaxTicks)
        /\ goal' = None <=> goal = None
    BY <1>1, <1>2, <1>5 DEF Down, InvType
  <2>2. ASSUME NEW n \in Nat, Fits(n) PROVE Fits(n)'
    <3>1. CASE goal = None
      BY <2>1, <2>2, <3>1 DEF Fits
    <3>2. CASE goal # None
      <4>1. goal \in 0 .. MaxTicks /\ spent \in 0 .. MaxTicks /\ n \in 1 .. MaxTicks /\ goal <= n /\ n <= goal + spent
        BY <1>2, <2>2, <3>2 DEF Fits, InvType
      <4>2. goal' = IF goal = 0 THEN 0 ELSE goal - 1
        BY <2>1, <3>2, <4>1 DEF Down
      <4>3. goal' <= n /\ n <= goal' + spent'
        BY <2>1, <4>1, <4>2 DEF Least
      <4> QED BY <2>1, <3>2, <4>1, <4>3 DEF Fits
    <3> QED BY <3>1, <3>2
  <2> QED BY <2>1, <2>2
<1>6. ASSUME g_src = "LAPIC" PROVE InvLapic' /\ AlarmHeld'
  <2>1. InForce <=> Settled
    BY <1>6 DEF InForce, Settled
  <2>2. CASE ~Settled
    <3>1. \A a : Sets(a) => \E n \in 0 .. MaxCount : a = InitCnt(n) /\ Fits(n)'
      BY <1>5, <2>1, <2>2 DEF Sets
    <3>2. Opened => Opened'
      BY <1>1, <1>5, <2>1, <2>2 DEF Opened
    <3>3. /\ lvt.mode = "oneshot" /\ todo \in Seq(LapicAccesses) /\ buffer \in Seq(LapicWrites)
          /\ todo # <<>> =>
              /\ Ends(todo)
              /\ Size(todo) = 1 => IF buffer = <<>> THEN Opened ELSE Opens(At(buffer, 1))
          /\ todo = <<>> /\ buffer # <<>> => Ends(buffer) /\ (Size(buffer) = 1 => Opened)
      BY <1>6 DEF IInv, InvLapic
    <3>4. (Ends(todo) => Ends(todo)') /\ (Ends(buffer) => Ends(buffer)')
      BY <1>1, <1>5, <2>1, <2>2, <3>1 DEF Ends, Sets, Opens
    <3>5. Opens(At(buffer, 1)) => Opens(At(buffer, 1))'
      BY <1>1, <1>5, <2>1, <2>2 DEF Opens
    <3>6. InvLapic'
      BY <1>1, <3>2, <3>3, <3>4, <3>5 DEF InvLapic
    <3> QED BY <1>1, <2>2, <3>6 DEF AlarmHeld, Settled
  <2>3. CASE Settled
    <3>1. InvLapic'
      BY <1>1, <2>3 DEF IInv, InvLapic, Settled
    <3>2. IF goal = None THEN Remaining = 0
          ELSE 0 < Remaining /\ goal <= Remaining /\ Remaining <= goal + spent
      BY <1>6, <2>3 DEF IInv, AlarmHeld, Held
    <3>3. Remaining \in Nat /\ Remaining' = Down(Remaining)
      BY <1>1, <1>2 DEF Remaining, Down, InvType
    <3>4. fires <=> Remaining = 1
      BY <1>2 DEF Remaining, InvType, Modes
    <3>5. spent' = spent /\ goal' = IF Remaining = 1 THEN None ELSE Down(goal)
      BY <1>1, <2>1, <2>3, <3>4
    <3>6. CASE goal = None
      <4>1. goal' = None /\ Remaining' = 0
        BY <3>2, <3>3, <3>5, <3>6 DEF Down
      <4> QED BY <3>1, <4>1 DEF AlarmHeld, Held
    <3>7. CASE goal # None
      <4>1. goal \in 0 .. MaxTicks /\ spent \in 0 .. MaxTicks
        BY <1>2, <3>7 DEF InvType
      <4>2. CASE Remaining = 1
        BY <3>1, <3>3, <3>5, <4>2 DEF AlarmHeld, Held, Down
      <4>3. CASE Remaining # 1
        <5>1. Remaining' = Remaining - 1 /\ goal' = IF goal = 0 THEN 0 ELSE goal - 1
          BY <3>2, <3>3, <3>5, <3>7, <4>1, <4>3 DEF Down
        <5>2. goal' # None
          BY <4>1, <5>1
        <5>3. 0 < Remaining' /\ goal' <= Remaining' /\ Remaining' <= goal' + spent'
          BY <3>2, <3>3, <3>5, <3>7, <4>1, <4>3, <5>1
        <5> QED BY <3>1, <5>2, <5>3 DEF AlarmHeld, Held
      <4> QED BY <4>2, <4>3
    <3> QED BY <3>6, <3>7
  <2> QED BY <2>2, <2>3
<1>7. ASSUME g_src = "TSC_DEADLINE" PROVE InvTsc'
  <2>1. /\ buffer \in Seq(TscWrites) /\ Kept
        /\ count = 0 /\ (lvt.masked <=> lvt.mode = "oneshot")
        /\ todo # <<>> => IF goal = None THEN Stops ELSE Arms
        /\ todo = <<>> => Armed
    BY <1>7 DEF IInv, InvTsc
  <2>2. InForce <=> todo = <<>>
    BY <1>7 DEF InForce
  <2>3. goal' # None => goal # None
    BY <1>1 DEF Down
  <2>4. CASE todo # <<>>
    <3>1. /\ goal' = Down(goal) /\ spent' = Least(spent + 1, MaxTicks)
          /\ goal' = None <=> goal = None
          /\ \A n \in Nat : Fits(n) => Fits(n)'
      BY <1>5, <2>2, <2>4
    <3>2. Kept'
      BY <1>1, <2>1, <2>3, <2>4 DEF Kept
    <3>3. CASE goal = None
      <4>1. Stops
        BY <2>1, <2>4, <3>3
      <4>2. Stops'
        BY <1>1, <1>3, <4>1, Zenon DEF Stops
      <4> QED BY <1>1, <1>3, <2>1, <2>4, <3>1, <3>2, <3>3, <4>2 DEF InvTsc
    <3>4. CASE goal # None
      <4>1. PICK n \in 1 .. MaxTicks :
                /\ Size(todo) <= 4 /\ Fits(n)
                /\ At(todo, 1) = TscDeadline(n)
                /\ Size(todo) >= 2 => At(todo, 2) = Rdtsc
                /\ Size(todo) >= 3 => At(todo, 3) = InitCnt(0)
                /\ Size(todo) = 4 => At(todo, 4) = Lvt("deadline", FALSE)
                /\ Size(todo) = 1 => age <= spent /\ (goal = 0 \/ goal + age <= n)
        BY <2>1, <2>4, <3>4 DEF Arms
      <4>2. Fits(n)'
        BY <3>1, <4>1
      <4>3. age <= spent => age' <= spent'
        BY <1>1, <1>2, <3>1 DEF Least, InvType
      <4>4. goal = 0 \/ goal + age <= n => goal' = 0 \/ goal' + age' <= n
        BY <1>1, <1>2, <3>1, <3>4 DEF Least, Down, InvType
      <4>5. Arms'
        BY <1>1, <4>1, <4>2, <4>3, <4>4, Zenon DEF Arms
      <4> QED BY <1>1, <1>3, <2>1, <2>4, <3>1, <3>2, <3>4, <4>5 DEF InvTsc
    <3> QED BY <3>3, <3>4
  <2>5. CASE todo = <<>>
    <3>1. /\ spent' = spent /\ deadline \in Nat /\ spent \in Nat
          /\ deadline > 0 => ~lvt.masked
      BY <1>1, <1>2, <2>1, <2>2, <2>5 DEF InvType
    <3>2. deadline = 1 => goal' = None
      BY <1>1, <2>2, <2>5, <3>1
    <3>3. deadline # 1 => goal' = Down(goal)
      BY <1>1, <2>1
    <3>4. deadline # 1 /\ deadline > 0 => deadline' = deadline - 1 /\ deadline' > 0
      BY <1>1, <1>2, <3>1 DEF Down, InvType
    <3>5. deadline' > 0 => deadline # 1 /\ deadline > 0
      BY <1>1, <1>2, <3>1 DEF Down, InvType
    <3>6. Armed'
      <4> SUFFICES ASSUME deadline' > 0
                   PROVE  goal' # None /\ goal' <= deadline' /\ deadline' <= goal' + spent'
        BY DEF Armed
      <4>1. /\ goal # None /\ goal \in Nat /\ goal <= deadline /\ deadline <= goal + spent
            /\ deadline' = deadline - 1
        BY <1>2, <2>1, <2>5, <3>4, <3>5 DEF Armed, InvType
      <4>2. goal' = IF goal = 0 THEN 0 ELSE goal - 1
        BY <3>3, <3>5, <4>1 DEF Down
      <4>3. goal' # None
        BY <4>1, <4>2
      <4>4. goal' <= deadline' /\ deadline' <= goal' + spent'
        BY <3>1, <3>5, <4>1, <4>2
      <4> QED BY <4>3, <4>4
    <3>7. Kept'
      BY <1>1, <2>1, <2>3, <2>5, <3>2, <3>4 DEF Kept
    <3> QED BY <1>1, <1>3, <2>1, <2>5, <3>6, <3>7 DEF InvTsc
  <2> QED BY <2>4, <2>5
<1> QED BY <1>1, <1>4, <1>6, <1>7 DEF IInv, InvLapic, InvTsc

(* Taking the interrupt, and stuttering, touch irr at most. *)
LEMMA QuietInv ==
    ASSUME IInv, TakeTick \/ UNCHANGED vars PROVE IInv'
<1>1. UNCHANGED <<kernel, buffer, device, asked>>
  BY DEF TakeTick, vars
<1>2. irr' \in BOOLEAN
  <2>1. CASE TakeTick
    BY <2>1, Zenon DEF TakeTick
  <2>2. CASE UNCHANGED vars
    BY <2>2, Zenon DEF vars, IInv, InvType
  <2> QED BY <2>1, <2>2
<1>3. InvType'
  BY <1>1, <1>2 DEF IInv, InvType, kernel, device, asked
<1>4. InvLapic'
  BY <1>1 DEF IInv, InvLapic, kernel, device, asked, Ends, Sets, Opens, Opened, Fits
<1>5. InvTsc'
  BY <1>1, Zenon DEF IInv, InvTsc, kernel, device, asked, Stops, Arms, Armed, Kept, Fits
<1>6. (g_src = "LAPIC" => AlarmHeld)'
  BY <1>1 DEF IInv, AlarmHeld, Held, Settled, Remaining, kernel, device, asked
<1> QED BY <1>3, <1>4, <1>5, <1>6 DEF IInv

LEMMA NextInv ==
    ASSUME IInv, [Next]_vars PROVE IInv'
<1>1. CASE \/ \E src \in Sources : timer_init(src)
           \/ \E n \in 0 .. MaxTicks : timer_oneshot(n)
           \/ timer_stop
  BY <1>1, CallInv
<1>2. CASE LapicWrite
  BY <1>2, LapicWriteInv
<1>3. CASE LapicRead \/ ReadTsc
  BY <1>3, ReadInv
<1>4. CASE WriteDeadline
  BY <1>4, DeadlineInv
<1>5. CASE Drain
  BY <1>5, DrainInv
<1>6. CASE Tick
  BY <1>6, TickInv
<1>7. CASE TakeTick \/ UNCHANGED vars
  BY <1>7, QuietInv
<1> QED BY <1>1, <1>2, <1>3, <1>4, <1>5, <1>6, <1>7 DEF Next, KernelStep

(* timer_oneshot_ns and timer_stop (timer.c:190-227): the device ends up set for
   what was last asked and for nothing else, however long the delay, whatever
   mode and count an earlier call left behind, however many register writes are
   on their way and whenever the older delay runs out; or, if the TSC-deadline
   source's LVT write was to bring the mode back, for nothing at all. *)
THEOREM AlarmIsHeldOrLost == Spec => []HeldOrLost
<1>1. Init => IInv
  BY InitInv
<1>2. IInv /\ [Next]_vars => IInv'
  BY NextInv
<1>3. IInv => HeldOrLost
  BY HeldFollows
<1> QED BY <1>1, <1>2, <1>3, PTL DEF Spec

-----------------------------------------------------------------------------
(* The numbers of ticks no shorter than the time left of a delay in dues. *)
Since(dues) == {n \in Nat : \E p \in dues : p # None /\ p <= n}

Stream == buffer \o todo

(* The writes on their way to the counter of the LAPIC source: each LVT comes
   with its count, and only the calibration sets a count with the timer masked,
   reads it, and stops it; what it sets unmasked is owed, or the last. *)
Orderly(s, owed) ==
    \A i \in 1 .. Len(s) :
        /\ s[i] = Lvt("oneshot", FALSE) =>
              /\ i < Len(s)
              /\ \E n \in 0 .. MaxCount :
                    s[i + 1] = InitCnt(n) /\ (n = 0 \/ n \in owed \/ i + 1 = Len(s))
        /\ s[i] = Lvt("oneshot", TRUE) =>
              /\ i < Len(s)
              /\ \E n \in 0 .. MaxCount :
                    s[i + 1] = InitCnt(n) /\ (n = 0 \/ (i + 2 <= Len(s) /\ s[i + 2] = CurrCnt))
        /\ s[i].reg = "TMR_INITCNT" => i = Len(s) \/ s[i + 1].reg # "TMR_INITCNT"
        /\ s[i] = CurrCnt => i < Len(s) /\ s[i + 1] = Lvt("oneshot", TRUE)

(* The device before the first of them arrives: a counter that runs masked is
   stopped before it is unmasked. *)
Ready(s, owed, masked, cnt) ==
    /\ s # <<>> /\ ~masked /\ cnt > 0 => cnt \in owed
    /\ masked /\ cnt > 0 => s # <<>> /\ s[1] # Lvt("oneshot", FALSE)
    /\ s # <<>> => \A n \in 0 .. MaxCount : s[1] = InitCnt(n) =>
          n = 0 \/ IF masked THEN Len(s) >= 2 /\ s[2] = CurrCnt ELSE n \in owed \/ Len(s) = 1

(* Until the last call has taken effect the device is set for nothing earlier
   than what an older one asked for. *)
OnTime ==
    /\ prior \subseteq 0 .. MaxTicks \cup {None}
    /\ g_src = "LAPIC" => /\ Orderly(Stream, Since(prior))
                          /\ Ready(Stream, Since(prior), lvt.masked, count)
    /\ g_src = "TSC_DEADLINE" => (todo # <<>> /\ deadline > 0 => deadline \in Since(prior))

LEMMA Distinct ==
    /\ \A b \in BOOLEAN : /\ Lvt("oneshot", b).reg = "LVT_TIMER" /\ Lvt("oneshot", b) # CurrCnt
                          /\ \A n : Lvt("oneshot", b) # InitCnt(n)
    /\ \A n : InitCnt(n) # CurrCnt /\ InitCnt(n).reg = "TMR_INITCNT"
    /\ \A m, n : InitCnt(m) = InitCnt(n) => m = n
    /\ Lvt("oneshot", TRUE) # Lvt("oneshot", FALSE)
    /\ CurrCnt.reg = "TMR_CURRCNT"
BY DEF Lvt, InitCnt, CurrCnt

(* Taking the first write off the stream, and what it does to the device. *)
LEMMA OrderlyTail ==
    ASSUME NEW s \in Seq(LapicAccesses), s # <<>>, NEW owed, Orderly(s, owed)
    PROVE  Tail(s) \in Seq(LapicAccesses) /\ Orderly(Tail(s), owed)
<1> DEFINE t == Tail(s)
           m == Len(s)
<1>1. /\ t \in Seq(LapicAccesses) /\ m \in Nat \ {0} /\ Len(t) = m - 1
      /\ \A i \in 1 .. m - 1 : t[i] = s[i + 1]
  OBVIOUS
<1>2. \A i \in 1 .. m - 1 : i + 1 \in 1 .. m
  BY <1>1
<1> HIDE DEF t, m
<1>3. ASSUME NEW i \in 1 .. m - 1, NEW j \in 1 .. m, j = i + 1
      PROVE  /\ t[i] = Lvt("oneshot", FALSE) =>
                /\ i < m - 1
                /\ \E n \in 0 .. MaxCount :
                      t[i + 1] = InitCnt(n) /\ (n = 0 \/ n \in owed \/ i + 1 = m - 1)
             /\ t[i] = Lvt("oneshot", TRUE) =>
                /\ i < m - 1
                /\ \E n \in 0 .. MaxCount :
                      t[i + 1] = InitCnt(n) /\ (n = 0 \/ (i + 2 <= m - 1 /\ t[i + 2] = CurrCnt))
             /\ t[i].reg = "TMR_INITCNT" => i = m - 1 \/ t[i + 1].reg # "TMR_INITCNT"
             /\ t[i] = CurrCnt => i < m - 1 /\ t[i + 1] = Lvt("oneshot", TRUE)
  <2>1. /\ t[i] = s[j] /\ (j < m <=> i < m - 1) /\ (j < m => t[i + 1] = s[j + 1])
        /\ j + 2 <= m <=> i + 2 <= m - 1
        /\ j + 2 <= m => t[i + 2] = s[j + 2]
        /\ i + 1 = m - 1 <=> j + 1 = m
        /\ i = m - 1 <=> j = m
        /\ i < m - 1 \/ i = m - 1
    BY <1>1, <1>3
  <2>2. /\ s[j] = Lvt("oneshot", FALSE) =>
              /\ j < m
              /\ \E n \in 0 .. MaxCount :
                    s[j + 1] = InitCnt(n) /\ (n = 0 \/ n \in owed \/ j + 1 = m)
        /\ s[j] = Lvt("oneshot", TRUE) =>
              /\ j < m
              /\ \E n \in 0 .. MaxCount :
                    s[j + 1] = InitCnt(n) /\ (n = 0 \/ (j + 2 <= m /\ s[j + 2] = CurrCnt))
        /\ s[j].reg = "TMR_INITCNT" => j = m \/ s[j + 1].reg # "TMR_INITCNT"
        /\ s[j] = CurrCnt => j < m /\ s[j + 1] = Lvt("oneshot", TRUE)
    BY DEF Orderly, m
  <2> QED BY <2>1, <2>2, Zenon
<1>4. Orderly(t, owed)
  BY <1>1, <1>2, <1>3 DEF Orderly
<1> QED BY <1>1, <1>4 DEF t

LEMMA FirstArrives ==
    ASSUME NEW s \in Seq(LapicAccesses), s # <<>>, NEW owed, Orderly(s, owed),
           NEW masked \in BOOLEAN, NEW cnt \in Nat, Ready(s, owed, masked, cnt)
    PROVE  /\ \A b \in BOOLEAN : Head(s) = Lvt("oneshot", b) => Ready(Tail(s), owed, b, cnt)
           /\ \A n \in 0 .. MaxCount : Head(s) = InitCnt(n) => Ready(Tail(s), owed, masked, n)
           /\ Head(s) = CurrCnt => Ready(Tail(s), owed, masked, cnt)
<1> DEFINE t == Tail(s)
           m == Len(s)
<1>1. /\ t \in Seq(LapicAccesses) /\ m \in Nat \ {0} /\ Len(t) = m - 1 /\ Head(s) = s[1]
      /\ \A i \in 1 .. m - 1 : t[i] = s[i + 1]
  OBVIOUS
<1> HIDE DEF t
<1>2. t = <<>> <=> m = 1
  <2>1. t = <<>> <=> Size(t) = 0
    BY <1>1, EmptyLen
  <2>2. Size(t) = m - 1
    BY <1>1 DEF Size
  <2> QED BY <1>1, <2>1, <2>2
<1>3. /\ m >= 2 => t[1] = s[2]
      /\ m >= 3 => t[2] = s[3]
      /\ Len(t) >= 2 <=> m >= 3
      /\ Len(t) = 1 <=> m = 2
      /\ m = 1 \/ m >= 2
      /\ m >= 2 => m # 1
      /\ 1 \in 1 .. m
  BY <1>1
<1>4. /\ s[1] = Lvt("oneshot", FALSE) =>
            /\ m >= 2
            /\ \E n \in 0 .. MaxCount : s[2] = InitCnt(n) /\ (n = 0 \/ n \in owed \/ m = 2)
      /\ s[1] = Lvt("oneshot", TRUE) =>
            /\ m >= 2
            /\ \E n \in 0 .. MaxCount : s[2] = InitCnt(n) /\ (n = 0 \/ (m >= 3 /\ s[3] = CurrCnt))
      /\ s[1].reg = "TMR_INITCNT" => m = 1 \/ s[2].reg # "TMR_INITCNT"
      /\ s[1] = CurrCnt => m >= 2 /\ s[2] = Lvt("oneshot", TRUE)
  <2>1. /\ s[1] = Lvt("oneshot", FALSE) =>
              /\ 1 < m
              /\ \E n \in 0 .. MaxCount :
                    s[1 + 1] = InitCnt(n) /\ (n = 0 \/ n \in owed \/ 1 + 1 = m)
        /\ s[1] = Lvt("oneshot", TRUE) =>
              /\ 1 < m
              /\ \E n \in 0 .. MaxCount :
                    s[1 + 1] = InitCnt(n) /\ (n = 0 \/ (1 + 2 <= m /\ s[1 + 2] = CurrCnt))
        /\ s[1].reg = "TMR_INITCNT" => 1 = m \/ s[1 + 1].reg # "TMR_INITCNT"
        /\ s[1] = CurrCnt => 1 < m /\ s[1 + 1] = Lvt("oneshot", TRUE)
    BY <1>3 DEF Orderly, m
  <2>2. 1 + 1 = 2 /\ 1 + 2 = 3 /\ (1 < m <=> m >= 2) /\ (3 <= m <=> m >= 3)
    BY <1>1
  <2> HIDE DEF m
  <2> QED BY <2>1, <2>2
<1>5. /\ ~masked /\ cnt > 0 => cnt \in owed
      /\ masked /\ cnt > 0 => s[1] # Lvt("oneshot", FALSE)
      /\ \A n \in 0 .. MaxCount : s[1] = InitCnt(n) =>
            n = 0 \/ IF masked THEN m >= 2 /\ s[2] = CurrCnt ELSE n \in owed \/ m = 1
  BY DEF Ready
<1> HIDE DEF m
<1>6. ASSUME s[1] = Lvt("oneshot", FALSE) PROVE Ready(t, owed, FALSE, cnt)
  BY <1>2, <1>3, <1>4, <1>5, <1>6, Distinct DEF Ready
<1>7. ASSUME s[1] = Lvt("oneshot", TRUE) PROVE Ready(t, owed, TRUE, cnt)
  <2>1. PICK n \in 0 .. MaxCount : s[2] = InitCnt(n) /\ (n = 0 \/ (m >= 3 /\ s[3] = CurrCnt))
    BY <1>4, <1>7
  <2>2. t # <<>> /\ t[1] = InitCnt(n) /\ (n = 0 \/ (Len(t) >= 2 /\ t[2] = CurrCnt))
    BY <1>2, <1>3, <1>4, <1>7, <2>1
  <2>3. t[1] # Lvt("oneshot", FALSE) /\ \A k : t[1] = InitCnt(k) => k = n
    BY <2>2, Distinct, Zenon
  <2> QED BY <2>2, <2>3 DEF Ready
<1>8. ASSUME NEW n \in 0 .. MaxCount, s[1] = InitCnt(n) PROVE Ready(t, owed, masked, n)
  <2>1. m = 1 \/ s[2].reg # "TMR_INITCNT"
    BY <1>4, <1>8, Distinct
  <2>2. n = 0 \/ IF masked THEN m >= 2 /\ s[2] = CurrCnt ELSE n \in owed \/ m = 1
    BY <1>5, <1>8
  <2>3. t # <<>> => t[1].reg # "TMR_INITCNT"
    BY <1>2, <1>3, <2>1
  <2>4. t # <<>> => \A k : t[1] # InitCnt(k)
    BY <2>3, Distinct, Zenon
  <2>5. masked /\ n > 0 => t # <<>> /\ t[1] = CurrCnt
    BY <1>2, <1>3, <2>2
  <2>6. masked /\ n > 0 => t # <<>> /\ t[1] # Lvt("oneshot", FALSE)
    BY <2>5, Distinct, Zenon
  <2>7. t # <<>> /\ ~masked /\ n > 0 => n \in owed
    BY <1>2, <2>2
  <2> QED BY <2>4, <2>6, <2>7 DEF Ready
<1>9. ASSUME s[1] = CurrCnt PROVE Ready(t, owed, masked, cnt)
  <2>1. t # <<>> /\ t[1] = Lvt("oneshot", TRUE)
    <3>1. m >= 2 /\ s[2] = Lvt("oneshot", TRUE)
      BY <1>4, <1>9, Zenon
    <3>2. m # 1 /\ t[1] = s[2]
      BY <1>3, <3>1, Zenon
    <3> QED BY <1>2, <3>1, <3>2
  <2>2. t[1] # Lvt("oneshot", FALSE) /\ \A k : t[1] # InitCnt(k)
    BY <2>1, Distinct, Zenon
  <2> QED BY <1>5, <2>1, <2>2 DEF Ready
<1> QED BY <1>1, <1>6, <1>7, <1>8, <1>9 DEF t

(* More is owed, or all of it sooner. *)
LEMMA OrderlyGrows ==
    ASSUME NEW s \in Seq(LapicAccesses), NEW owed, NEW more, Orderly(s, owed),
           \A n \in 0 .. MaxCount : n \in owed => n \in more
    PROVE  Orderly(s, more)
BY DEF Orderly

LEMMA ReadyGrows ==
    ASSUME NEW s \in Seq(LapicAccesses), NEW owed, NEW more,
           NEW masked \in BOOLEAN, NEW cnt \in 0 .. MaxCount, Ready(s, owed, masked, cnt),
           \A n \in 0 .. MaxCount : n \in owed => n \in more
    PROVE  Ready(s, more, masked, cnt)
BY DEF Ready

LEMMA ReadyTicks ==
    ASSUME NEW s \in Seq(LapicAccesses), NEW owed, NEW more,
           NEW masked \in BOOLEAN, NEW cnt \in 0 .. MaxCount, Ready(s, owed, masked, cnt),
           \A n \in Nat : n \in owed => n \in more /\ (n > 0 => n - 1 \in more)
    PROVE  Ready(s, more, masked, Down(cnt))
<1>1. cnt \in Nat /\ cnt # None /\ (cnt = 0 => Down(cnt) = 0) /\ (cnt > 0 => Down(cnt) = cnt - 1)
  BY BoundsAssumption, NoneAssumption DEF Down
<1>2. Down(cnt) \in Nat /\ (Down(cnt) > 0 => cnt > 0 /\ Down(cnt) = cnt - 1)
  BY <1>1
<1>3. s # <<>> /\ ~masked /\ Down(cnt) > 0 => Down(cnt) \in more
  <2>1. s # <<>> /\ ~masked /\ cnt > 0 => cnt \in owed
    BY DEF Ready
  <2> QED BY <1>1, <1>2, <2>1
<1>4. masked /\ Down(cnt) > 0 => s # <<>> /\ s[1] # Lvt("oneshot", FALSE)
  BY <1>2 DEF Ready
<1>5. s # <<>> => \A n \in 0 .. MaxCount : s[1] = InitCnt(n) =>
          n = 0 \/ IF masked THEN Len(s) >= 2 /\ s[2] = CurrCnt ELSE n \in more \/ Len(s) = 1
  <2>1. \A n \in 0 .. MaxCount : n \in owed => n \in more
    BY BoundsAssumption
  <2> QED BY <2>1 DEF Ready
<1> QED BY <1>3, <1>4, <1>5 DEF Ready

(* A call's writes come behind those on their way, whose last is then owed. *)
LEMMA OrderlyJoins ==
    ASSUME NEW s \in Seq(LapicAccesses), NEW l \in Seq(LapicAccesses), l # <<>>,
           NEW owed, Orderly(s, owed), Orderly(l, owed), l[1].reg = "LVT_TIMER",
           s # <<>> => \E n \in 0 .. MaxCount : s[Len(s)] = InitCnt(n) /\ (n = 0 \/ n \in owed)
    PROVE  Orderly(s \o l, owed)
<1> DEFINE j == s \o l
           a == Len(s)
           b == Len(l)
<1>1. /\ a \in Nat /\ b \in Nat \ {0} /\ Len(j) = a + b
      /\ \A i \in 1 .. a : j[i] = s[i]
      /\ \A i \in a + 1 .. a + b : j[i] = l[i - a]
  <2>1. b # 0
    BY EmptyLen DEF Size
  <2> QED BY <2>1, ConcatProperties
<1>2. a > 0 => \E n \in 0 .. MaxCount : s[a] = InitCnt(n) /\ (n = 0 \/ n \in owed)
  <2>1. a > 0 => s # <<>>
    BY EmptyLen DEF Size
  <2> QED BY <2>1
<1> HIDE DEF j
<1> SUFFICES ASSUME NEW i \in 1 .. a + b
             PROVE  /\ j[i] = Lvt("oneshot", FALSE) =>
                       /\ i < a + b
                       /\ \E n \in 0 .. MaxCount :
                            j[i + 1] = InitCnt(n) /\ (n = 0 \/ n \in owed \/ i + 1 = a + b)
                    /\ j[i] = Lvt("oneshot", TRUE) =>
                       /\ i < a + b
                       /\ \E n \in 0 .. MaxCount :
                            /\ j[i + 1] = InitCnt(n)
                            /\ n = 0 \/ (i + 2 <= a + b /\ j[i + 2] = CurrCnt)
                    /\ j[i].reg = "TMR_INITCNT" => i = a + b \/ j[i + 1].reg # "TMR_INITCNT"
                    /\ j[i] = CurrCnt => i < a + b /\ j[i + 1] = Lvt("oneshot", TRUE)
  BY <1>1, Zenon DEF Orderly, j
<1>3. CASE i \in 1 .. a
  <2>1. /\ s[i] = Lvt("oneshot", FALSE) =>
              /\ i < a
              /\ \E n \in 0 .. MaxCount :
                    s[i + 1] = InitCnt(n) /\ (n = 0 \/ n \in owed \/ i + 1 = a)
        /\ s[i] = Lvt("oneshot", TRUE) =>
              /\ i < a
              /\ \E n \in 0 .. MaxCount :
                    s[i + 1] = InitCnt(n) /\ (n = 0 \/ (i + 2 <= a /\ s[i + 2] = CurrCnt))
        /\ s[i].reg = "TMR_INITCNT" => i = a \/ s[i + 1].reg # "TMR_INITCNT"
        /\ s[i] = CurrCnt => i < a /\ s[i + 1] = Lvt("oneshot", TRUE)
    BY <1>3 DEF Orderly, a
  <2> HIDE DEF a, b
  <2>2. /\ j[i] = s[i] /\ i < a + b
        /\ i < a => j[i + 1] = s[i + 1]
        /\ i + 2 <= a => j[i + 2] = s[i + 2] /\ i + 2 <= a + b
        /\ i = a => j[i + 1] = l[1]
    <3>1. a \in Nat /\ b \in Nat /\ b >= 1 /\ i \in Nat /\ i >= 1 /\ i <= a
      BY <1>1, <1>3
    <3>2. j[i] = s[i]
      BY <1>1, <1>3
    <3>3. i < a + b /\ (i + 2 <= a => i + 2 <= a + b)
      BY <3>1
    <3>4. i < a => j[i + 1] = s[i + 1]
      <4>1. i < a => i + 1 \in 1 .. a
        BY <3>1
      <4> QED BY <1>1, <4>1
    <3>5. i + 2 <= a => j[i + 2] = s[i + 2]
      <4>1. i + 2 <= a => i + 2 \in 1 .. a
        BY <3>1
      <4> QED BY <1>1, <4>1
    <3>6. i = a => j[i + 1] = l[1]
      <4>1. i = a => i + 1 \in a + 1 .. a + b /\ (i + 1) - a = 1
        BY <3>1
      <4> QED BY <1>1, <4>1
    <3> QED BY <3>2, <3>3, <3>4, <3>5, <3>6
  <2>3. i + 1 = a => \E n \in 0 .. MaxCount : s[i + 1] = InitCnt(n) /\ (n = 0 \/ n \in owed)
    BY <1>1, <1>2, <1>3
  <2>4. ASSUME j[i] = Lvt("oneshot", FALSE)
        PROVE  \E n \in 0 .. MaxCount : j[i + 1] = InitCnt(n) /\ (n = 0 \/ n \in owed)
    BY <2>1, <2>2, <2>3, <2>4, Zenon
  <2>5. j[i].reg = "TMR_INITCNT" => j[i + 1].reg # "TMR_INITCNT"
    <3>1. i = a => l[1].reg # "TMR_INITCNT"
      BY Zenon
    <3>2. i = a \/ i < a
      BY <1>1, <1>3
    <3> QED BY <2>1, <2>2, <3>1, <3>2
  <2>6. ASSUME j[i] = Lvt("oneshot", TRUE)
        PROVE  \E n \in 0 .. MaxCount :
                  j[i + 1] = InitCnt(n) /\ (n = 0 \/ (i + 2 <= a + b /\ j[i + 2] = CurrCnt))
    BY <2>1, <2>2, <2>6, Zenon
  <2>7. j[i] = CurrCnt => j[i + 1] = Lvt("oneshot", TRUE)
    BY <2>1, <2>2, Zenon
  <2> QED BY <2>2, <2>4, <2>5, <2>6, <2>7, Zenon
<1>4. CASE i \in a + 1 .. a + b
  <2> DEFINE k == i - a
  <2>1. k \in 1 .. b
    BY <1>1, <1>4
  <2>2. /\ l[k] = Lvt("oneshot", FALSE) =>
              /\ k < b
              /\ \E n \in 0 .. MaxCount :
                    l[k + 1] = InitCnt(n) /\ (n = 0 \/ n \in owed \/ k + 1 = b)
        /\ l[k] = Lvt("oneshot", TRUE) =>
              /\ k < b
              /\ \E n \in 0 .. MaxCount :
                    l[k + 1] = InitCnt(n) /\ (n = 0 \/ (k + 2 <= b /\ l[k + 2] = CurrCnt))
        /\ l[k].reg = "TMR_INITCNT" => k = b \/ l[k + 1].reg # "TMR_INITCNT"
        /\ l[k] = CurrCnt => k < b /\ l[k + 1] = Lvt("oneshot", TRUE)
    <3> HIDE DEF k
    <3> QED BY <2>1 DEF Orderly, b
  <2> HIDE DEF a, b
  <2>3. /\ j[i] = l[k]
        /\ k < b <=> i < a + b
        /\ k < b => j[i + 1] = l[k + 1]
        /\ k + 1 = b <=> i + 1 = a + b
        /\ k + 2 <= b <=> i + 2 <= a + b
        /\ k + 2 <= b => j[i + 2] = l[k + 2]
        /\ k = b <=> i = a + b
        /\ k < b \/ k = b
    <3>1. /\ a \in Nat /\ b \in Nat /\ i \in Nat /\ k \in Nat /\ i = a + k
          /\ k >= 1 /\ k <= b
      BY <1>1, <1>4
    <3>2. j[i] = l[k]
      BY <1>1, <1>4
    <3> HIDE DEF k
    <3>3. /\ k < b <=> i < a + b
          /\ k + 1 = b <=> i + 1 = a + b
          /\ k + 2 <= b <=> i + 2 <= a + b
          /\ k = b <=> i = a + b
          /\ k < b \/ k = b
      BY <3>1
    <3>4. k < b => j[i + 1] = l[k + 1]
      <4>1. k < b => i + 1 \in a + 1 .. a + b /\ (i + 1) - a = k + 1
        BY <3>1
      <4> QED BY <1>1, <4>1
    <3>5. k + 2 <= b => j[i + 2] = l[k + 2]
      <4>1. k + 2 <= b => i + 2 \in a + 1 .. a + b /\ (i + 2) - a = k + 2
        BY <3>1
      <4> QED BY <1>1, <4>1
    <3> QED BY <3>2, <3>3, <3>4, <3>5
  <2> HIDE DEF k
  <2> QED BY <2>2, <2>3, Zenon
<1>5. i \in 1 .. a \/ i \in a + 1 .. a + b
  <2> HIDE DEF a, b
  <2> QED BY <1>1
<1> QED BY <1>3, <1>4, <1>5, Zenon

LEMMA ReadyJoins ==
    ASSUME NEW s \in Seq(LapicAccesses), NEW l \in Seq(LapicAccesses), l # <<>>,
           NEW owed, l[1].reg = "LVT_TIMER",
           NEW masked \in BOOLEAN, NEW cnt \in 0 .. MaxCount, Ready(s, owed, masked, cnt),
           s = <<>> /\ ~masked /\ cnt > 0 => cnt \in owed,
           s # <<>> => \E n \in 0 .. MaxCount : s[Len(s)] = InitCnt(n) /\ (n = 0 \/ n \in owed)
    PROVE  Ready(s \o l, owed, masked, cnt)
<1> DEFINE j == s \o l
           a == Len(s)
           b == Len(l)
<1>1. /\ a \in Nat /\ b \in Nat \ {0} /\ Len(j) = a + b /\ j # <<>>
      /\ (s = <<>> <=> a = 0)
      /\ \A i \in 1 .. a : j[i] = s[i]
      /\ \A i \in a + 1 .. a + b : j[i] = l[i - a]
  <2>1. b # 0 /\ (s = <<>> <=> a = 0)
    BY EmptyLen DEF Size
  <2> QED BY <2>1, ConcatProperties, ConcatEqualIffEmpty
<1> HIDE DEF j
<1>2. CASE s = <<>>
  <2>1. j[1] = l[1]
    BY <1>1, <1>2
  <2>2. masked /\ cnt > 0 => FALSE
    BY <1>2 DEF Ready
  <2>3. \A n : j[1] # InitCnt(n)
    BY <2>1, Distinct
  <2> QED BY <1>1, <1>2, <2>2, <2>3 DEF Ready, j
<1>3. CASE s # <<>>
  <2>1. j[1] = s[1] /\ (a >= 2 => j[2] = s[2] /\ a + b >= 2)
    BY <1>1, <1>3
  <2>2. /\ ~masked /\ cnt > 0 => cnt \in owed
        /\ masked /\ cnt > 0 => s[1] # Lvt("oneshot", FALSE)
        /\ \A n \in 0 .. MaxCount : s[1] = InitCnt(n) =>
             n = 0 \/ IF masked THEN a >= 2 /\ s[2] = CurrCnt ELSE n \in owed \/ a = 1
    BY <1>3 DEF Ready
  <2>3. PICK m \in 0 .. MaxCount : s[a] = InitCnt(m) /\ (m = 0 \/ m \in owed)
    BY <1>3
  <2>4. ASSUME a = 1, NEW n \in 0 .. MaxCount, s[1] = InitCnt(n) PROVE n = 0 \/ n \in owed
    BY <2>3, <2>4, Distinct
  <2> HIDE DEF a, b
  <2>5. ASSUME NEW n \in 0 .. MaxCount, j[1] = InitCnt(n)
        PROVE  n = 0 \/ IF masked THEN a + b >= 2 /\ j[2] = CurrCnt ELSE n \in owed
    BY <2>1, <2>2, <2>4, <2>5, Zenon
  <2> QED BY <1>1, <2>1, <2>2, <2>5 DEF Ready, j
<1> QED BY <1>2, <1>3

-----------------------------------------------------------------------------
(* One access leaves the stream. *)
LEMMA StreamFacts ==
    ASSUME InvType, InvLapic, g_src = "LAPIC"
    PROVE  /\ lvt.mode = "oneshot" /\ lvt.masked \in BOOLEAN /\ count \in 0 .. MaxCount
           /\ todo \in Seq(LapicAccesses) /\ buffer \in Seq(LapicAccesses)
           /\ Stream \in Seq(LapicAccesses)
           /\ Stream = <<>> <=> Settled
<1>1. /\ todo \in Seq(LapicAccesses) /\ buffer \in Seq(LapicWrites) /\ lvt.mode = "oneshot"
      /\ LapicWrites \subseteq LapicAccesses
  BY DEF InvLapic, LapicAccesses
<1>2. buffer \in Seq(LapicAccesses)
  BY <1>1
<1>3. Stream \in Seq(LapicAccesses) /\ (Stream = <<>> <=> buffer = <<>> /\ todo = <<>>)
  BY <1>1, <1>2, ConcatProperties, ConcatEqualIffEmpty DEF Stream
<1> QED BY <1>1, <1>2, <1>3 DEF InvType, Settled

LEMMA OrderlyEmpty ==
    ASSUME NEW owed, NEW more, NEW masked \in BOOLEAN, NEW cnt \in Nat, Ready(<<>>, owed, masked, cnt)
    PROVE  Orderly(<<>>, more) /\ Ready(<<>>, more, masked, cnt)
BY DEF Orderly, Ready

LEMMA StreamTakes ==
    ASSUME InvType, InvLapic, g_src = "LAPIC", Stream # <<>>,
           Orderly(Stream, Since(prior)), Ready(Stream, Since(prior), lvt.masked, count),
           InvType', InvLapic', g_src' = "LAPIC", Stream' = Tail(Stream),
           prior' = IF Settled' THEN {} ELSE prior,
           \/ Write(Head(Stream))
           \/ Head(Stream) = CurrCnt /\ UNCHANGED <<lvt, count>>
    PROVE  Orderly(Stream', Since(prior')) /\ Ready(Stream', Since(prior'), lvt'.masked, count')
<1> DEFINE a == Head(Stream)
           due == Since(prior)
<1>1. /\ lvt.mode = "oneshot" /\ lvt.masked \in BOOLEAN /\ count \in 0 .. MaxCount
      /\ Stream \in Seq(LapicAccesses) /\ a \in LapicAccesses /\ a \in Accesses
  <2>1. Stream \in Seq(LapicAccesses) /\ a \in LapicAccesses
    BY StreamFacts, TailFacts
  <2> QED BY <2>1, StreamFacts, OfLapic
<1>2. lvt'.masked \in BOOLEAN /\ count' \in 0 .. MaxCount /\ (Stream' = <<>> <=> Settled')
  <2>1. lvt'.masked \in BOOLEAN /\ count' \in 0 .. MaxCount
    BY DEF InvType
  <2>2. Stream' = <<>> <=> Settled'
    <3>1. todo' \in Seq(LapicAccesses) /\ buffer' \in Seq(LapicWrites)
      BY DEF InvLapic
    <3>2. buffer' \in Seq(LapicAccesses)
      BY <3>1 DEF LapicAccesses
    <3>3. buffer' \o todo' = <<>> <=> buffer' = <<>> /\ todo' = <<>>
      BY <3>1, <3>2, ConcatEqualIffEmpty
    <3> QED BY <3>3 DEF Stream, Settled
  <2> QED BY <2>1, <2>2
<1> HIDE DEF due
<1>3. Orderly(Stream', due)
  BY <1>1, OrderlyTail DEF due
<1>4. /\ \A b \in BOOLEAN : a = Lvt("oneshot", b) => Ready(Stream', due, b, count)
      /\ \A n \in 0 .. MaxCount : a = InitCnt(n) => Ready(Stream', due, lvt.masked, n)
      /\ a = CurrCnt => Ready(Stream', due, lvt.masked, count)
  BY <1>1, FirstArrives, BoundsAssumption DEF due
<1> HIDE DEF a
<1>5. Ready(Stream', due, lvt'.masked, count')
  <2>1. CASE a = CurrCnt /\ UNCHANGED <<lvt, count>>
    BY <1>4, <2>1
  <2>2. CASE Write(a)
    <3>1. a.reg \in {"LVT_TIMER", "TMR_INITCNT"}
      BY <2>2 DEF Write
    <3>2. ASSUME NEW b \in BOOLEAN, a = Lvt("oneshot", b) PROVE lvt'.masked = b /\ count' = count
      BY <1>1, <2>2, <3>2, Registers DEF Write, Lvt
    <3>3. ASSUME NEW n \in 0 .. MaxCount, a = InitCnt(n) PROVE lvt' = lvt /\ count' = n
      BY <1>1, <2>2, <3>3, WriteFacts
    <3>4. CASE a.reg = "LVT_TIMER"
      <4>1. PICK b \in BOOLEAN : a = Lvt("oneshot", b)
        BY <1>1, <3>4, OfLapic
      <4> QED BY <1>4, <3>2, <4>1
    <3>5. CASE a.reg = "TMR_INITCNT"
      <4>1. PICK n \in 0 .. MaxCount : a = InitCnt(n)
        BY <1>1, <3>5, OfInitCnt
      <4> QED BY <1>4, <3>3, <4>1
    <3> QED BY <3>1, <3>4, <3>5
  <2> QED BY <2>1, <2>2 DEF a
<1>6. CASE Settled'
  <2>1. Stream' = <<>>
    BY <1>2, <1>6
  <2>2. count' \in Nat /\ lvt'.masked \in BOOLEAN
    BY <1>2, BoundsAssumption
  <2>3. Ready(<<>>, due, lvt'.masked, count')
    BY <1>5, <2>1
  <2>4. Orderly(<<>>, Since(prior')) /\ Ready(<<>>, Since(prior'), lvt'.masked, count')
    BY <2>2, <2>3, OrderlyEmpty
  <2> QED BY <2>1, <2>4, Zenon
<1>7. CASE ~Settled'
  BY <1>3, <1>5, <1>7 DEF due
<1> QED BY <1>6, <1>7

LEMMA AppendHead ==
    ASSUME NEW S, NEW s \in Seq(S), NEW t \in Seq(S), t # <<>>
    PROVE  Append(s, Head(t)) \o Tail(t) = s \o t
<1>1. s \o <<Head(t)>> = Append(s, Head(t)) /\ t = <<Head(t)>> \o Tail(t)
  OBVIOUS
<1>2. Head(t) \in S /\ Tail(t) \in Seq(S) /\ <<Head(t)>> \in Seq(S)
  <2>1. Head(t) \in S /\ Tail(t) \in Seq(S)
    BY TailFacts
  <2> QED BY <2>1
<1>3. (s \o <<Head(t)>>) \o Tail(t) = s \o (<<Head(t)>> \o Tail(t))
  BY <1>2, ConcatAssociative
<1> QED BY <1>1, <1>3, Zenon

LEMMA ConcatHead ==
    ASSUME NEW S, NEW s \in Seq(S), s # <<>>, NEW t \in Seq(S)
    PROVE  Head(s \o t) = Head(s) /\ Tail(s \o t) = Tail(s) \o t
<1> DEFINE h == Head(s)
           u == Tail(s) \o t
<1>1. s = <<h>> \o Tail(s)
  OBVIOUS
<1>2. h \in S /\ Tail(s) \in Seq(S) /\ <<h>> \in Seq(S)
  <2>1. h \in S /\ Tail(s) \in Seq(S)
    BY TailFacts
  <2> QED BY <2>1
<1>3. s \o t = <<h>> \o u /\ u \in Seq(S)
  <2>1. (<<h>> \o Tail(s)) \o t = <<h>> \o (Tail(s) \o t)
    BY <1>2, ConcatAssociative
  <2> QED BY <1>1, <1>2, <2>1
<1> HIDE DEF h, u
<1>4. Head(<<h>> \o u) = h /\ Tail(<<h>> \o u) = u
  BY <1>2, <1>3
<1> QED BY <1>3, <1>4 DEF h, u

LEMMA HeadOfStream ==
    ASSUME InvType, InvLapic, g_src = "LAPIC"
    PROVE  /\ buffer = <<>> => Stream = todo
           /\ buffer # <<>> => Stream # <<>> /\ Head(Stream) = Head(buffer) /\ Tail(Stream) = Tail(buffer) \o todo
<1>1. todo \in Seq(LapicAccesses) /\ buffer \in Seq(LapicAccesses)
  BY StreamFacts
<1>2. CASE buffer = <<>>
  BY <1>1, <1>2 DEF Stream
<1>3. CASE buffer # <<>>
  <2>1. Stream # <<>>
    BY <1>1, <1>3, ConcatEqualIffEmpty DEF Stream
  <2> QED BY <1>1, <1>3, <2>1, ConcatHead DEF Stream
<1> QED BY <1>2, <1>3

(* OnTime of the LAPIC source, when a step takes an access off the stream or
   moves one within it. *)
LEMMA LapicTakes ==
    ASSUME IInv, OnTime, IInv', g_src = "LAPIC", g_src' = g_src, Stream # <<>>, Stream' = Tail(Stream),
           prior' = IF Settled' THEN {} ELSE prior,
           \/ Write(Head(Stream))
           \/ Head(Stream) = CurrCnt /\ UNCHANGED <<lvt, count>>
    PROVE  OnTime'
<1>1. InvType /\ InvLapic /\ InvType' /\ InvLapic'
  BY DEF IInv
<1>2. Orderly(Stream', Since(prior')) /\ Ready(Stream', Since(prior'), lvt'.masked, count')
  <2>1. Orderly(Stream, Since(prior)) /\ Ready(Stream, Since(prior), lvt.masked, count)
    BY DEF OnTime
  <2> QED BY <1>1, <2>1, StreamTakes
<1>3. prior' \subseteq 0 .. MaxTicks \cup {None}
  BY DEF OnTime
<1> QED BY <1>2, <1>3 DEF OnTime

LEMMA LapicOnTime ==
    ASSUME IInv, OnTime, IInv', g_src = "LAPIC", LapicWrite \/ Drain \/ LapicRead
    PROVE  OnTime'
<1>1. InvType /\ InvLapic /\ InvType' /\ InvLapic' /\ g_src' = g_src
  BY DEF IInv, LapicWrite, Drain, LapicRead, Advance, kernel
<1>2. /\ todo \in Seq(LapicAccesses) /\ buffer \in Seq(LapicAccesses)
      /\ buffer = <<>> => Stream = todo
      /\ buffer # <<>> => Stream # <<>> /\ Head(Stream) = Head(buffer) /\ Tail(Stream) = Tail(buffer) \o todo
  BY <1>1, StreamFacts, HeadOfStream
<1>3. prior' = IF Settled' THEN {} ELSE prior
  BY <1>1 DEF LapicWrite, Drain, LapicRead, Raise, InForce, Settled
<1>4. ASSUME NEW s \in Seq(LapicAccesses) PROVE <<>> \o s = s
  BY <1>4
<1>5. CASE LapicWrite
  <2>1. /\ todo # <<>> /\ todo' = Tail(todo) /\ buffer' = Append(buffer, Head(todo))
        /\ lvt' = lvt /\ count' = count
    BY <1>5 DEF LapicWrite, Advance, Access, device
  <2>2. Stream' = Stream
    BY <1>2, <2>1, AppendHead DEF Stream
  <2>3. buffer' # <<>>
    <3>1. Head(todo) \in LapicAccesses
      BY <1>2, <2>1, TailFacts
    <3> QED BY <1>2, <2>1, <3>1, AppendFacts
  <2>4. prior' = prior
    BY <1>3, <2>3 DEF Settled
  <2> QED BY <1>1, <2>1, <2>2, <2>4 DEF OnTime
<1>6. CASE Drain
  <2>1. /\ buffer # <<>> /\ buffer' = Tail(buffer) /\ Write(Head(buffer)) /\ todo' = todo
    BY <1>6 DEF Drain, kernel
  <2>2. Stream' = Tail(Stream) /\ Stream # <<>> /\ Head(Stream) = Head(buffer)
    BY <1>2, <2>1 DEF Stream
  <2> QED BY <1>1, <1>3, <2>1, <2>2, LapicTakes
<1>7. CASE LapicRead
  <2>1. /\ todo # <<>> /\ todo' = Tail(todo) /\ buffer' = <<>> /\ buffer = <<>>
        /\ lvt' = lvt /\ count' = count /\ Head(todo).reg = "TMR_CURRCNT"
    BY <1>7 DEF LapicRead, Advance, Access, device
  <2>2. Tail(todo) \in Seq(LapicAccesses) /\ Head(todo) \in LapicAccesses
    BY <1>2, <2>1, TailFacts
  <2>3. Stream = todo /\ Stream' = Tail(todo)
    BY <1>2, <1>4, <2>1, <2>2 DEF Stream
  <2>4. Head(todo) = CurrCnt
    BY <2>1, <2>2, Registers DEF LapicAccesses, LapicWrites, Modes
  <2> QED BY <1>1, <1>3, <2>1, <2>3, <2>4, LapicTakes
<1> QED BY <1>5, <1>6, <1>7

(* The TSC-deadline source. *)
LEMMA DeadlineLast ==
    ASSUME IInv, g_src = "TSC_DEADLINE", goal # None, todo # <<>>, Access.reg = "TSC_DEADLINE"
    PROVE  /\ Tail(todo) = <<>>
           /\ \E n \in 1 .. MaxTicks : Access = TscDeadline(n) /\ (goal = 0 \/ goal + age <= n)
<1>1. PICK n \in 1 .. MaxTicks :
            /\ Size(todo) <= 4
            /\ At(todo, 1) = TscDeadline(n)
            /\ Size(todo) >= 2 => At(todo, 2) = Rdtsc
            /\ Size(todo) >= 3 => At(todo, 3) = InitCnt(0)
            /\ Size(todo) = 4 => At(todo, 4) = Lvt("deadline", FALSE)
            /\ Size(todo) = 1 => goal = 0 \/ goal + age <= n
  BY DEF IInv, InvTsc, Arms
<1>2. Size(todo) \in 1 .. 4 /\ Access = At(todo, Size(todo)) /\ (Tail(todo) = <<>> <=> Size(todo) = 1)
  <2>1. todo \in Seq(Accesses)
    BY DEF IInv, InvType
  <2> QED BY <1>1, <2>1, TailFacts DEF Access
<1>3. Access # Rdtsc /\ Access # InitCnt(0) /\ Access # Lvt("deadline", FALSE)
  <2>1. Rdtsc.reg = "TSC" /\ InitCnt(0).reg = "TMR_INITCNT" /\ Lvt("deadline", FALSE).reg = "LVT_TIMER"
    BY Regs
  <2> QED BY <2>1
<1>4. Size(todo) # 2 /\ Size(todo) # 3
  BY <1>1, <1>2, <1>3
<1>5. Size(todo) # 4
  <2>1. Size(todo) = 4 => Access = At(todo, 4)
    BY <1>2
  <2> QED BY <1>1, <1>3, <2>1, Zenon
<1>6. Size(todo) = 1
  BY <1>2, <1>4, <1>5
<1> QED BY <1>1, <1>2, <1>6

LEMMA TscOnTime ==
    ASSUME IInv, OnTime, IInv', g_src = "TSC_DEADLINE", KernelStep \/ Drain
    PROVE  OnTime'
<1> USE BoundsAssumption, NoneAssumption
<1>1. /\ todo # <<>> /\ deadline > 0 => deadline \in Since(prior)
      /\ prior \subseteq 0 .. MaxTicks \cup {None}
  BY DEF OnTime
<1>2. /\ InvType /\ g_src' = g_src
      /\ KernelStep => todo # <<>> /\ todo' = Tail(todo)
      /\ Drain => todo' = todo
  BY DEF IInv, KernelStep, LapicWrite, LapicRead, ReadTsc, WriteDeadline, Advance, Drain, kernel
<1>3. prior' \in {prior, {}} /\ (todo' # <<>> => prior' = prior)
  BY <1>2 DEF KernelStep, LapicWrite, LapicRead, ReadTsc, WriteDeadline, Drain, Raise, InForce, asked
<1>4. prior' \subseteq 0 .. MaxTicks \cup {None}
  BY <1>1, <1>3
<1>5. todo' # <<>> => deadline' \in {deadline, 0}
  <2>1. CASE LapicWrite \/ LapicRead \/ ReadTsc
    BY <2>1 DEF LapicWrite, LapicRead, ReadTsc, device
  <2>2. CASE Drain
    BY <2>2 DEF Drain, Write
  <2>3. CASE WriteDeadline
    <3>1. /\ Access.reg = "TSC_DEADLINE" /\ todo # <<>> /\ todo' = Tail(todo)
          /\ deadline' \in {deadline, IF Access.value <= age THEN 0 ELSE Access.value - age}
      BY <2>3 DEF WriteDeadline, Advance
    <3>2. CASE goal = None
      <4>1. Access \in TscStops
        BY <3>1, <3>2, TakeFacts DEF Took
      <4>2. Access = TscDeadline(0)
        BY <3>1, <4>1, Regs DEF TscStops, TscWrites
      <4>3. Access.value = 0 /\ age \in Nat
        BY <1>2, <4>2, Registers DEF InvType
      <4> QED BY <3>1, <4>3
    <3>3. CASE goal # None
      BY <3>1, <3>3, DeadlineLast
    <3> QED BY <3>2, <3>3
  <2> QED BY <2>1, <2>2, <2>3 DEF KernelStep
<1>6. todo' # <<>> => todo # <<>>
  BY <1>2
<1> QED BY <1>1, <1>2, <1>3, <1>4, <1>5, <1>6 DEF OnTime

(* Time goes on. *)
LEMMA SinceTicks ==
    ASSUME prior \subseteq 0 .. MaxTicks \cup {None}, prior' = {Down(n) : n \in prior}
    PROVE  /\ prior' \subseteq 0 .. MaxTicks \cup {None}
           /\ \A n \in Nat : n \in Since(prior) => n \in Since(prior') /\ (n > 0 => n - 1 \in Since(prior'))
<1> USE BoundsAssumption, NoneAssumption
<1>1. \A p \in prior : Down(p) \in 0 .. MaxTicks \cup {None}
  BY DEF Down
<1>2. ASSUME NEW n \in Nat, n \in Since(prior)
      PROVE  n \in Since(prior') /\ (n > 0 => n - 1 \in Since(prior'))
  <2>1. PICK p \in prior : p # None /\ p <= n
    BY <1>2 DEF Since
  <2>2. p \in 0 .. MaxTicks /\ Down(p) \in prior'
    BY <2>1
  <2>3. Down(p) # None /\ Down(p) <= n /\ (n > 0 => Down(p) <= n - 1)
    BY <2>1, <2>2 DEF Down
  <2> QED BY <2>2, <2>3 DEF Since
<1> QED BY <1>1, <1>2

LEMMA TickOnTime ==
    ASSUME IInv, OnTime, IInv', Tick PROVE OnTime'
<1> USE BoundsAssumption, NoneAssumption
<1>1. /\ g_src' = g_src /\ todo' = todo /\ buffer' = buffer /\ lvt' = lvt
      /\ count' = Down(count) /\ deadline' = Down(deadline)
      /\ prior' = {Down(n) : n \in prior}
  BY DEF Tick
<1>2. InvType
  BY DEF IInv
<1>3. /\ prior' \subseteq 0 .. MaxTicks \cup {None}
      /\ \A n \in Nat : n \in Since(prior) => n \in Since(prior') /\ (n > 0 => n - 1 \in Since(prior'))
  BY <1>1, SinceTicks DEF OnTime
<1>4. ASSUME g_src = "LAPIC"
      PROVE  Orderly(Stream', Since(prior')) /\ Ready(Stream', Since(prior'), lvt'.masked, count')
  <2>1. /\ Stream \in Seq(LapicAccesses) /\ lvt.masked \in BOOLEAN /\ count \in 0 .. MaxCount
        /\ Orderly(Stream, Since(prior)) /\ Ready(Stream, Since(prior), lvt.masked, count)
    BY <1>4, StreamFacts DEF IInv, OnTime
  <2>2. Stream' = Stream
    BY <1>1 DEF Stream
  <2>3. \A n \in 0 .. MaxCount : n \in Since(prior) => n \in Since(prior')
    BY <1>3
  <2>4. Orderly(Stream, Since(prior'))
    BY <2>1, <2>3, OrderlyGrows
  <2>5. Ready(Stream, Since(prior'), lvt.masked, Down(count))
    BY <1>3, <2>1, ReadyTicks
  <2> QED BY <1>1, <2>2, <2>4, <2>5
<1>5. todo' # <<>> /\ deadline' > 0 /\ g_src = "TSC_DEADLINE" => deadline' \in Since(prior')
  <2>1. todo # <<>> /\ deadline > 0 /\ g_src = "TSC_DEADLINE" => deadline \in Since(prior)
    BY DEF OnTime
  <2>2. deadline \in Nat /\ deadline # None /\ (deadline' > 0 => deadline > 0 /\ deadline' = deadline - 1)
    BY <1>1, <1>2 DEF Down, InvType
  <2> QED BY <1>1, <1>3, <2>1, <2>2
<1> QED BY <1>1, <1>3, <1>4, <1>5 DEF OnTime

LEMMA QuietOnTime ==
    ASSUME OnTime, TakeTick \/ UNCHANGED vars PROVE OnTime'
<1>1. UNCHANGED <<kernel, buffer, device, asked>>
  BY DEF TakeTick, vars
<1> QED BY <1>1 DEF OnTime, Stream, kernel, device, asked

(* A new call. *)
LEMMA LapicBegin ==
    ASSUME IInv, OnTime, IInv', g_src = "LAPIC", g_src' = "LAPIC",
           NEW l \in Seq(LapicAccesses), l # <<>>, l[1].reg = "LVT_TIMER", Orderly(l, {}),
           NEW w, Begin(l, w)
    PROVE  Orderly(Stream', Since(prior')) /\ Ready(Stream', Since(prior'), lvt'.masked, count')
<1> USE BoundsAssumption, NoneAssumption
<1> DEFINE due == Since(prior \cup {goal})
<1>1. /\ todo = <<>> /\ todo' = l /\ prior' = prior \cup {goal} /\ buffer' = buffer
      /\ lvt' = lvt /\ count' = count
  BY DEF Begin, device
<1>2. InvType /\ InvLapic /\ AlarmHeld
  BY DEF IInv
<1>3. /\ lvt.mode = "oneshot" /\ lvt.masked \in BOOLEAN /\ count \in 0 .. MaxCount
      /\ todo \in Seq(LapicAccesses) /\ buffer \in Seq(LapicAccesses)
  BY <1>2, StreamFacts
<1>4. Stream = buffer /\ Stream' = buffer \o l
  <2>1. buffer \o <<>> = buffer
    BY <1>3
  <2> QED BY <1>1, <2>1 DEF Stream
<1>5. /\ Orderly(buffer, Since(prior)) /\ Ready(buffer, Since(prior), lvt.masked, count)
      /\ prior \subseteq 0 .. MaxTicks \cup {None}
  BY <1>4 DEF OnTime
<1>6. \A n \in 0 .. MaxCount : n \in Since(prior) => n \in due
  BY DEF Since
<1>7. goal # None => \A n \in Nat : goal <= n => n \in due
  BY DEF Since
<1> HIDE DEF due
<1>8. Orderly(buffer, due) /\ Ready(buffer, due, lvt.masked, count)
  BY <1>3, <1>5, <1>6, OrderlyGrows, ReadyGrows
<1>9. Orderly(l, due)
  BY OrderlyGrows
<1>10. ASSUME buffer # <<>>
       PROVE  \E n \in 0 .. MaxCount : buffer[Len(buffer)] = InitCnt(n) /\ (n = 0 \/ n \in due)
  <2>1. Sets(At(buffer, 1))
    BY <1>1, <1>2, <1>10 DEF InvLapic, Ends
  <2>2. PICK n \in 0 .. MaxCount : At(buffer, 1) = InitCnt(n) /\ Fits(n)
    BY <2>1 DEF Sets
  <2>3. n = 0 \/ n \in due
    BY <1>7, <2>2 DEF Fits
  <2>4. At(buffer, 1) = buffer[Len(buffer)]
    BY <1>3 DEF At
  <2> QED BY <2>2, <2>3, <2>4
<1>11. buffer = <<>> /\ ~lvt.masked /\ count > 0 => count \in due
  <2> SUFFICES ASSUME buffer = <<>>, ~lvt.masked, count > 0 PROVE count \in due
    OBVIOUS
  <2>1. Remaining = count
    BY <1>3 DEF Remaining
  <2>2. goal # None /\ goal <= count
    BY <1>1, <1>2, <1>3, <2>1 DEF AlarmHeld, Held, Settled
  <2> QED BY <1>3, <1>7, <2>2
<1>12. Orderly(buffer \o l, due)
  BY <1>3, <1>8, <1>9, <1>10, OrderlyJoins
<1>13. Ready(buffer \o l, due, lvt.masked, count)
  BY <1>3, <1>8, <1>10, <1>11, ReadyJoins
<1> QED BY <1>1, <1>4, <1>12, <1>13 DEF due

LEMMA BeginOnTime ==
    ASSUME IInv, OnTime, IInv',
           g_src' \in Sources, g_src \in {"NONE", g_src'},
           NEW l \in Seq(Accesses), l # <<>>, NEW w \in 1 .. MaxTicks \cup {None}, Begin(l, w),
           g_src' = "LAPIC" => l \in Seq(LapicAccesses) /\ l[1].reg = "LVT_TIMER" /\ Orderly(l, {})
    PROVE  OnTime'
<1> USE BoundsAssumption, NoneAssumption, SourcesAssumption
<1>1. /\ todo = <<>> /\ todo' = l /\ prior' = prior \cup {goal} /\ buffer' = buffer
      /\ lvt' = lvt /\ count' = count /\ deadline' = deadline /\ goal' = w
  BY DEF Begin, device
<1>2. InvType /\ InvLapic /\ InvTsc
  BY DEF IInv
<1>3. prior' \subseteq 0 .. MaxTicks \cup {None}
  BY <1>1, <1>2 DEF OnTime, InvType
<1>4. g_src' \in {"LAPIC", "TSC_DEADLINE"}
  OBVIOUS
<1>5. g_src = "NONE" => buffer = <<>> /\ count = 0 /\ lvt.mode = "oneshot" /\ deadline = 0
  BY <1>2 DEF InvType
<1>6. CASE g_src' = "LAPIC"
  <2>1. CASE g_src = "LAPIC"
    BY <1>3, <1>6, <2>1, LapicBegin DEF OnTime
  <2>2. CASE g_src = "NONE"
    <3>1. Stream' = l
      <4>1. <<>> \o l = l
        OBVIOUS
      <4> QED BY <1>1, <1>5, <2>2, <4>1 DEF Stream
    <3>2. count' = 0 /\ l \in Seq(LapicAccesses) /\ l[1].reg = "LVT_TIMER" /\ Orderly(l, {})
      BY <1>1, <1>5, <1>6, <2>2
    <3>3. Orderly(l, Since(prior'))
      <4>1. \A n \in 0 .. MaxCount : n \in {} => n \in Since(prior')
        OBVIOUS
      <4> QED BY <3>2, <4>1, OrderlyGrows
    <3>4. Ready(l, Since(prior'), lvt'.masked, count')
      BY <3>2, Distinct DEF Ready
    <3> QED BY <1>3, <1>6, <3>1, <3>3, <3>4 DEF OnTime
  <2> QED BY <1>6, <2>1, <2>2
<1>7. CASE g_src' = "TSC_DEADLINE"
  <2>1. ASSUME deadline > 0 PROVE deadline \in Since(prior')
    <3>1. g_src = "TSC_DEADLINE" /\ deadline \in Nat
      BY <1>2, <1>5, <1>7, <2>1 DEF InvType
    <3>2. goal # None /\ goal <= deadline
      BY <1>1, <1>2, <2>1, <3>1 DEF InvTsc, Armed
    <3> QED BY <1>1, <3>1, <3>2 DEF Since
  <2> QED BY <1>1, <1>3, <1>7, <2>1 DEF OnTime
<1> QED BY <1>4, <1>6, <1>7

(* The lists of the calls are orderly. *)
LEMMA PairOrderly ==
    ASSUME NEW b \in BOOLEAN, NEW n \in 0 .. MaxCount, b => n = 0
    PROVE  /\ <<Lvt("oneshot", b), InitCnt(n)>> \in Seq(LapicAccesses)
           /\ <<Lvt("oneshot", b), InitCnt(n)>> # <<>>
           /\ <<Lvt("oneshot", b), InitCnt(n)>>[1].reg = "LVT_TIMER"
           /\ Len(<<Lvt("oneshot", b), InitCnt(n)>>) = 2
           /\ <<Lvt("oneshot", b), InitCnt(n)>>[2] = InitCnt(n)
           /\ Orderly(<<Lvt("oneshot", b), InitCnt(n)>>, {})
<1> DEFINE x == Lvt("oneshot", b)
           y == InitCnt(n)
           l == <<x, y>>
<1>1. x \in LapicAccesses /\ y \in LapicAccesses
  BY Zenon DEF LapicAccesses, LapicWrites
<1>2. x.reg = "LVT_TIMER" /\ y.reg = "TMR_INITCNT" /\ x # CurrCnt /\ y # CurrCnt
  BY Distinct
<1>3. \A c \in BOOLEAN : (x = Lvt("oneshot", c) => c = b) /\ y # Lvt("oneshot", c)
  BY Distinct DEF Lvt
<1>4. y = InitCnt(n)
  OBVIOUS
<1> HIDE DEF x, y
<1>5. l \in Seq(LapicAccesses) /\ l # <<>> /\ Len(l) = 2 /\ l[1] = x /\ l[2] = y
  BY <1>1
<1> HIDE DEF l
<1>6. \A i \in 1 .. Len(l) : i = 1 \/ i = 2
  BY <1>5
<1>7. Orderly(l, {})
  <2> SUFFICES ASSUME NEW i \in 1 .. Len(l)
               PROVE  /\ l[i] = Lvt("oneshot", FALSE) =>
                          /\ i < Len(l)
                          /\ \E k \in 0 .. MaxCount :
                                l[i + 1] = InitCnt(k) /\ (k = 0 \/ k \in {} \/ i + 1 = Len(l))
                      /\ l[i] = Lvt("oneshot", TRUE) =>
                          /\ i < Len(l)
                          /\ \E k \in 0 .. MaxCount :
                                l[i + 1] = InitCnt(k) /\ (k = 0 \/ (i + 2 <= Len(l) /\ l[i + 2] = CurrCnt))
                      /\ l[i].reg = "TMR_INITCNT" => i = Len(l) \/ l[i + 1].reg # "TMR_INITCNT"
                      /\ l[i] = CurrCnt => i < Len(l) /\ l[i + 1] = Lvt("oneshot", TRUE)
    BY Zenon DEF Orderly
  <2>1. CASE i = 1
    <3>1. i < Len(l) /\ i + 1 = Len(l) /\ l[i + 1] = InitCnt(n) /\ l[i] = x
      BY <1>4, <1>5, <2>1
    <3>2. x = Lvt("oneshot", TRUE) => n = 0
      BY <1>3, Zenon
    <3> QED BY <1>2, <3>1, <3>2
  <2>2. CASE i = 2
    BY <1>2, <1>3, <1>5, <2>2
  <2> QED BY <1>6, <2>1, <2>2
<1> QED BY <1>2, <1>4, <1>5, <1>7 DEF l, x, y

LEMMA CalibrationOrderly ==
    /\ lapic_timer_calibrate_tsc \in Seq(LapicAccesses)
    /\ lapic_timer_calibrate_tsc # <<>>
    /\ lapic_timer_calibrate_tsc[1].reg = "LVT_TIMER"
    /\ Len(lapic_timer_calibrate_tsc) = 5
    /\ lapic_timer_calibrate_tsc[5] = InitCnt(0)
    /\ Orderly(lapic_timer_calibrate_tsc, {})
<1> USE BoundsAssumption
<1> DEFINE x == Lvt("oneshot", TRUE)
           y == InitCnt(MaxCount)
           z == InitCnt(0)
           c == CurrCnt
           l == lapic_timer_calibrate_tsc
<1>1. x \in LapicAccesses /\ y \in LapicAccesses /\ z \in LapicAccesses /\ c \in LapicAccesses
  <2>1. 0 \in 0 .. MaxCount /\ MaxCount \in 0 .. MaxCount
    OBVIOUS
  <2> QED BY <2>1, Zenon DEF LapicAccesses, LapicWrites
<1>2. /\ x.reg = "LVT_TIMER" /\ y.reg = "TMR_INITCNT" /\ z.reg = "TMR_INITCNT" /\ c.reg = "TMR_CURRCNT"
      /\ x # Lvt("oneshot", FALSE)
  BY Distinct
<1>3. /\ \A b \in BOOLEAN : Lvt("oneshot", b).reg = "LVT_TIMER"
      /\ CurrCnt.reg = "TMR_CURRCNT"
  BY Distinct
<1>4. y = InitCnt(MaxCount) /\ z = InitCnt(0) /\ c = CurrCnt /\ x = Lvt("oneshot", TRUE)
  OBVIOUS
<1> HIDE DEF x, y, z, c
<1>5. /\ l \in Seq(LapicAccesses) /\ l # <<>> /\ Len(l) = 5
      /\ l[1] = x /\ l[2] = y /\ l[3] = c /\ l[4] = x /\ l[5] = z
  <2> DEFINE p == <<x, y, c>>
             q == <<x, z>>
  <2>1. p \in Seq(LapicAccesses) /\ Len(p) = 3 /\ p[1] = x /\ p[2] = y /\ p[3] = c
    BY <1>1
  <2>2. q \in Seq(LapicAccesses) /\ Len(q) = 2 /\ q[1] = x /\ q[2] = z
    BY <1>1
  <2>3. l = p \o q
    BY <1>4 DEF lapic_timer_calibrate_tsc, lapic_timer_stop
  <2> HIDE DEF p, q, l
  <2>4. /\ l \in Seq(LapicAccesses) /\ Len(l) = Len(p) + Len(q)
        /\ \A i \in 1 .. Len(p) + Len(q) : l[i] = IF i <= Len(p) THEN p[i] ELSE q[i - Len(p)]
    BY <2>1, <2>2, <2>3, ConcatProperties
  <2>5. l # <<>>
    <3>1. Size(l) = 5
      BY <2>1, <2>2, <2>4 DEF Size
    <3> QED BY <2>4, <3>1, EmptyLen
  <2> QED BY <2>1, <2>2, <2>4, <2>5
<1> HIDE DEF l
<1>6. \A i \in 1 .. Len(l) : i \in {1, 2, 3, 4, 5}
  BY <1>5
<1>7. Orderly(l, {})
  <2> SUFFICES ASSUME NEW i \in 1 .. Len(l)
               PROVE  /\ l[i] = Lvt("oneshot", FALSE) =>
                          /\ i < Len(l)
                          /\ \E k \in 0 .. MaxCount :
                                l[i + 1] = InitCnt(k) /\ (k = 0 \/ k \in {} \/ i + 1 = Len(l))
                      /\ l[i] = Lvt("oneshot", TRUE) =>
                          /\ i < Len(l)
                          /\ \E k \in 0 .. MaxCount :
                                l[i + 1] = InitCnt(k) /\ (k = 0 \/ (i + 2 <= Len(l) /\ l[i + 2] = CurrCnt))
                      /\ l[i].reg = "TMR_INITCNT" => i = Len(l) \/ l[i + 1].reg # "TMR_INITCNT"
                      /\ l[i] = CurrCnt => i < Len(l) /\ l[i + 1] = Lvt("oneshot", TRUE)
    BY Zenon DEF Orderly
  <2>1. CASE i = 1
    <3>1. /\ l[i] = x /\ i < Len(l) /\ l[i + 1] = InitCnt(MaxCount) /\ i + 2 <= Len(l)
          /\ l[i + 2] = CurrCnt /\ MaxCount \in 0 .. MaxCount
      <4>1. i + 1 = 2 /\ i + 2 = 3 /\ i < 5 /\ i + 2 <= 5 /\ MaxCount \in 0 .. MaxCount
        BY <2>1
      <4> QED BY <1>4, <1>5, <2>1, <4>1, Zenon
    <3> QED BY <1>2, <1>3, <3>1
  <2>2. CASE i \in {2, 5}
    <3>1. l[i].reg = "TMR_INITCNT" /\ (i = Len(l) \/ l[i + 1].reg # "TMR_INITCNT")
      BY <1>2, <1>5, <2>2
    <3> QED BY <1>3, <3>1
  <2>3. CASE i = 3
    <3>1. l[i].reg = "TMR_CURRCNT" /\ i < Len(l) /\ l[i + 1] = Lvt("oneshot", TRUE)
      <4>1. i + 1 = 4 /\ i < 5
        BY <2>3
      <4> QED BY <1>2, <1>4, <1>5, <2>3, <4>1, Zenon
    <3> QED BY <1>3, <3>1
  <2>4. CASE i = 4
    <3>1. l[i] = x /\ i < Len(l) /\ l[i + 1] = InitCnt(0) /\ 0 \in 0 .. MaxCount
      <4>1. i + 1 = 5 /\ i < 5 /\ 0 \in 0 .. MaxCount
        BY <2>4
      <4> QED BY <1>4, <1>5, <2>4, <4>1, Zenon
    <3> QED BY <1>2, <1>3, <3>1
  <2> QED BY <1>6, <2>1, <2>2, <2>3, <2>4
<1> QED BY <1>2, <1>4, <1>5, <1>7 DEF l

LEMMA LapicLists ==
    /\ LET l == (lapic_timer_set_oneshot \o lapic_timer_calibrate_tsc) \o Stop("LAPIC") IN
          l \in Seq(LapicAccesses) /\ l[1].reg = "LVT_TIMER" /\ Orderly(l, {})
    /\ lapic_timer_stop \in Seq(LapicAccesses) /\ lapic_timer_stop[1].reg = "LVT_TIMER"
    /\ Orderly(lapic_timer_stop, {})
    /\ \A n \in 0 .. MaxCount :
          /\ lapic_timer_oneshot(n) \in Seq(LapicAccesses)
          /\ lapic_timer_oneshot(n)[1].reg = "LVT_TIMER" /\ Orderly(lapic_timer_oneshot(n), {})
<1> DEFINE o == lapic_timer_set_oneshot
           c == lapic_timer_calibrate_tsc
           t == lapic_timer_stop
<1>1. 0 \in 0 .. MaxCount
  BY BoundsAssumption
<1>2. /\ o \in Seq(LapicAccesses) /\ o # <<>> /\ o[1].reg = "LVT_TIMER" /\ Len(o) = 2
      /\ o[2] = InitCnt(0) /\ Orderly(o, {})
  BY <1>1, PairOrderly DEF lapic_timer_set_oneshot
<1>3. /\ t \in Seq(LapicAccesses) /\ t # <<>> /\ t[1].reg = "LVT_TIMER" /\ Orderly(t, {})
  BY <1>1, PairOrderly DEF lapic_timer_stop
<1>4. \A n \in 0 .. MaxCount :
          /\ lapic_timer_oneshot(n) \in Seq(LapicAccesses)
          /\ lapic_timer_oneshot(n)[1].reg = "LVT_TIMER" /\ Orderly(lapic_timer_oneshot(n), {})
  BY PairOrderly DEF lapic_timer_oneshot
<1>5. /\ c \in Seq(LapicAccesses) /\ c # <<>> /\ c[1].reg = "LVT_TIMER" /\ Len(c) = 5
      /\ c[5] = InitCnt(0) /\ Orderly(c, {})
  BY CalibrationOrderly
<1> HIDE DEF o, c, t
<1>6. /\ o \o c \in Seq(LapicAccesses) /\ Orderly(o \o c, {})
      /\ Len(o \o c) = 7 /\ (o \o c)[1] = o[1] /\ (o \o c)[7] = InitCnt(0)
  <2>1. /\ o \o c \in Seq(LapicAccesses) /\ Len(o \o c) = 7
        /\ (o \o c)[1] = o[1] /\ (o \o c)[7] = c[5]
    <3>1. /\ o \o c \in Seq(LapicAccesses) /\ Len(o \o c) = Len(o) + Len(c)
          /\ \A i \in 1 .. Len(o) + Len(c) : (o \o c)[i] = IF i <= Len(o) THEN o[i] ELSE c[i - Len(o)]
      BY <1>2, <1>5, ConcatProperties
    <3>2. Len(o) + Len(c) = 7 /\ Len(o) = 2
      BY <1>2, <1>5
    <3>3. 1 \in 1 .. 7 /\ 7 \in 1 .. 7 /\ 1 <= 2 /\ ~(7 <= 2) /\ 7 - 2 = 5
      OBVIOUS
    <3> QED BY <3>1, <3>2, <3>3
  <2>2. Orderly(o \o c, {})
    BY <1>1, <1>2, <1>5, OrderlyJoins
  <2> QED BY <1>5, <2>1, <2>2
<1>7. /\ (o \o c) \o t \in Seq(LapicAccesses) /\ Orderly((o \o c) \o t, {})
      /\ ((o \o c) \o t)[1] = o[1]
  <2> DEFINE p == o \o c
  <2>1. p \in Seq(LapicAccesses) /\ Orderly(p, {}) /\ Len(p) = 7 /\ p[7] = InitCnt(0) /\ p[1] = o[1]
    BY <1>6
  <2> HIDE DEF p
  <2>2. p \o t \in Seq(LapicAccesses) /\ (p \o t)[1] = p[1]
    BY <1>3, <2>1, ConcatProperties
  <2>3. Orderly(p \o t, {})
    BY <1>1, <1>3, <2>1, OrderlyJoins
  <2> QED BY <2>1, <2>2, <2>3 DEF p
<1> QED BY <1>2, <1>3, <1>4, <1>7 DEF o, c, t, Stop

LEMMA CallOnTime ==
    ASSUME IInv, OnTime, IInv',
           \/ \E src \in Sources : timer_init(src)
           \/ \E n \in 0 .. MaxTicks : timer_oneshot(n)
           \/ timer_stop
    PROVE  OnTime'
<1> USE SourcesAssumption, BoundsAssumption
<1>1. ASSUME NEW src \in Sources, timer_init(src) PROVE OnTime'
  <2> DEFINE l == (IF src = "TSC_DEADLINE" THEN lapic_timer_set_tsc_deadline
                   ELSE lapic_timer_set_oneshot \o lapic_timer_calibrate_tsc) \o Stop(src)
  <2>1. g_src' = src /\ g_src = "NONE" /\ Begin(l, None)
    BY <1>1 DEF timer_init
  <2>2. src \in {"TSC_DEADLINE", "LAPIC"}
    OBVIOUS
  <2>3. /\ l \in Seq(Accesses) /\ l # <<>>
        /\ src = "LAPIC" => l \in Seq(LapicAccesses) /\ l[1].reg = "LVT_TIMER" /\ Orderly(l, {})
    <3>1. CASE src = "LAPIC"
      BY <3>1, InitList, LapicLists
    <3>2. CASE src = "TSC_DEADLINE"
      BY <3>2, InitList
    <3> QED BY <2>2, <3>1, <3>2
  <2> HIDE DEF l
  <2> QED BY <2>1, <2>3, BeginOnTime
<1>2. ASSUME NEW n \in 0 .. MaxTicks, timer_oneshot(n) PROVE OnTime'
  <2> DEFINE k == IF n = 0 THEN 1 ELSE n
             w == IF g_src = "LAPIC" THEN Least(k, MaxCount) ELSE k
             l == Oneshot(g_src, k)
  <2>1. g_src' = g_src /\ g_src # "NONE" /\ Begin(l, w)
    BY <1>2 DEF timer_oneshot
  <2>2. k \in 1 .. MaxTicks /\ k \in 0 .. MaxTicks
    OBVIOUS
  <2>3. g_src \in {"TSC_DEADLINE", "LAPIC"} /\ g_src' \in Sources
    BY <2>1 DEF IInv, InvType
  <2> HIDE DEF k
  <2>4. Least(k, MaxCount) \in 0 .. MaxCount
    BY <2>2 DEF Least
  <2>5. /\ l \in Seq(Accesses) /\ l # <<>> /\ w \in 1 .. MaxTicks
        /\ g_src = "LAPIC" => l \in Seq(LapicAccesses) /\ l[1].reg = "LVT_TIMER" /\ Orderly(l, {})
    <3>1. CASE g_src = "LAPIC"
      <4>1. l = lapic_timer_oneshot(Least(k, MaxCount))
        BY <3>1 DEF Oneshot
      <4>2. l \in Seq(Accesses) /\ l # <<>> /\ w \in 1 .. MaxTicks
        BY <2>2, <3>1, OneshotList
      <4> HIDE DEF l, w
      <4> QED BY <2>4, <3>1, <4>1, <4>2, LapicLists
    <3>2. CASE g_src = "TSC_DEADLINE"
      BY <2>2, <3>2, OneshotList
    <3> QED BY <2>3, <3>1, <3>2
  <2> HIDE DEF l, w
  <2>6. w \in 1 .. MaxTicks \cup {None} /\ w # None
    BY <2>5, NoneAssumption
  <2> QED BY <2>1, <2>3, <2>5, <2>6, BeginOnTime
<1>3. ASSUME timer_stop PROVE OnTime'
  <2> DEFINE l == Stop(g_src)
  <2>1. g_src' = g_src /\ g_src # "NONE" /\ Begin(l, None)
    BY <1>3 DEF timer_stop
  <2>2. g_src \in {"TSC_DEADLINE", "LAPIC"} /\ g_src' \in Sources
    BY <2>1 DEF IInv, InvType
  <2>3. /\ l \in Seq(Accesses) /\ l # <<>>
        /\ g_src = "LAPIC" => l \in Seq(LapicAccesses) /\ l[1].reg = "LVT_TIMER" /\ Orderly(l, {})
    <3>1. CASE g_src = "LAPIC"
      BY <3>1, StopList, SettersSeq, LapicLists
    <3>2. CASE g_src = "TSC_DEADLINE"
      BY <3>2, StopList
    <3> QED BY <2>2, <3>1, <3>2
  <2> HIDE DEF l
  <2> QED BY <2>1, <2>2, <2>3, BeginOnTime
<1> QED BY <1>1, <1>2, <1>3

(* A step that interrupts. *)
LEMMA InterruptsOnTime ==
    ASSUME IInv, OnTime, [Next]_vars, irr', ~irr
    PROVE  0 \in {Down(n) : n \in IF InForce' THEN {goal} ELSE prior}
<1> USE BoundsAssumption, NoneAssumption
<1>1. InvType /\ InvLapic /\ InvTsc
  BY DEF IInv
<1>2. CASE Tick
  <2>1. /\ ~lvt.masked /\ 1 \in {count, deadline}
        /\ todo' = todo /\ buffer' = buffer /\ g_src' = g_src
    BY <1>2, Zenon DEF Tick
  <2>2. InForce' <=> InForce
    BY <2>1 DEF InForce
  <2>3. CASE InForce
    <3>1. g_src # "NONE"
      BY <1>1, <2>1 DEF InvType
    <3>2. goal # None /\ goal <= 1
      <4>1. CASE g_src = "LAPIC"
        <5>1. Remaining = 1
          BY <1>1, <2>1 DEF Remaining, InvType, Modes
        <5>2. Settled /\ AlarmHeld
          BY <2>3, <4>1 DEF InForce, Settled, IInv
        <5> QED BY <5>1, <5>2 DEF AlarmHeld, Held
      <4>2. CASE g_src = "TSC_DEADLINE"
        <5>1. count = 0 /\ Armed
          BY <1>1, <2>3, <4>2 DEF InvTsc, InForce
        <5>2. deadline = 1
          BY <2>1, <5>1
        <5> QED BY <5>1, <5>2 DEF Armed
      <4> QED BY <1>1, <3>1, <4>1, <4>2, SourcesAssumption DEF InvType
    <3>3. Down(goal) = 0
      BY <1>1, <3>2 DEF Down, InvType
    <3> QED BY <2>2, <2>3, <3>3
  <2>4. CASE ~InForce
    <3>1. 1 \in Since(prior)
      <4>1. CASE g_src = "NONE"
        <5>1. count = 0 /\ deadline = 0
          BY <1>1, <4>1 DEF InvType
        <5> QED BY <2>1, <5>1
      <4>2. CASE g_src = "LAPIC"
        <5>1. /\ Stream # <<>> /\ Ready(Stream, Since(prior), lvt.masked, count)
              /\ lvt.mode = "oneshot"
          BY <1>1, <2>4, <4>2, StreamFacts DEF OnTime, InForce, Settled
        <5>2. count = 1
          BY <1>1, <2>1, <5>1 DEF InvType
        <5> QED BY <2>1, <5>1, <5>2 DEF Ready
      <4>3. CASE g_src = "TSC_DEADLINE"
        <5>1. count = 0 /\ (todo # <<>> /\ deadline > 0 => deadline \in Since(prior))
          BY <1>1, <4>3 DEF InvTsc, OnTime
        <5>2. todo # <<>>
          BY <2>4, <4>3 DEF InForce
        <5>3. deadline = 1
          BY <2>1, <5>1
        <5> QED BY <5>1, <5>2, <5>3
      <4> QED BY <1>1, <4>1, <4>2, <4>3, SourcesAssumption DEF InvType
    <3>2. PICK p \in prior : p # None /\ p <= 1
      BY <3>1 DEF Since
    <3>3. Down(p) = 0
      <4>1. p \in 0 .. MaxTicks
        BY <3>2 DEF OnTime
      <4> QED BY <3>2, <4>1 DEF Down
    <3> QED BY <2>2, <2>4, <3>2, <3>3
  <2> QED BY <2>3, <2>4
<1>3. CASE WriteDeadline
  <2> DEFINE v == Access.value
  <2>1. /\ todo # <<>> /\ Access.reg = "TSC_DEADLINE" /\ todo' = Tail(todo) /\ buffer' = buffer
        /\ v # 0 /\ v <= age
    BY <1>3, Zenon DEF WriteDeadline, Advance, Raise, Late
  <2>2. g_src = "TSC_DEADLINE"
    <3>1. g_src # "LAPIC"
      <4>1. g_src = "LAPIC" => Access \in LapicAccesses
        BY <1>1, <2>1, TailFacts DEF InvLapic, Access
      <4> QED BY <2>1, <4>1, OfLapic
    <3> QED BY <1>1, <2>1, <3>1, SourcesAssumption DEF InvType
  <2>3. goal # None
    <3>1. goal = None => Access \in TscStops
      BY <2>1, <2>2, TakeFacts DEF Took
    <3>2. Access \in TscStops => Access = TscDeadline(0)
      BY <2>1, Regs DEF TscStops, TscWrites
    <3>3. TscDeadline(0).value = 0
      BY Registers
    <3> QED BY <2>1, <3>1, <3>2, <3>3
  <2>4. todo' = <<>>
    BY <2>1, <2>2, <2>3, DeadlineLast
  <2>5. PICK n \in 1 .. MaxTicks : Access = TscDeadline(n) /\ (goal = 0 \/ goal + age <= n)
    BY <2>1, <2>2, <2>3, DeadlineLast
  <2>6. v = n
    BY <2>5, Registers
  <2> HIDE DEF v
  <2>7. goal \in 0 .. MaxTicks /\ age \in 0 .. MaxTicks
    BY <1>1, <2>3 DEF InvType
  <2>8. goal = 0
    BY <2>1, <2>5, <2>6, <2>7
  <2>9. InForce'
    <3>1. g_src' = g_src
      BY <1>3 DEF WriteDeadline, Advance
    <3> QED BY <2>2, <2>4, <3>1 DEF InForce
  <2> QED BY <2>8, <2>9 DEF Down
<1>4. CASE LapicWrite \/ LapicRead \/ Drain
  BY <1>4, Zenon DEF LapicWrite, LapicRead, Drain, Raise
<1>5. CASE ReadTsc \/ TakeTick \/ UNCHANGED vars
  BY <1>5, Zenon DEF ReadTsc, TakeTick, vars
<1>6. CASE \/ \E src \in Sources : timer_init(src)
           \/ \E n \in 0 .. MaxTicks : timer_oneshot(n)
           \/ timer_stop
  BY <1>6, Zenon DEF timer_init, timer_oneshot, timer_stop, Begin
<1> QED BY <1>2, <1>3, <1>4, <1>5, <1>6 DEF Next, KernelStep

LEMMA NextOnTime ==
    ASSUME IInv, OnTime, IInv', [Next]_vars PROVE OnTime'
<1>1. CASE \/ \E src \in Sources : timer_init(src)
           \/ \E n \in 0 .. MaxTicks : timer_oneshot(n)
           \/ timer_stop
  BY <1>1, CallOnTime
<1>2. g_src \in {"NONE", "LAPIC", "TSC_DEADLINE"}
  BY SourcesAssumption DEF IInv, InvType
<1>3. g_src = "NONE" => todo = <<>> /\ buffer = <<>>
  BY SourcesAssumption DEF IInv, InvType
<1>5. CASE g_src = "LAPIC" /\ (LapicWrite \/ Drain \/ LapicRead)
  BY <1>5, LapicOnTime
<1>6. CASE g_src = "LAPIC" /\ (ReadTsc \/ WriteDeadline)
  <2>1. todo # <<>> /\ Access.reg \in {"TSC", "TSC_DEADLINE"}
    BY <1>6 DEF ReadTsc, WriteDeadline
  <2>2. Access \in LapicAccesses
    BY <1>6, <2>1, TailFacts DEF IInv, InvLapic, Access
  <2> QED BY <2>1, <2>2, OfLapic
<1>7. CASE g_src = "TSC_DEADLINE" /\ (KernelStep \/ Drain)
  BY <1>7, TscOnTime
<1>8. KernelStep => todo # <<>>
  BY DEF KernelStep, LapicWrite, LapicRead, ReadTsc, WriteDeadline
<1>9. Drain => buffer # <<>>
  BY DEF Drain
<1>10. CASE Tick
  BY <1>10, TickOnTime
<1>11. CASE TakeTick \/ UNCHANGED vars
  BY <1>11, QuietOnTime
<1> QED BY <1>1, <1>2, <1>3, <1>5, <1>6, <1>7, <1>8, <1>9, <1>10, <1>11 DEF Next, KernelStep

(* timer_oneshot_ns, timer_stop and the calibration of timer_init (timer.c:168-230,
   lapic.c:86-111): no interrupt comes before a delay is over that was asked for, the
   last one or, until the last call has taken effect, one before it; and none at all
   from the counter that the calibration runs with the timer masked. *)
THEOREM AlarmIsNotEarly == Spec => NeverEarly
<1> DEFINE Inv == IInv /\ OnTime
           Due == irr' /\ ~irr => 0 \in {Down(n) : n \in IF InForce' THEN {goal} ELSE prior}
<1>1. Init => Inv
  <2>1. Init => IInv
    BY InitInv
  <2>2. Init => OnTime
    BY DEF Init, OnTime
  <2> QED BY <2>1, <2>2
<1>2. Inv /\ [Next]_vars => Inv'
  BY NextInv, NextOnTime
<1>3. Inv /\ [Next]_vars => [Due]_vars
  BY InterruptsOnTime
<1>4. NeverEarly <=> [][Due]_vars
  BY DEF NeverEarly
<1> HIDE DEF Inv, Due
<1> QED BY <1>1, <1>2, <1>3, <1>4, PTL DEF Spec
=============================================================================
