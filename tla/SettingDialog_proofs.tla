-------------------------- MODULE SettingDialog_proofs --------------------------
(***************************************************************************)
(* Proofs about SettingDialog, for any presses, depth of nesting, number   *)
(* of phases and pieces that replies arrive in.                            *)
(***************************************************************************)
EXTENDS SettingDialog, TLAPS, WellFoundedInduction, SequenceTheorems

(* Induction over the pieces of a buffer. *)

\* Every set of numbers that is not empty has a smallest one: the library's theorem on
\* well-founded sets, for the order of the numbers.
LEMMA Smallest ==
  ASSUME NEW T, T \subseteq Nat, T # {}
  PROVE  \E x \in T : \A y \in T : x <= y
<1> DEFINE R == OpToRel(<, Nat)
<1>1. IsWellFoundedOn(R, Nat)
  BY NatLessThanWellFounded
<1>2. \A x \in Nat, y \in Nat : <<y, x>> \in R <=> y < x
  BY DEF OpToRel
<1>3. PICK x \in T : \A y \in T : ~(<<y, x>> \in R)
  <2> HIDE DEF R
  <2> QED BY <1>1, WFMin
<1>4. ASSUME NEW y \in T PROVE x <= y
  <2>1. x \in Nat /\ y \in Nat
    BY <1>3, <1>4
  <2>2. ~(y < x)
    BY <1>2, <1>3, <2>1
  <2> QED BY <2>1, <2>2
<1> QED BY <1>3, <1>4

\* Induction, for the set of the numbers that have a property.
LEMMA Induction ==
  ASSUME NEW T, 0 \in T, \A n \in Nat : n \in T => n + 1 \in T
  PROVE  Nat \subseteq T
<1> SUFFICES ASSUME Nat \ T # {} PROVE FALSE
  OBVIOUS
<1>1. PICK x \in Nat \ T : \A y \in Nat \ T : x <= y
  BY Smallest
<1>2. x # 0 /\ x - 1 \in Nat /\ ~(x <= x - 1)
  BY <1>1
<1>3. x - 1 \in T
  BY <1>1, <1>2
<1>4. (x - 1) + 1 = x
  BY <1>1
<1> QED BY <1>1, <1>2, <1>3, <1>4

\* The recursive function in FlattenSeq exists: it yields a sequence of the elements,
\* for a few sequences their concatenation.
LEMMA FlattenUnfolds ==
  ASSUME NEW S, NEW n \in Nat \ {0}, NEW s \in [1 .. n -> Seq(S)]
  PROVE  /\ FlattenSeq(s) \in Seq(S)
         /\ n = 3 => FlattenSeq(s) = (s[1] \o s[2]) \o s[3]
         /\ n = 4 => FlattenSeq(s) = ((s[1] \o s[2]) \o s[3]) \o s[4]
<1> DEFINE Val(g, i) == IF i = 1 THEN s[i] ELSE g[i - 1] \o s[i]
           Rec(g) == g = [i \in 1 .. n |-> Val(g, i)]
           f == CHOOSE g : Rec(g)
           T == {m \in Nat : m <= n => \E g \in [1 .. m -> Seq(S)] :
                                           \A i \in 1 .. m : g[i] = Val(g, i)}
<1>1. FlattenSeq(s) = f[n]
  <2>1. Len(s) = n /\ n # 0
    BY s \in Seq(Seq(S)), LenProperties
  <2> QED BY <2>1 DEF FlattenSeq
<1>2. 0 \in T
  <2>1. [i \in 1 .. 0 |-> <<>>] \in [1 .. 0 -> Seq(S)]
    OBVIOUS
  <2>2. \A i \in 1 .. 0 : FALSE
    OBVIOUS
  <2> HIDE DEF Val
  <2> QED BY <2>1, <2>2
<1>3. ASSUME NEW m \in Nat, m \in T PROVE m + 1 \in T
  <2> DEFINE Has(k) == \E h \in [1 .. k -> Seq(S)] : \A i \in 1 .. k : h[i] = Val(h, i)
  <2> SUFFICES ASSUME m + 1 <= n PROVE Has(m + 1)
    <3> HIDE DEF Val
    <3> QED BY <1>3
  <2>1. PICK g \in [1 .. m -> Seq(S)] : \A i \in 1 .. m : g[i] = Val(g, i)
    <3> HIDE DEF Val
    <3> QED BY <1>3
  <2> DEFINE h == [i \in 1 .. m + 1 |-> IF i = m + 1 THEN Val(g, i) ELSE g[i]]
  <2>2. Val(g, m + 1) \in Seq(S)
    <3>1. s[m + 1] \in Seq(S)
      OBVIOUS
    <3>2. m # 0 => g[m] \in Seq(S) /\ (m + 1) - 1 = m
      OBVIOUS
    <3> QED BY <3>1, <3>2
  <2>3. h \in [1 .. m + 1 -> Seq(S)]
    <3> HIDE DEF Val
    <3> QED BY <2>2
  <2>4. ASSUME NEW i \in 1 .. m + 1 PROVE h[i] = Val(h, i)
    <3>1. h[i] = Val(g, i)
      <4> HIDE DEF Val
      <4> QED BY <2>1
    <3>2. i # 1 => i - 1 \in 1 .. m /\ i - 1 # m + 1
      OBVIOUS
    <3>3. i # 1 => h[i - 1] = g[i - 1]
      <4> HIDE DEF Val
      <4> QED BY <3>2
    <3> QED BY <3>1, <3>3
  <2> HIDE DEF h, Val
  <2> QED BY <2>3, <2>4
<1>4. n \in T
  <2> HIDE DEF T
  <2>1. Nat \subseteq T
    BY <1>2, <1>3, Induction
  <2> QED BY <2>1
<1>5. Rec(f)
  <2>1. PICK g \in [1 .. n -> Seq(S)] : \A i \in 1 .. n : g[i] = Val(g, i)
    <3>1. n <= n
      OBVIOUS
    <3> HIDE DEF Val
    <3> QED BY <1>4, <3>1, Zenon
  <2>2. Rec(g)
    <3> HIDE DEF Val
    <3> QED BY <2>1
  <2> HIDE DEF Rec
  <2> QED BY <2>2
<1>6. \A i \in 1 .. n : f[i] = Val(f, i)
  <2> HIDE DEF f, Val
  <2> QED BY <1>5
<1> DEFINE U == {m \in Nat : m + 1 <= n => f[m + 1] \in Seq(S)}
<1>7. 0 \in U
  <2> HIDE DEF f
  <2> QED BY <1>6
<1>8. ASSUME NEW m \in Nat, m \in U PROVE m + 1 \in U
  <2> HIDE DEF f
  <2> SUFFICES ASSUME (m + 1) + 1 <= n PROVE f[(m + 1) + 1] \in Seq(S)
    OBVIOUS
  <2>1. f[m + 1] \in Seq(S) /\ s[(m + 1) + 1] \in Seq(S)
    BY <1>8
  <2>2. f[(m + 1) + 1] = f[m + 1] \o s[(m + 1) + 1]
    <3>1. (m + 1) + 1 \in 1 .. n /\ (m + 1) + 1 # 1 /\ ((m + 1) + 1) - 1 = m + 1
      OBVIOUS
    <3> QED BY <1>6, <3>1
  <2> QED BY <2>1, <2>2
<1>9. \A i \in 1 .. n : f[i] \in Seq(S)
  <2> SUFFICES ASSUME NEW i \in 1 .. n PROVE f[i] \in Seq(S)
    OBVIOUS
  <2>1. i - 1 \in U
    <3>1. i - 1 \in Nat
      OBVIOUS
    <3> HIDE DEF U
    <3>2. Nat \subseteq U
      BY <1>7, <1>8, Induction
    <3> QED BY <3>1, <3>2
  <2> HIDE DEF f
  <2> QED BY <2>1
<1>11. f[1] = s[1] /\ \A i \in 2 .. n : f[i] = f[i - 1] \o s[i]
  <2> HIDE DEF f
  <2>1. 1 \in 1 .. n /\ \A i \in 2 .. n : i \in 1 .. n /\ i # 1
    OBVIOUS
  <2> QED BY <1>6, <2>1
<1>12. FlattenSeq(s) \in Seq(S)
  <2> HIDE DEF f
  <2> QED BY <1>1, <1>9
<1>13. ASSUME n = 3 PROVE FlattenSeq(s) = (s[1] \o s[2]) \o s[3]
  <2>1. f[2] = f[1] \o s[2] /\ f[3] = f[2] \o s[3]
    <3>1. 2 \in 2 .. n /\ 2 - 1 = 1 /\ 3 \in 2 .. n /\ 3 - 1 = 2
      BY <1>13
    <3> HIDE DEF f
    <3> QED BY <1>11, <3>1, Zenon
  <2> HIDE DEF f
  <2> QED BY <1>1, <1>11, <1>13, <2>1
<1>14. ASSUME n = 4 PROVE FlattenSeq(s) = ((s[1] \o s[2]) \o s[3]) \o s[4]
  <2>1. f[2] = f[1] \o s[2] /\ f[3] = f[2] \o s[3] /\ f[4] = f[3] \o s[4]
    <3>1. 2 \in 2 .. n /\ 2 - 1 = 1 /\ 3 \in 2 .. n /\ 3 - 1 = 2 /\ 4 \in 2 .. n /\ 4 - 1 = 3
      BY <1>14
    <3> HIDE DEF f
    <3> QED BY <1>11, <3>1, Zenon
  <2> HIDE DEF f
  <2> QED BY <1>1, <1>11, <1>14, <2>1
<1> QED BY <1>12, <1>13, <1>14

----------------------------------------------------------------------------
(* What the dialog reads out of its buffer. *)

\* Pieces whose values are of a set, and the bytes of such pieces.
PiecesOf(W) == [is: {"head", "bit", "lrc", "etx"}] \cup [is: {"value"}, val: W]
Digits(W) == {[digit |-> i, val |-> v] : i \in 1 .. 8, v \in W}
BytesOf(W) == {Byte, Control} \cup Digits(W)

Stream(buf) == FlattenSeq([i \in 1 .. Len(buf) |-> Bytes(buf[i])])

LEMMA PieceBytes ==
  ASSUME NEW W, NEW p \in PiecesOf(W)
  PROVE  Bytes(p) \in Seq(BytesOf(W))
<1>1. CASE p.is = "value"
  <2>1. p.val \in W
    BY <1>1 DEF PiecesOf
  <2>2. \A i \in 1 .. 8 : [digit |-> i, val |-> p.val] \in BytesOf(W)
    BY <2>1 DEF BytesOf, Digits
  <2>3. Bytes(p) = [i \in 1 .. 8 |-> [digit |-> i, val |-> p.val]]
    BY <1>1 DEF Bytes
  <2> DEFINE b == [i \in 1 .. 8 |-> [digit |-> i, val |-> p.val]]
  <2>4. b \in [1 .. 8 -> BytesOf(W)]
    BY <2>2
  <2> QED BY <2>3, <2>4, SeqDef
<1>2. CASE p.is # "value"
  <2>1. p.is \in {"head", "bit", "lrc", "etx"}
    BY <1>2 DEF PiecesOf
  <2> DEFINE S == BytesOf(W)
  <2>2. Byte \in S /\ Control \in S
    BY DEF BytesOf
  <2>3. Bytes(p) \in {<<Control, Byte, Byte, Byte, Byte, Byte>>, <<Control>>, <<Byte>>,
                      <<Byte, Byte>>}
    BY <2>1 DEF Bytes
  <2>4. /\ <<Control, Byte, Byte, Byte, Byte, Byte>> \in Seq(S)
        /\ <<Control>> \in Seq(S) /\ <<Byte>> \in Seq(S) /\ <<Byte, Byte>> \in Seq(S)
    <3> HIDE DEF S
    <3> QED BY <2>2
  <2> QED BY <2>3, <2>4
<1> QED BY <1>1, <1>2

LEMMA StreamBytes ==
  ASSUME NEW W, NEW buf \in Seq(PiecesOf(W))
  PROVE  Stream(buf) \in Seq(BytesOf(W))
<1> DEFINE n == Len(buf)
           s == [i \in 1 .. n |-> Bytes(buf[i])]
<1>1. n \in Nat
  OBVIOUS
<1>2. s \in [1 .. n -> Seq(BytesOf(W))]
  <2>1. \A i \in 1 .. n : Bytes(buf[i]) \in Seq(BytesOf(W))
    BY PieceBytes
  <2> QED BY <2>1
<1>3. CASE n = 0
  <2>1. Len(s) = 0 /\ s = <<>>
    BY <1>3
  <2> QED BY <2>1 DEF Stream, FlattenSeq
<1>4. CASE n # 0
  <2>1. n \in Nat \ {0}
    BY <1>1, <1>4
  <2>3. FlattenSeq(s) \in Seq(BytesOf(W))
    <3> HIDE DEF n, s
    <3> QED BY <1>2, <2>1, FlattenUnfolds
  <2> QED BY <2>3 DEF Stream
<1> QED BY <1>3, <1>4

LEMMA WindowBytes ==
  ASSUME NEW S, NEW b \in Seq(S)
  PROVE  Window(b) \in Seq(S)
<1> DEFINE to == IF Len(b) < 14 THEN Len(b) ELSE 14
<1>1. to \in Int /\ \A i \in 7 .. to : b[i] \in S
  OBVIOUS
<1>2. SubSeq(b, 7, to) \in Seq(S)
  <2> HIDE DEF to
  <2> QED BY <1>1, SubSeqProperties
<1> QED BY <1>2 DEF Window

\* A number that is read is a value of the buffer, or none of anybody's.
LEMMA ParsedValue ==
  ASSUME NEW W, NEW buf \in Seq(PiecesOf(W)), NEW p
  PROVE  Parsed(p, Window(Stream(buf))) \in W \cup {V(p, "zero"), V(p, "garbage")}
<1> DEFINE w == Window(Stream(buf))
<1>1. w \in Seq(BytesOf(W))
  BY StreamBytes, WindowBytes
<1>2. ASSUME NEW v \in Value, w = [i \in 1 .. 8 |-> [digit |-> i, val |-> v]]
      PROVE  w[1].val \in W
  <2>1. Len(w) = 8 /\ w[1] = [digit |-> 1, val |-> v]
    BY <1>2
  <2>2. w[1] \in BytesOf(W)
    <3> HIDE DEF w
    <3> QED BY <1>1, <2>1, ElementOfSeq, SMTT(30)
  <2>3. w[1] # Byte /\ w[1] # Control
    BY <2>1 DEF Byte, Control
  <2>4. w[1] \in Digits(W)
    BY <2>2, <2>3 DEF BytesOf
  <2>5. PICK i \in 1 .. 8, u \in W : w[1] = [digit |-> i, val |-> u]
    BY <2>4 DEF Digits
  <2> HIDE DEF w
  <2> QED BY <2>5
<1>3. CASE \E v \in Value : w = [i \in 1 .. 8 |-> [digit |-> i, val |-> v]]
  <2>1. Parsed(p, w) = w[1].val
    <3> HIDE DEF w
    <3> QED BY <1>3, Zenon DEF Parsed
  <2>2. w[1].val \in W
    <3> HIDE DEF w
    <3> QED BY <1>2, <1>3
  <2> QED BY <2>1, <2>2
<1>4. CASE ~\E v \in Value : w = [i \in 1 .. 8 |-> [digit |-> i, val |-> v]]
  <2>1. Parsed(p, w) = V(p, IF Contains(w, Control) THEN "zero" ELSE "garbage")
    <3> HIDE DEF w
    <3> QED BY <1>4, Zenon DEF Parsed
  <2>2. Parsed(p, w) \in {V(p, "zero"), V(p, "garbage")}
    <3> HIDE DEF w
    <3>1. CASE Contains(w, Control)
      BY <2>1, <3>1
    <3>2. CASE ~Contains(w, Control)
      BY <2>1, <3>2
    <3> QED BY <3>1, <3>2
  <2> QED BY <2>2
<1> QED BY <1>3, <1>4

----------------------------------------------------------------------------
(* Commands, steps and scripts. *)

Coils  == {"STOP", "ROTATE_ALL_TIME", "ENABLE_LOCKED", "ENABLE_RELEASE", "ROTATE_A", "ROTATE_B"}
States == {"ENABLE", "ROTATE"}
Cmd == [op: {"read"}, of: Params] \cup [op: {"set"}, of: Params, val: Value]
       \cup [op: {"coil"}, of: Coils] \cup [op: {"state"}, of: States]

\* The values that a register or a field may have.
ValueSets == [Params -> SUBSET Value]

\* Commands, and steps of slots, that set a parameter to values of its set only.
CmdsOf(C)  == {c \in Cmd : c.op = "set" => c.val \in C[c.of]}
StepsOf(C) == [do: {"write"}, cmd: CmdsOf(C)] \cup {Sleep, Exec}

\* What a slot has left: between two writes it sleeps, and to read a value, or to show
\* the dialog, is all that it does.
Shaped(s) ==
    /\ s # <<>>
    /\ \A k \in 1 .. Len(s) :
        /\ (s[k].do = "write" /\ k < Len(s)) => s[k + 1] = Sleep
        /\ (s[k].do = "write" /\ s[k].cmd.op = "read") => Len(s) = 1
        /\ s[k].do = "exec" => Len(s) = 1

\* The sets are wide enough for what the program and the motor do with values: the
\* fields are cleared and typed in, an apply takes numbers out of them, and the
\* motor what it is sent, or 0 for bytes 0x00.
Closed(M, F, C) ==
    \A p \in Params :
        /\ V(p, "user") \in F[p] /\ V(p, "empty") \in F[p]
        /\ \A v \in F[p] : Number(v) \in C[p] /\ Number2(v) \in C[p]
        /\ \A v \in C[p] : v.from # "blank" => v \in M[p]
        /\ V(p, "zero") \in M[p]

\* Values travel from the fields through commands to the motor.
Flow(M, F, C) ==
    /\ \A p \in Params : motor[p] \in M[p] /\ field[p] \in F[p]
    /\ stack \in Seq(Seq(StepsOf(C)))
    /\ out \in Seq(CmdsOf(C))

LEMMA StepKinds ==
  ASSUME NEW C, NEW t \in StepsOf(C)
  PROVE  /\ t.do \in {"write", "sleep", "exec"}
         /\ t.do = "write" => t = Write(t.cmd) /\ t.cmd \in CmdsOf(C)
         /\ t.do = "sleep" => t = Sleep
         /\ t.do = "exec" => t = Exec
  BY DEF StepsOf, Sleep, Exec, Write

LEMMA SetKept ==
  ASSUME NEW C, NEW p \in Params, NEW v \in Value, v \in C[p]
  PROVE  SetCmd(p, v) \in CmdsOf(C)
  BY DEF SetCmd, CmdsOf, Cmd

LEMMA PlainCmds ==
  ASSUME NEW C
  PROVE  /\ \A p \in Params : ReadCmd(p) \in CmdsOf(C)
         /\ \A c \in Coils : CoilCmd(c) \in CmdsOf(C)
         /\ \A c \in States : StateCmd(c) \in CmdsOf(C)
         /\ \A b \in DOMAIN TestBox : TestBox[b] \in CmdsOf(C)
<1>1. \A p \in Params : ReadCmd(p) \in CmdsOf(C)
  BY DEF ReadCmd, CmdsOf, Cmd
<1>2. \A c \in Coils : CoilCmd(c) \in CmdsOf(C)
  BY DEF CoilCmd, CmdsOf, Cmd
<1>3. \A c \in States : StateCmd(c) \in CmdsOf(C)
  BY DEF StateCmd, CmdsOf, Cmd
<1>4. ASSUME NEW b \in DOMAIN TestBox PROVE TestBox[b] \in CmdsOf(C)
  <2>1. TestBox[b] \in {CoilCmd("STOP"), CoilCmd("ROTATE_ALL_TIME"), ReadCmd("angle"),
            ReadCmd("speed"), StateCmd("ENABLE"), StateCmd("ROTATE"),
            CoilCmd("ENABLE_LOCKED"), CoilCmd("ENABLE_RELEASE")}
    BY DEF TestBox
  <2>2. /\ "STOP" \in Coils /\ "ROTATE_ALL_TIME" \in Coils /\ "ENABLE_LOCKED" \in Coils
        /\ "ENABLE_RELEASE" \in Coils /\ "ENABLE" \in States /\ "ROTATE" \in States
        /\ "angle" \in Params /\ "speed" \in Params
    BY DEF Coils, States, Params
  <2> QED BY <1>1, <1>2, <1>3, <2>1, <2>2
<1> QED BY <1>1, <1>2, <1>3, <1>4

\* The scripts of one step, of three and of five.
LEMMA ScriptOfThree ==
  ASSUME NEW C, NEW a \in CmdsOf(C), NEW b \in CmdsOf(C), a.op # "read", b.op # "read"
  PROVE  <<Write(a), Sleep, Write(b)>> \in Seq(StepsOf(C)) /\ Shaped(<<Write(a), Sleep, Write(b)>>)
<1> DEFINE s == <<Write(a), Sleep, Write(b)>>
<1>1. Write(a) \in StepsOf(C) /\ Write(b) \in StepsOf(C) /\ Sleep \in StepsOf(C)
  BY DEF StepsOf, Write
<1>2. s \in Seq(StepsOf(C))
  BY <1>1
<1>3. Len(s) = 3 /\ s[1] = Write(a) /\ s[2] = Sleep /\ s[3] = Write(b) /\ s # <<>>
  OBVIOUS
<1>4. /\ Write(a).do = "write" /\ Write(a).cmd = a /\ Write(b).do = "write" /\ Write(b).cmd = b
      /\ Sleep.do = "sleep"
  BY DEF Write, Sleep
<1>5. Shaped(s)
  <2> SUFFICES ASSUME NEW k \in 1 .. 3
               PROVE  /\ (s[k].do = "write" /\ k < 3) => s[k + 1] = Sleep
                      /\ (s[k].do = "write" /\ s[k].cmd.op = "read") => 3 = 1
                      /\ s[k].do = "exec" => 3 = 1
    BY <1>3 DEF Shaped
  <2>1. k = 1 \/ k = 2 \/ k = 3
    OBVIOUS
  <2> HIDE DEF s
  <2> QED BY <1>3, <1>4, <2>1
<1> QED BY <1>2, <1>5

LEMMA ScriptOfOne ==
  ASSUME NEW C, NEW t \in StepsOf(C)
  PROVE  <<t>> \in Seq(StepsOf(C)) /\ Shaped(<<t>>)
<1>1. <<t>> \in Seq(StepsOf(C)) /\ Len(<<t>>) = 1 /\ <<t>> # <<>>
  OBVIOUS
<1> QED BY <1>1 DEF Shaped

LEMMA StartScript ==
  ASSUME NEW C
  PROVE  Start \in Seq(StepsOf(C)) /\ Shaped(Start)
<1> DEFINE a == CoilCmd("ENABLE_LOCKED")
           b == CoilCmd("ROTATE_A")
           c == CoilCmd("ROTATE_B")
           s == <<Write(a), Sleep, Write(b), Sleep, Write(c)>>
<1>1. a \in CmdsOf(C) /\ b \in CmdsOf(C) /\ c \in CmdsOf(C)
  BY PlainCmds DEF Coils
<1>2. a.op = "coil" /\ b.op = "coil" /\ c.op = "coil"
  BY DEF CoilCmd
<1> HIDE DEF a, b, c
<1>3. Write(a) \in StepsOf(C) /\ Write(b) \in StepsOf(C) /\ Write(c) \in StepsOf(C) /\ Sleep \in StepsOf(C)
  BY <1>1 DEF StepsOf, Write
<1>4. s \in Seq(StepsOf(C))
  BY <1>3
<1>5. /\ Len(s) = 5 /\ s[1] = Write(a) /\ s[2] = Sleep /\ s[3] = Write(b) /\ s[4] = Sleep
      /\ s[5] = Write(c) /\ s # <<>>
  OBVIOUS
<1>6. /\ Write(a).do = "write" /\ Write(a).cmd = a /\ Write(b).do = "write" /\ Write(b).cmd = b
      /\ Write(c).do = "write" /\ Write(c).cmd = c /\ Sleep.do = "sleep"
  BY DEF Write, Sleep
<1>7. Shaped(s)
  <2> SUFFICES ASSUME NEW k \in 1 .. 5
               PROVE  /\ (s[k].do = "write" /\ k < 5) => s[k + 1] = Sleep
                      /\ (s[k].do = "write" /\ s[k].cmd.op = "read") => 5 = 1
                      /\ s[k].do = "exec" => 5 = 1
    BY <1>5 DEF Shaped
  <2>1. k = 1 \/ k = 2 \/ k = 3 \/ k = 4 \/ k = 5
    OBVIOUS
  <2> HIDE DEF s
  <2> QED BY <1>2, <1>5, <1>6, <2>1
<1>8. Start = s
  BY DEF Start, a, b, c
<1> QED BY <1>4, <1>7, <1>8

\* The scripts of both applies carry numbers of the fields.
LEMMA ApplyScripts ==
  ASSUME NEW C \in ValueSets, NEW F, NEW M, Closed(M, F, C), \A p \in Params : field[p] \in F[p]
  PROVE  /\ Apply \in Seq(StepsOf(C)) /\ Shaped(Apply)
         /\ Apply2 \in Seq(StepsOf(C)) /\ Shaped(Apply2)
<1>1. \A p \in Params : Number(field[p]) \in C[p] /\ Number2(field[p]) \in C[p]
  BY DEF Closed
<1>2. "speed" \in Params /\ "angle" \in Params
  BY DEF Params
<1>3. \A p \in Params : Number(field[p]) \in Value /\ Number2(field[p]) \in Value
  BY <1>1 DEF ValueSets
<1>4. \A p \in Params : /\ SetCmd(p, Number(field[p])) \in CmdsOf(C)
                        /\ SetCmd(p, Number2(field[p])) \in CmdsOf(C)
                        /\ SetCmd(p, Number(field[p])).op # "read"
                        /\ SetCmd(p, Number2(field[p])).op # "read"
  <2>1. \A p, v : SetCmd(p, v).op # "read"
    BY DEF SetCmd
  <2> QED BY <1>1, <1>3, <2>1, SetKept
<1> QED BY <1>2, <1>4, ScriptOfThree DEF Apply, Apply2

----------------------------------------------------------------------------
(* The stack. *)

\* A step done leaves the slot with the rest of its script, or takes the slot away.
LEMMA AdvanceShape ==
  ASSUME NEW S, stack \in Seq(Seq(S)), stack # <<>>, stack[Len(stack)] # <<>>, Advance
  PROVE  /\ Len(stack) \in Nat /\ Len(stack) >= 1 /\ stack' \in Seq(Seq(S))
         /\ \A k \in 1 .. Len(stack) - 1 : stack'[k] = stack[k]
         /\ \/ Len(stack[Len(stack)]) = 1 /\ Len(stack') = Len(stack) - 1
            \/ /\ Len(stack[Len(stack)]) > 1 /\ Len(stack') = Len(stack)
               /\ stack'[Len(stack)] = Tail(stack[Len(stack)])
<1> DEFINE n == Len(stack)
           top == stack[n]
           f == Front(stack)
<1>1. n \in Nat /\ n >= 1 /\ top \in Seq(S) /\ \A k \in 1 .. n - 1 : stack[k] \in Seq(S)
  OBVIOUS
<1>2. Tail(top) \in Seq(S) /\ Len(Tail(top)) = Len(top) - 1 /\ Len(top) \in Nat /\ Len(top) >= 1
  BY <1>1
<1>3. f \in Seq(Seq(S)) /\ Len(f) = n - 1 /\ \A k \in 1 .. n - 1 : f[k] = stack[k]
  <2>1. /\ SubSeq(stack, 1, n - 1) \in Seq(Seq(S))
        /\ Len(SubSeq(stack, 1, n - 1)) = IF 1 <= n - 1 THEN n - 1 - 1 + 1 ELSE 0
        /\ \A k \in 1 .. n - 1 - 1 + 1 : SubSeq(stack, 1, n - 1)[k] = stack[1 + k - 1]
    <3>1. n - 1 \in Int
      BY <1>1
    <3> HIDE DEF n
    <3> QED BY <1>1, <3>1, SubSeqProperties
  <2>2. \A m \in Nat : m >= 1 => /\ m - 1 - 1 + 1 = m - 1
                                 /\ (IF 1 <= m - 1 THEN m - 1 - 1 + 1 ELSE 0) = m - 1
    OBVIOUS
  <2>3. \A k \in 1 .. n - 1 : 1 + k - 1 = k
    OBVIOUS
  <2>4. n - 1 - 1 + 1 = n - 1 /\ (IF 1 <= n - 1 THEN n - 1 - 1 + 1 ELSE 0) = n - 1
    <3> HIDE DEF n
    <3> QED BY <1>1, <2>2, Zenon
  <2>5. f = SubSeq(stack, 1, n - 1)
    BY DEF Front
  <2> HIDE DEF f, n
  <2> QED BY <2>1, <2>3, <2>4, <2>5
<1>4. CASE Len(top) = 1
  <2>1. Tail(top) = <<>>
    <3>1. Len(Tail(top)) = 0
      <4> HIDE DEF top
      <4> QED BY <1>2, <1>4
    <3>2. \A q \in Seq(S) : q = <<>> <=> Len(q) = 0
      OBVIOUS
    <3> HIDE DEF top
    <3> QED BY <1>2, <3>1, <3>2
  <2>2. stack' = f
    BY <2>1 DEF Advance
  <2> HIDE DEF f
  <2> QED BY <1>1, <1>3, <1>4, <2>2
<1>5. CASE Len(top) # 1
  <2>1. Tail(top) # <<>> /\ Len(top) > 1
    <3> HIDE DEF top
    <3>1. Len(top) > 1 /\ Len(Tail(top)) # 0
      BY <1>2, <1>5
    <3>2. \A q \in Seq(S) : q = <<>> <=> Len(q) = 0
      OBVIOUS
    <3> QED BY <1>2, <3>1, <3>2
  <2>2. stack' = f \o <<Tail(top)>>
    BY <2>1 DEF Advance
  <2>3. <<Tail(top)>> \in Seq(Seq(S)) /\ Len(<<Tail(top)>>) = 1 /\ <<Tail(top)>>[1] = Tail(top)
    BY <1>2
  <2>4. /\ stack' \in Seq(Seq(S)) /\ Len(stack') = n
        /\ \A k \in 1 .. n - 1 : stack'[k] = f[k]
        /\ stack'[n] = Tail(top)
    <3>1. /\ f \o <<Tail(top)>> \in Seq(Seq(S))
          /\ Len(f \o <<Tail(top)>>) = Len(f) + Len(<<Tail(top)>>)
          /\ \A i \in 1 .. Len(f) + Len(<<Tail(top)>>) : (f \o <<Tail(top)>>)[i] =
                 IF i <= Len(f) THEN f[i] ELSE <<Tail(top)>>[i - Len(f)]
      <4> HIDE DEF f
      <4> QED BY <1>3, <2>3, ConcatProperties
    <3>3. /\ stack' \in Seq(Seq(S)) /\ Len(stack') = n - 1 + 1
          /\ \A i \in 1 .. n - 1 + 1 : stack'[i] = IF i <= n - 1 THEN f[i] ELSE <<Tail(top)>>[i - (n - 1)]
      <4> HIDE DEF f, n, top
      <4> QED BY <1>3, <2>2, <2>3, <3>1
    <3>2. n - 1 + 1 = n /\ n - (n - 1) = 1 /\ ~(n <= n - 1) /\ n \in 1 .. n
          /\ \A k \in 1 .. n - 1 : k \in 1 .. n /\ k <= n - 1
      BY <1>1
    <3> HIDE DEF f, n, top
    <3> QED BY <2>3, <3>2, <3>3
  <2> HIDE DEF f
  <2> QED BY <1>1, <1>3, <2>1, <2>4
<1> QED BY <1>4, <1>5

\* A slot that is entered is on top.
LEMMA CallShape ==
  ASSUME NEW S, stack \in Seq(Seq(S)), NEW s \in Seq(S), Call(s)
  PROVE  /\ Len(stack) \in Nat /\ stack' \in Seq(Seq(S)) /\ Len(stack') = Len(stack) + 1
         /\ \A k \in 1 .. Len(stack) : stack'[k] = stack[k]
         /\ stack'[Len(stack) + 1] = s
  BY AppendProperties DEF Call

LEMMA TopStep ==
  ASSUME NEW S, stack \in Seq(Seq(S)), stack # <<>>, stack[Len(stack)] # <<>>
  PROVE  /\ Len(stack) \in Nat /\ Len(stack) >= 1
         /\ Step = stack[Len(stack)][1] /\ Step \in S
         /\ stack[Len(stack)] \in Seq(S)
<1> DEFINE top == stack[Len(stack)]
<1>1. Len(stack) \in Nat /\ Len(stack) >= 1 /\ top \in Seq(S)
  OBVIOUS
<1>2. top # <<>> => Head(top) = top[1] /\ top[1] \in S
  <2> HIDE DEF top
  <2> QED BY <1>1
<1> QED BY <1>1, <1>2 DEF Step

LEMMA RestShaped ==
  ASSUME NEW S, NEW s \in Seq(S), Shaped(s), Len(s) > 1
  PROVE  /\ Shaped(Tail(s)) /\ Tail(s)[1] = s[2]
         /\ s[2].do # "exec" /\ ~(s[2].do = "write" /\ s[2].cmd.op = "read")
         /\ s[1].do = "write" => s[2] = Sleep
<1>1. /\ Tail(s) \in Seq(S) /\ Len(Tail(s)) = Len(s) - 1 /\ s # <<>> /\ Len(s) \in Nat
      /\ \A k \in 1 .. Len(s) - 1 : Tail(s)[k] = s[k + 1]
  <2>1. s # <<>> /\ Len(s) \in Nat
    OBVIOUS
  <2>2. Tail(s) \in Seq(S) /\ Len(Tail(s)) = Len(s) - 1 /\ \A i \in 1 .. Len(Tail(s)) : Tail(s)[i] = s[i + 1]
    BY <2>1, HeadTailProperties
  <2> QED BY <2>1, <2>2
<1>2. Tail(s) # <<>>
  <2>1. Len(Tail(s)) # 0 /\ Len(<<>>) = 0
    BY <1>1
  <2> QED BY <2>1, Zenon
<1>3. ASSUME NEW k \in 1 .. Len(s) - 1
      PROVE  /\ (Tail(s)[k].do = "write" /\ k < Len(s) - 1) => Tail(s)[k + 1] = Sleep
             /\ ~(Tail(s)[k].do = "write" /\ Tail(s)[k].cmd.op = "read")
             /\ Tail(s)[k].do # "exec"
  <2>1. k + 1 \in 1 .. Len(s) /\ (k < Len(s) - 1 => k + 1 < Len(s) /\ k + 1 \in 1 .. Len(s) - 1)
    BY <1>1
  <2>2. Tail(s)[k] = s[k + 1] /\ (k < Len(s) - 1 => Tail(s)[k + 1] = s[(k + 1) + 1])
    BY <1>1, <2>1
  <2>3. Len(s) # 1
    BY <1>1
  <2> QED BY <2>1, <2>2, <2>3 DEF Shaped
<1>4. Shaped(Tail(s))
  BY <1>1, <1>2, <1>3 DEF Shaped
<1>5. 1 \in 1 .. Len(s) /\ 1 < Len(s) /\ 1 \in 1 .. Len(s) - 1 /\ 1 + 1 = 2
  BY <1>1
<1> QED BY <1>1, <1>3, <1>4, <1>5 DEF Shaped

\* The invariant of the stack: every slot has its shape, slots other than the innermost
\* one sleep or show the dialog, and one slot shows it exactly while it is there.
Modal(s) == s[1].do = "exec"
StackInv ==
    /\ \A i \in 1 .. Len(stack) : Shaped(stack[i])
    /\ \A i \in 1 .. Len(stack) - 1 : stack[i][1].do # "write"
    /\ \A i, j \in 1 .. Len(stack) : Modal(stack[i]) /\ Modal(stack[j]) => i = j
    /\ dialog # "closed" <=> \E i \in 1 .. Len(stack) : Modal(stack[i])

\* A slot that is entered while the event loop runs, and shows no dialog.
LEMMA CallKeepsStack ==
  ASSUME NEW S, stack \in Seq(Seq(S)), StackInv, EventLoop, NEW s \in Seq(S), Shaped(s),
         Call(s), s[1].do # "exec", dialog' \in {"open", "leaving", "closed"},
         dialog' # "closed" <=> dialog # "closed"
  PROVE  StackInv'
<1> DEFINE n == Len(stack)
<1>1. /\ n \in Nat /\ Len(stack') = n + 1 /\ stack'[n + 1] = s
      /\ \A k \in 1 .. n : stack'[k] = stack[k]
  BY CallShape
<1>2. \A i \in 1 .. n : stack[i][1].do # "write"
  <2> SUFFICES ASSUME n # 0 PROVE stack[n][1].do # "write"
    BY <1>1 DEF StackInv
  <2>1. stack # <<>> /\ stack[n] # <<>>
    <3>1. stack # <<>> /\ n \in 1 .. n
      BY <1>1
    <3> QED BY <3>1 DEF StackInv, Shaped
  <2>2. Step = stack[n][1]
    BY <2>1, TopStep
  <2> QED BY <2>1, <2>2 DEF EventLoop, Doing
<1> HIDE DEF n
<1>3. \A i \in 1 .. n + 1 : i \in 1 .. n \/ i = n + 1
  BY <1>1
<1>4. \A i \in 1 .. n + 1 : Shaped(stack'[i])
  BY <1>1, <1>3 DEF StackInv, n
<1>5. \A i \in 1 .. n + 1 - 1 : stack'[i][1].do # "write"
  BY <1>1, <1>2
<1>6. \A i \in 1 .. n + 1 : Modal(stack'[i]) <=> i \in 1 .. n /\ Modal(stack[i])
  BY <1>1, <1>3 DEF Modal
<1>7. \A i, j \in 1 .. n + 1 : Modal(stack'[i]) /\ Modal(stack'[j]) => i = j
  BY <1>6 DEF StackInv, n
<1>8. (dialog # "closed")' <=> \E i \in 1 .. n + 1 : Modal(stack'[i])
  BY <1>1, <1>6 DEF StackInv, n
<1>9. \A i \in 1 .. n + 1 : Modal(stack'[i]) <=> Modal(stack[i])'
  BY DEF Modal
<1> QED BY <1>1, <1>4, <1>5, <1>7, <1>8 DEF StackInv, Shaped, Modal

\* A slot that goes on after a write or a sleep.
LEMMA AdvanceKeepsStack ==
  ASSUME NEW S, stack \in Seq(Seq(S)), StackInv, stack # <<>>, Step.do # "exec", Advance,
         dialog' = dialog
  PROVE  StackInv'
<1> DEFINE n == Len(stack)
           top == stack[n]
<1>0. n \in Nat /\ n >= 1 /\ n \in 1 .. n /\ stack[n] # <<>> /\ top \in Seq(S) /\ Shaped(top)
  <2>1. n \in Nat /\ n >= 1 /\ n \in 1 .. n
    OBVIOUS
  <2> QED BY <2>1 DEF StackInv, Shaped
<1>1. top[1].do # "exec"
  BY <1>0, TopStep
<1>2. /\ \A k \in 1 .. n - 1 : stack'[k] = stack[k]
      /\ \/ Len(stack') = n - 1
         \/ Len(top) > 1 /\ Len(stack') = n /\ stack'[n] = Tail(top)
  BY <1>0, AdvanceShape
<1>3. \A k \in 1 .. n - 1 : k \in 1 .. n
  BY <1>0
<1>4. CASE Len(stack') = n - 1
  <2>1. \A i \in 1 .. n - 1 : Shaped(stack'[i])
    BY <1>2, <1>3 DEF StackInv
  <2>2. \A i \in 1 .. n - 1 - 1 : i \in 1 .. n - 1
    BY <1>0
  <2>3. \A i \in 1 .. n - 1 - 1 : stack'[i][1].do # "write"
    BY <1>2, <2>2 DEF StackInv
  <2>4. \A i \in 1 .. n - 1 : Modal(stack'[i]) <=> Modal(stack[i])
    BY <1>2 DEF Modal
  <2>5. \A i \in 1 .. n : Modal(stack[i]) => i \in 1 .. n - 1
    <3>1. \A i \in 1 .. n : i \in 1 .. n - 1 \/ i = n
      BY <1>0
    <3> QED BY <1>1, <3>1 DEF Modal
  <2>6. dialog' # "closed" <=> \E i \in 1 .. n - 1 : Modal(stack'[i])
    BY <1>3, <2>4, <2>5 DEF StackInv
  <2>7. \A i, j \in 1 .. n - 1 : Modal(stack'[i]) /\ Modal(stack'[j]) => i = j
    BY <1>3, <2>4 DEF StackInv
  <2> QED BY <1>4, <2>1, <2>3, <2>6, <2>7 DEF StackInv, Shaped, Modal
<1>5. CASE Len(top) > 1 /\ Len(stack') = n /\ stack'[n] = Tail(top)
  <2>0. Shaped(Tail(top)) /\ Tail(top)[1].do # "exec"
    BY <1>0, <1>5, RestShaped
  <2>1. \A i \in 1 .. n : i \in 1 .. n - 1 \/ i = n
    BY <1>0
  <2>2. \A i \in 1 .. n : Shaped(stack'[i])
    BY <1>2, <1>3, <1>5, <2>0, <2>1 DEF StackInv
  <2>3. \A i \in 1 .. n - 1 : stack'[i][1].do # "write"
    BY <1>2 DEF StackInv
  <2>4. \A i \in 1 .. n : Modal(stack'[i]) <=> Modal(stack[i])
    BY <1>1, <1>2, <1>5, <2>0, <2>1 DEF Modal
  <2>5. dialog' # "closed" <=> \E i \in 1 .. n : Modal(stack'[i])
    BY <2>4 DEF StackInv
  <2>6. \A i, j \in 1 .. n : Modal(stack'[i]) /\ Modal(stack'[j]) => i = j
    BY <2>4 DEF StackInv
  <2> QED BY <1>5, <2>2, <2>3, <2>5, <2>6 DEF StackInv, Shaped, Modal
<1> QED BY <1>2, <1>4, <1>5

LEMMA OpenKeepsStack ==
  ASSUME NEW C, stack \in Seq(Seq(StepsOf(C))), StackInv, EventLoop, OpenSettings
  PROVE  StackInv'
<1> DEFINE n == Len(stack)
           s == <<Exec>>
<1>0. Exec \in StepsOf(C) /\ s \in Seq(StepsOf(C)) /\ Shaped(s) /\ s[1].do = "exec"
  <2>1. Exec \in StepsOf(C)
    BY DEF StepsOf
  <2> QED BY <2>1, ScriptOfOne DEF Exec
<1>1. /\ n \in Nat /\ Len(stack') = n + 1 /\ stack'[n + 1] = s
      /\ \A k \in 1 .. n : stack'[k] = stack[k]
      /\ dialog = "closed" /\ dialog' = "open"
  BY <1>0, CallShape DEF OpenSettings
<1>2. \A i \in 1 .. n : stack[i][1].do # "write"
  <2> SUFFICES ASSUME n # 0 PROVE stack[n][1].do # "write"
    BY <1>1 DEF StackInv
  <2>1. stack # <<>> /\ stack[n] # <<>>
    <3>1. stack # <<>> /\ n \in 1 .. n
      BY <1>1
    <3> QED BY <3>1 DEF StackInv, Shaped
  <2>2. Step = stack[n][1]
    BY <2>1, TopStep
  <2> QED BY <2>1, <2>2 DEF EventLoop, Doing
<1> HIDE DEF n, s
<1>3. \A i \in 1 .. n + 1 : i \in 1 .. n \/ i = n + 1
  BY <1>1
<1>4. \A i \in 1 .. n + 1 : Shaped(stack'[i])
  BY <1>0, <1>1, <1>3 DEF StackInv, n
<1>5. \A i \in 1 .. n + 1 - 1 : stack'[i][1].do # "write"
  BY <1>1, <1>2
<1>6. \A i \in 1 .. n + 1 : Modal(stack'[i]) <=> i = n + 1
  <2>1. \A i \in 1 .. n : ~Modal(stack[i])
    BY <1>1 DEF StackInv, n
  <2>2. \A i \in 1 .. n : i # n + 1
    BY <1>1
  <2> QED BY <1>0, <1>1, <1>3, <2>1, <2>2 DEF Modal
<1>7. n + 1 \in 1 .. n + 1
  BY <1>1
<1> QED BY <1>1, <1>4, <1>5, <1>6, <1>7 DEF StackInv, Shaped, Modal

LEMMA ReturnKeepsStack ==
  ASSUME NEW S, stack \in Seq(Seq(S)), StackInv, Return
  PROVE  StackInv'
<1> DEFINE n == Len(stack)
           top == stack[n]
<1>0. n \in Nat /\ n >= 1 /\ n \in 1 .. n /\ stack[n] # <<>> /\ top \in Seq(S) /\ Shaped(top)
      /\ stack # <<>>
  <2>1. n \in Nat /\ n >= 1 /\ n \in 1 .. n /\ stack # <<>>
    BY DEF Return, Doing
  <2>2. top \in Seq(S)
    BY <2>1
  <2>3. Shaped(top)
    BY <2>1 DEF StackInv
  <2> HIDE DEF n, top
  <2>4. top # <<>>
    BY <2>3 DEF Shaped
  <2> QED BY <2>1, <2>2, <2>3, <2>4 DEF top
<1>1. Modal(top) /\ Len(top) = 1
  <2>1. top[1].do = "exec"
    BY <1>0, TopStep DEF Return, Doing
  <2>2. 1 \in 1 .. Len(top)
    <3>1. top # <<>> => 1 \in 1 .. Len(top)
      BY <1>0
    <3> QED BY <1>0, <3>1
  <2> QED BY <1>0, <2>1, <2>2 DEF Modal, Shaped
<1>2. \A k \in 1 .. n - 1 : stack'[k] = stack[k]
  BY <1>0, AdvanceShape DEF Return
<1>3. Len(stack') = n - 1
  <2>1. ~(Len(top) > 1)
    BY <1>1
  <2> QED BY <1>0, <2>1, AdvanceShape DEF Return
<1>4. \A k \in 1 .. n - 1 : k \in 1 .. n /\ k # n
  BY <1>0
<1>5. \A i \in 1 .. n - 1 : Shaped(stack'[i]) /\ ~Modal(stack'[i])
  BY <1>0, <1>1, <1>2, <1>4 DEF StackInv, Modal
<1>6. \A i \in 1 .. n - 1 - 1 : i \in 1 .. n - 1
  BY <1>0
<1>7. \A i \in 1 .. n - 1 - 1 : stack'[i][1].do # "write"
  BY <1>2, <1>6 DEF StackInv
<1>8. dialog' = "closed"
  BY DEF Return
<1> QED BY <1>3, <1>5, <1>7, <1>8 DEF StackInv, Shaped, Modal

\* Every step leaves the stack, enters a slot, goes on in one, or opens or leaves the
\* dialog.
StackMove(C) ==
    \/ UNCHANGED <<stack, dialog>>
    \/ UNCHANGED stack /\ dialog = "open" /\ dialog' = "leaving"
    \/ EventLoop /\ UNCHANGED dialog
       /\ \E s \in Seq(StepsOf(C)) : Call(s) /\ Shaped(s) /\ s[1].do = "write"
    \/ EventLoop /\ OpenSettings
    \/ Return
    \/ stack # <<>> /\ Step.do # "exec" /\ Advance /\ UNCHANGED dialog

LEMMA PressMoves ==
  ASSUME NEW C \in ValueSets, NEW F, NEW M, Closed(M, F, C), \A p \in Params : field[p] \in F[p],
         NEW b, Press(b)
  PROVE  /\ StackMove(C) /\ UNCHANGED <<line, menuBuf, checked>>
         /\ dlgBuf' = dlgBuf \/ (dlgBuf' = <<>> /\ OpenSettings)
         /\ \A p \in Params : field'[p] \in F[p]
<1>1. EventLoop
  BY DEF Press
<1>2. CASE PressGo
  <2>1. Call(Start) /\ UNCHANGED <<dialog, line, menuBuf, checked, dlgBuf, field>>
    BY <1>2 DEF PressGo, dlg, recv
  <2>2. Start[1].do = "write"
    BY DEF Start, Write
  <2> QED BY <1>1, <2>1, <2>2, StartScript DEF StackMove
<1>3. CASE OpenSettings
  <2>1. UNCHANGED <<line, menuBuf, checked>> /\ dlgBuf' = <<>> /\ field' = [p \in Params |-> V(p, "empty")]
    BY <1>3 DEF OpenSettings
  <2>2. \A p \in Params : field'[p] \in F[p]
    BY <2>1 DEF Closed
  <2> QED BY <1>1, <1>3, <2>1, <2>2 DEF StackMove
<1>4. CASE Reject(b)
  BY <1>4 DEF Reject, StackMove, recv
<1>5. CASE PressApply
  <2>1. Call(Apply) /\ UNCHANGED <<dialog, line, menuBuf, checked, dlgBuf, field>>
    BY <1>5 DEF PressApply, dlg, recv
  <2>2. Apply[1].do = "write"
    BY DEF Apply, Write
  <2> QED BY <1>1, <2>1, <2>2, ApplyScripts DEF StackMove
<1>6. CASE PressApply2
  <2>1. Call(Apply2) /\ UNCHANGED <<dialog, line, menuBuf, checked, dlgBuf, field>>
    BY <1>6 DEF PressApply2, dlg, recv
  <2>2. Apply2[1].do = "write"
    BY DEF Apply2, Write
  <2> QED BY <1>1, <2>1, <2>2, ApplyScripts DEF StackMove
<1>7. CASE InDialog(Start)
  <2>1. Call(Start) /\ UNCHANGED <<dialog, line, menuBuf, checked, dlgBuf, field>>
    BY <1>7 DEF InDialog, dlg, recv
  <2>2. Start[1].do = "write"
    BY DEF Start, Write
  <2> QED BY <1>1, <2>1, <2>2, StartScript DEF StackMove
<1>8. CASE b \in DOMAIN TestBox /\ InDialog(<<Write(TestBox[b])>>)
  <2>1. Call(<<Write(TestBox[b])>>) /\ UNCHANGED <<dialog, line, menuBuf, checked, dlgBuf, field>>
    BY <1>8 DEF InDialog, dlg, recv
  <2>2. Write(TestBox[b]) \in StepsOf(C) /\ Write(TestBox[b]).do = "write"
    <3>1. TestBox[b] \in CmdsOf(C)
      BY <1>8, PlainCmds
    <3> QED BY <3>1 DEF StepsOf, Write
  <2>3. <<Write(TestBox[b])>> \in Seq(StepsOf(C)) /\ Shaped(<<Write(TestBox[b])>>)
    BY <2>2, ScriptOfOne
  <2> QED BY <1>1, <2>1, <2>2, <2>3 DEF StackMove
<1>9. ASSUME NEW p \in Params, Edit(p) 
      PROVE  /\ StackMove(C) /\ UNCHANGED <<line, menuBuf, checked, dlgBuf>>
             /\ \A q \in Params : field'[q] \in F[q]
  <2>1. UNCHANGED <<stack, dialog, line, menuBuf, checked, dlgBuf>> /\ field' = [field EXCEPT ![p] = V(p, "user")]
    BY <1>9 DEF Edit, dlg, recv
  <2>2. \A q \in Params : field'[q] = field[q] \/ field'[q] = V(q, "user")
    BY <2>1
  <2> QED BY <2>1, <2>2 DEF StackMove, Closed
<1>10. "speed" \in Params /\ "angle" \in Params
  BY DEF Params
<1> QED BY <1>2, <1>3, <1>4, <1>5, <1>6, <1>7, <1>8, <1>9, <1>10 DEF Press
\* The stack stays a stack of scripts of the same commands, in its shape.
LEMMA StackKept ==
  ASSUME NEW C \in ValueSets, stack \in Seq(Seq(StepsOf(C))), StackInv, StackMove(C),
         dialog' \in {"open", "leaving", "closed"}
  PROVE  stack' \in Seq(Seq(StepsOf(C))) /\ StackInv'
<1>1. CASE UNCHANGED <<stack, dialog>>
  BY <1>1 DEF StackInv, Shaped, Modal
<1>2. CASE UNCHANGED stack /\ dialog = "open" /\ dialog' = "leaving"
  BY <1>2 DEF StackInv, Shaped, Modal
<1>3. ASSUME EventLoop, UNCHANGED dialog, NEW s \in Seq(StepsOf(C)), Call(s), Shaped(s), s[1].do = "write"
      PROVE  stack' \in Seq(Seq(StepsOf(C))) /\ StackInv'
  <2>1. s[1].do # "exec" /\ (dialog' # "closed" <=> dialog # "closed")
    BY <1>3
  <2>2. stack' \in Seq(Seq(StepsOf(C)))
    BY <1>3, CallShape
  <2>3. StackInv'
    BY <1>3, <2>1, CallKeepsStack
  <2> QED BY <2>2, <2>3
<1>4. CASE EventLoop /\ OpenSettings
  <2>1. Call(<<Exec>>) /\ <<Exec>> \in Seq(StepsOf(C))
    BY <1>4 DEF OpenSettings, StepsOf
  <2>2. stack' \in Seq(Seq(StepsOf(C)))
    BY <2>1, CallShape
  <2> QED BY <1>4, <2>2, OpenKeepsStack
<1>5. ASSUME stack # <<>>, Advance PROVE stack' \in Seq(Seq(StepsOf(C)))
  <2>1. Len(stack) \in 1 .. Len(stack)
    BY <1>5
  <2>2. stack[Len(stack)] # <<>>
    BY <2>1 DEF StackInv, Shaped
  <2> QED BY <1>5, <2>2, AdvanceShape
<1>6. CASE Return
  <2>1. stack # <<>> /\ Advance
    BY <1>6 DEF Return, Doing
  <2> QED BY <1>5, <1>6, <2>1, ReturnKeepsStack
<1>7. CASE stack # <<>> /\ Step.do # "exec" /\ Advance /\ UNCHANGED dialog
  BY <1>5, <1>7, AdvanceKeepsStack
<1> QED BY <1>1, <1>2, <1>3, <1>4, <1>6, <1>7 DEF StackMove

\* What a slot does now is the first step of its script.
LEMMA TopIs ==
  ASSUME NEW S, stack \in Seq(Seq(S)), StackInv
  PROVE  /\ Len(stack) \in Nat
         /\ stack # <<>> <=> Len(stack) >= 1
         /\ stack # <<>> => /\ Len(stack) \in 1 .. Len(stack)
                            /\ stack[Len(stack)] # <<>> /\ stack[Len(stack)] \in Seq(S)
                            /\ Step = stack[Len(stack)][1] /\ Step \in S
<1>1. Len(stack) \in Nat /\ (stack # <<>> <=> Len(stack) >= 1)
      /\ (stack # <<>> => Len(stack) \in 1 .. Len(stack))
  OBVIOUS
<1>2. ASSUME stack # <<>> PROVE stack[Len(stack)] # <<>>
  BY <1>1, <1>2 DEF StackInv, Shaped
<1> QED BY <1>1, <1>2, TopStep

\* After a step of a slot, what is next is no write to read a value, and after a write
\* no write at all.
LEMMA WritesOnce ==
  ASSUME NEW S, stack \in Seq(Seq(S)), StackInv, stack # <<>>, Advance
  PROVE  /\ ~(Doing("write") /\ Step.cmd.op = "read")'
         /\ Doing("write") => ~Doing("write")'
<1> DEFINE n == Len(stack)
           top == stack[n]
<1>1. n \in Nat /\ n >= 1 /\ n \in 1 .. n /\ top # <<>> /\ top \in Seq(S) /\ Step = top[1]
  BY TopIs
<1>2. /\ stack' \in Seq(Seq(S))
      /\ \A k \in 1 .. n - 1 : stack'[k] = stack[k]
      /\ \/ Len(top) = 1 /\ Len(stack') = n - 1
         \/ Len(top) > 1 /\ Len(stack') = n /\ stack'[n] = Tail(top)
  BY <1>1, AdvanceShape
<1>3. Shaped(top)
  BY <1>1 DEF StackInv
<1> HIDE DEF n, top
<1>4. \A s : s # <<>> /\ s \in Seq(S) => Head(s) = s[1]
  OBVIOUS
<1>5. CASE Len(stack') = n - 1 /\ n - 1 # 0
  <2>1. n - 1 \in 1 .. n - 1 /\ n - 1 \in 1 .. n
    BY <1>1, <1>5
  <2>2. stack'[n - 1] = stack[n - 1] /\ stack[n - 1][1].do # "write" /\ Shaped(stack[n - 1])
    BY <1>2, <2>1 DEF StackInv, n
  <2>3. stack[n - 1] # <<>> /\ stack[n - 1] \in Seq(S)
    BY <2>1, <2>2 DEF Shaped, n
  <2>4. Step' = stack[n - 1][1]
    BY <1>4, <1>5, <2>2, <2>3 DEF Step
  <2> QED BY <2>2, <2>4 DEF Doing
<1>6. CASE Len(stack') = n - 1 /\ n - 1 = 0
  <2>1. stack' = <<>>
    BY <1>2, <1>6
  <2> QED BY <2>1 DEF Doing
<1>7. CASE Len(top) > 1 /\ Len(stack') = n /\ stack'[n] = Tail(top)
  <2>1. /\ Shaped(Tail(top)) /\ Tail(top)[1] = top[2] /\ ~(top[2].do = "write" /\ top[2].cmd.op = "read")
        /\ top[1].do = "write" => top[2] = Sleep
    BY <1>1, <1>3, <1>7, RestShaped
  <2>2. Tail(top) # <<>> /\ Tail(top) \in Seq(S)
    BY <1>1, <2>1 DEF Shaped
  <2>3. Step' = top[2]
    BY <1>4, <1>7, <2>1, <2>2 DEF Step
  <2> QED BY <1>1, <2>1, <2>3 DEF Doing, Sleep
<1> QED BY <1>2, <1>5, <1>6, <1>7

\* A slot that is entered is the one that runs.
LEMMA CalledRuns ==
  ASSUME NEW S, stack \in Seq(Seq(S)), NEW s \in Seq(S), s # <<>>, Call(s)
  PROVE  stack' # <<>> /\ Step' = s[1]
<1>1. /\ Len(stack) \in Nat /\ stack' \in Seq(Seq(S)) /\ Len(stack') = Len(stack) + 1
      /\ stack'[Len(stack) + 1] = s
  BY CallShape
<1>2. Head(s) = s[1]
  OBVIOUS
<1> QED BY <1>1, <1>2 DEF Step

----------------------------------------------------------------------------
(* Pieces on their way. *)

\* Reading splits what has arrived.
LEMMA ChunkTaken ==
  ASSUME NEW S, NEW q \in Seq(S), NEW k \in 1 .. Len(q)
  PROVE  LET a == SubSeq(q, 1, k)
             b == SubSeq(q, k + 1, Len(q))
         IN /\ a \in Seq(S) /\ b \in Seq(S) /\ Len(a) = k /\ Len(b) = Len(q) - k
            /\ \A i \in 1 .. k : a[i] = q[i]
            /\ \A i \in 1 .. Len(q) - k : b[i] = q[k + i]
            /\ b = <<>> <=> k = Len(q)
<1> DEFINE a == SubSeq(q, 1, k)
           b == SubSeq(q, k + 1, Len(q))
<1>0. /\ Len(q) \in Nat /\ k \in Nat /\ 1 <= k /\ k <= Len(q) /\ k + 1 \in Int /\ Len(q) \in Int /\ 1 \in Int /\ k \in Int
      /\ \A i \in 1 .. k : q[i] \in S
      /\ \A i \in k + 1 .. Len(q) : q[i] \in S
  OBVIOUS
<1>1. /\ a \in Seq(S) /\ Len(a) = (IF 1 <= k THEN k - 1 + 1 ELSE 0)
      /\ \A i \in 1 .. k - 1 + 1 : a[i] = q[1 + i - 1]
  BY <1>0, SubSeqProperties
<1>2. /\ b \in Seq(S) /\ Len(b) = (IF k + 1 <= Len(q) THEN Len(q) - (k + 1) + 1 ELSE 0)
      /\ \A i \in 1 .. Len(q) - (k + 1) + 1 : b[i] = q[k + 1 + i - 1]
  BY <1>0, SubSeqProperties
<1> DEFINE n == Len(q)
<1>3. \A i \in 1 .. k : 1 + i - 1 = i /\ i \in 1 .. k - 1 + 1
  BY <1>0
<1>4. n - (k + 1) + 1 = n - k /\ \A i \in 1 .. n - k : k + 1 + i - 1 = k + i
  <2> HIDE DEF n
  <2> QED BY <1>0 DEF n
<1>5. Len(a) = k /\ Len(b) = n - k
  <2> HIDE DEF a, b, n
  <2> QED BY <1>0, <1>1, <1>2 DEF n
<1>6. \A r \in Seq(S) : r = <<>> <=> Len(r) = 0
  OBVIOUS
<1>7. b = <<>> <=> k = n
  <2> HIDE DEF b, n
  <2> QED BY <1>0, <1>2, <1>5, <1>6 DEF n
<1> HIDE DEF a, b, n
<1> QED BY <1>1, <1>2, <1>3, <1>4, <1>5, <1>7 DEF a, b, n

\* Receiving keeps the pieces' values; a field only changes to one of them, or to none
\* of anybody's, and only the field that the phase names.
LEMMA ReceivedByDialog ==
  ASSUME NEW W, back \in Seq(PiecesOf(W)), dlgBuf \in Seq(PiecesOf(W)), field \in [Params -> Value],
         Receive, listener = "dialog"
  PROVE  /\ back' \in Seq(PiecesOf(W)) /\ dlgBuf' \in Seq(PiecesOf(W))
         /\ UNCHANGED <<menuBuf, checked>>
         /\ \/ field' = field
            \/ /\ Routed \in Params
               /\ \E v \in W \cup {V(Routed, "zero"), V(Routed, "garbage")} :
                     field' = [field EXCEPT ![Routed] = v]
<1>1. PICK k \in 1 .. Len(back) : /\ back' = SubSeq(back, k + 1, Len(back))
                                  /\ DialogReads(SubSeq(back, 1, k))
  BY DEF Receive
<1> DEFINE chunk == SubSeq(back, 1, k)
           buf == dlgBuf \o chunk
           val == Parsed(Routed, Window(Stream(buf)))
<1>2. back' \in Seq(PiecesOf(W)) /\ chunk \in Seq(PiecesOf(W))
  BY <1>1, ChunkTaken
<1>3. buf \in Seq(PiecesOf(W))
  <2> HIDE DEF chunk
  <2> QED BY <1>2, ConcatProperties
<1>4. dlgBuf' = (IF Complete(buf) THEN <<>> ELSE buf) /\ UNCHANGED <<menuBuf, checked>>
  BY <1>1 DEF DialogReads
<1>5. <<>> \in Seq(PiecesOf(W))
  OBVIOUS
<1>6. field' = IF Complete(buf) /\ Routed # "none" THEN [field EXCEPT ![Routed] = val] ELSE field
  BY <1>1 DEF DialogReads, Stream
<1>7. val \in W \cup {V(Routed, "zero"), V(Routed, "garbage")}
  BY <1>3, ParsedValue
<1>8. Routed # "none" => Routed \in Params
  BY DEF Routed, Params
<1> HIDE DEF buf, val
<1>9. dlgBuf' \in Seq(PiecesOf(W))
  BY <1>3, <1>4, <1>5
<1> QED BY <1>2, <1>4, <1>6, <1>7, <1>8, <1>9

LEMMA ReceivedByMenu ==
  ASSUME NEW W, back \in Seq(PiecesOf(W)), menuBuf \in Seq(PiecesOf(W)), Receive, listener = "menu"
  PROVE  /\ back' \in Seq(PiecesOf(W)) /\ menuBuf' \in Seq(PiecesOf(W))
         /\ UNCHANGED <<dlgBuf, field>> /\ checked' \in {checked, "ok", "error"}
<1>1. PICK k \in 1 .. Len(back) : /\ back' = SubSeq(back, k + 1, Len(back))
                                  /\ MenuReads(SubSeq(back, 1, k))
  BY DEF Receive
<1> DEFINE chunk == SubSeq(back, 1, k)
           buf == menuBuf \o chunk
<1>2. back' \in Seq(PiecesOf(W)) /\ chunk \in Seq(PiecesOf(W))
  BY <1>1, ChunkTaken
<1>3. buf \in Seq(PiecesOf(W))
  <2> HIDE DEF chunk
  <2> QED BY <1>2, ConcatProperties
<1>4. /\ menuBuf' = AfterMenu(buf) /\ UNCHANGED <<dlgBuf, field>>
      /\ checked' = IF ~Complete(buf) THEN checked ELSE IF Whole(buf) THEN "ok" ELSE "error"
  BY <1>1 DEF MenuReads
<1>5. <<>> \in Seq(PiecesOf(W))
  OBVIOUS
<1> HIDE DEF buf
<1> QED BY <1>2, <1>3, <1>4, <1>5 DEF AfterMenu

\* The pieces of a reply.
LEMMA ReplyPieces ==
  ASSUME NEW W, NEW cmd \in Cmd, cmd.op = "read" => motor[cmd.of] \in W
  PROVE  /\ Reply(cmd) \in Seq(PiecesOf(W)) /\ Reply(cmd) # <<>>
         /\ Reply(cmd)[Len(Reply(cmd))] = Part("etx")
<1> DEFINE S == PiecesOf(W)
<1>1. /\ Part("head") \in S /\ Part("lrc") \in S /\ Part("etx") \in S /\ Part("bit") \in S
      /\ \A v \in W : [is |-> "value", val |-> v] \in S
  BY DEF Part, PiecesOf
<1> HIDE DEF S
<1>2. Ack \in Seq(S) /\ Len(Ack) = 3 /\ Ack[3] = Part("etx") /\ Ack # <<>>
  BY <1>1 DEF Ack
<1>3. State \in Seq(S) /\ Len(State) = 4 /\ State[4] = Part("etx") /\ State # <<>>
  BY <1>1 DEF State
<1>4. \A v \in W : Answer(v) \in Seq(S) /\ Len(Answer(v)) = 4 /\ Answer(v)[4] = Part("etx") /\ Answer(v) # <<>>
  <2> SUFFICES ASSUME NEW v \in W
               PROVE  /\ Answer(v) \in Seq(S) /\ Len(Answer(v)) = 4 /\ Answer(v)[4] = Part("etx")
                      /\ Answer(v) # <<>>
    OBVIOUS
  <2> DEFINE d == [is |-> "value", val |-> v]
  <2>1. d \in S
    BY <1>1
  <2>2. Answer(v) = <<Part("head"), d, Part("lrc"), Part("etx")>>
    BY DEF Answer
  <2> HIDE DEF d
  <2> QED BY <1>1, <2>1, <2>2
<1>5. cmd.op \in {"read", "set", "coil", "state"}
  BY DEF Cmd
<1>6. CASE cmd.op = "read"
  <2>1. Reply(cmd) = Answer(motor[cmd.of])
    BY <1>6 DEF Reply
  <2> QED BY <1>4, <1>6, <2>1 DEF S
<1>7. CASE cmd.op = "state"
  <2>1. Reply(cmd) = State
    BY <1>7 DEF Reply
  <2> QED BY <1>3, <2>1 DEF S
<1>8. CASE cmd.op \notin {"read", "state"}
  <2>1. Reply(cmd) = Ack
    BY <1>8 DEF Reply
  <2> QED BY <1>2, <2>1 DEF S
<1> QED BY <1>5, <1>6, <1>7, <1>8
----------------------------------------------------------------------------
(* One step of the whole. *)

\* A stutter, or one of the steps.
LEMMA StackMoves ==
  ASSUME NEW C \in ValueSets, NEW M, NEW F, Closed(M, F, C), Flow(M, F, C), TypeOK, Next
  PROVE  StackMove(C) /\ dialog' \in {"open", "leaving", "closed"}
<1>0. dialog \in {"open", "leaving", "closed"}
  BY DEF TypeOK
<1>1. ASSUME NEW b \in Buttons, Press(b) PROVE StackMove(C) /\ dialog' \in {"open", "leaving", "closed"}
  <2>1. StackMove(C)
    BY <1>1, PressMoves DEF Flow
  <2>2. dialog' = dialog \/ dialog' = "leaving" \/ dialog' = "closed" \/ dialog' = "open"
    BY <2>1 DEF StackMove, OpenSettings, Return
  <2> QED BY <1>0, <2>1, <2>2
<1>2. CASE GuiWrite \/ Wake
  BY <1>0, <1>2 DEF GuiWrite, Wake, Doing, StackMove, dlg
<1>3. CASE Return
  BY <1>3 DEF Return, StackMove
<1>4. CASE Tick \/ Receive \/ Plc
  BY <1>0, <1>4 DEF Tick, Receive, Plc, StackMove, gui, dlg
<1> QED BY <1>1, <1>2, <1>3, <1>4 DEF Next

\* What the PLC does with a command.
LEMMA MotorSet ==
  ASSUME NEW C \in ValueSets, NEW M, NEW F, Closed(M, F, C), Flow(M, F, C), TypeOK, Plc
  PROVE  /\ motor' \in [Params -> Value] /\ \A p \in Params : motor'[p] \in M[p]
         /\ out # <<>> /\ Head(out) \in CmdsOf(C) /\ Head(out) = out[1] /\ out' = Tail(out)
         /\ out' \in Seq(CmdsOf(C))
         /\ back' = back \o Reply(Head(out))
<1>1. out # <<>> /\ out \in Seq(CmdsOf(C)) /\ out' = Tail(out) /\ back' = back \o Reply(Head(out))
  BY DEF Plc, Flow
<1>2. Head(out) \in CmdsOf(C) /\ Tail(out) \in Seq(CmdsOf(C)) /\ Head(out) = out[1]
  BY <1>1
<1> DEFINE cmd == Head(out)
<1>3. cmd \in Cmd /\ (cmd.op = "set" => cmd.of \in Params /\ cmd.val \in C[cmd.of] /\ cmd.val \in Value)
  <2> HIDE DEF cmd
  <2> QED BY <1>2 DEF CmdsOf, Cmd, cmd
<1>4. motor \in [Params -> Value] /\ \A p \in Params : motor[p] \in M[p]
  BY DEF TypeOK, Flow
<1>5. \A p \in Params : V(p, "zero") \in Value /\ V(p, "zero") \in M[p]
  BY DEF V, Value, Closed
<1>6. cmd.op = "set" /\ cmd.val.from # "blank" => cmd.val \in M[cmd.of]
  BY <1>3 DEF Closed
<1>7. \/ motor' = motor
      \/ cmd.op = "set" /\ cmd.val.from # "blank" /\ motor' = [motor EXCEPT ![cmd.of] = cmd.val]
      \/ cmd.op = "set" /\ motor' = [motor EXCEPT ![cmd.of] = V(cmd.of, "zero")]
  BY DEF Plc
<1>8. motor' \in [Params -> Value] /\ \A p \in Params : motor'[p] \in M[p]
  <2> HIDE DEF cmd
  <2> QED BY <1>3, <1>4, <1>5, <1>6, <1>7
<1> QED BY <1>1, <1>2, <1>8

LEMMA FlowStep ==
  ASSUME NEW C \in ValueSets, NEW M, NEW F, Closed(M, F, C), Flow(M, F, C), StackInv, TypeOK, Next,
         Receive => \A p \in Params : field'[p] \in F[p]
  PROVE  Flow(M, F, C)' /\ StackInv'
<1>0. stack \in Seq(Seq(StepsOf(C))) /\ out \in Seq(CmdsOf(C))
  BY DEF Flow
<1>1. stack' \in Seq(Seq(StepsOf(C))) /\ StackInv'
  BY <1>0, StackMoves, StackKept
<1>2. motor' = motor => \A p \in Params : motor'[p] \in M[p]
  BY DEF Flow
<1>3. field' = field => \A p \in Params : field'[p] \in F[p]
  BY DEF Flow
<1>4. ASSUME NEW b \in Buttons, Press(b)
      PROVE  out' = out /\ motor' = motor /\ \A p \in Params : field'[p] \in F[p]
  BY <1>4, PressMoves DEF Flow, line
<1>5. CASE GuiWrite
  <2>1. stack # <<>> /\ Step.do = "write" /\ out' = Append(out, Step.cmd) /\ motor' = motor /\ field' = field
    BY <1>5 DEF GuiWrite, Doing
  <2>2. Step.cmd \in CmdsOf(C)
    BY <1>0, <2>1, TopIs, StepKinds
  <2>3. out' \in Seq(CmdsOf(C))
    BY <1>0, <2>1, <2>2, AppendProperties
  <2> QED BY <1>1, <1>2, <1>3, <2>1, <2>3 DEF Flow
<1>6. CASE Wake \/ Return
  <2>1. out' = out /\ motor' = motor /\ field' = field
    BY <1>6 DEF Wake, Return, line
  <2> QED BY <1>0, <1>1, <1>2, <1>3, <2>1 DEF Flow
<1>7. CASE Tick
  <2>1. motor' = motor /\ field' = field
    BY <1>7 DEF Tick
  <2>2. out' \in {out, out \o <<ReadCmd("speed")>>, out \o <<ReadCmd("angle")>>, out \o <<>>}
    BY <1>7 DEF Tick
  <2>3. ReadCmd("speed") \in CmdsOf(C) /\ ReadCmd("angle") \in CmdsOf(C)
    BY PlainCmds DEF Params
  <2>4. <<ReadCmd("speed")>> \in Seq(CmdsOf(C)) /\ <<ReadCmd("angle")>> \in Seq(CmdsOf(C)) /\ <<>> \in Seq(CmdsOf(C))
    BY <2>3
  <2>5. \A q \in Seq(CmdsOf(C)) : out \o q \in Seq(CmdsOf(C))
    BY <1>0, ConcatProperties
  <2>6. out' \in Seq(CmdsOf(C))
    BY <1>0, <2>2, <2>4, <2>5
  <2> QED BY <1>1, <1>2, <1>3, <2>1, <2>6 DEF Flow
<1>8. CASE Receive
  <2>1. out' = out /\ motor' = motor
    BY <1>8 DEF Receive
  <2> QED BY <1>0, <1>1, <1>2, <1>8, <2>1 DEF Flow
<1>9. CASE Plc
  <2>1. field' = field
    BY <1>9 DEF Plc
  <2> QED BY <1>1, <1>3, <1>9, <2>1, MotorSet DEF Flow
<1> QED BY <1>0, <1>1, <1>4, <1>5, <1>6, <1>7, <1>8, <1>9 DEF Next, Flow

----------------------------------------------------------------------------
(* Type correctness. *)

AnyValue == [p \in Params |-> Value]
TypeInv  == TypeOK /\ Flow(AnyValue, AnyValue, AnyValue)

LEMMA AnyIsClosed == AnyValue \in ValueSets /\ Closed(AnyValue, AnyValue, AnyValue)
<1>1. \A p \in Params : V(p, "user") \in Value /\ V(p, "empty") \in Value /\ V(p, "zero") \in Value
  BY DEF V, Value
<1>2. \A v \in Value : Number(v) \in Value /\ Number2(v) \in Value
  <2>1. \A v \in Value : [v EXCEPT !.from = "zero"] \in Value /\ [v EXCEPT !.from = "blank"] \in Value
    BY DEF Value
  <2> QED BY <2>1 DEF Number, Number2
<1> QED BY <1>1, <1>2 DEF AnyValue, ValueSets, Closed

LEMMA InitTypes == DialogAssumption /\ Init => TypeInv /\ StackInv
<1> SUFFICES ASSUME DialogAssumption, Init PROVE TypeInv /\ StackInv
  OBVIOUS
<1>1. \A p \in Params : V(p, "own") \in Value /\ V(p, "empty") \in Value
  BY DEF V, Value
<1>2. motor \in [Params -> Value] /\ field \in [Params -> Value] /\ applied \in [Params -> Value]
  BY <1>1 DEF Init
<1>3. 0 \in 0 .. LastPhase - 1
  BY DEF DialogAssumption
<1>7. ticking \in BOOLEAN /\ hurried \in BOOLEAN /\ nested \in BOOLEAN /\ asked \in BOOLEAN
  BY Zenon DEF Init
<1>4. TypeOK
  BY <1>2, <1>3, <1>7 DEF Init, TypeOK
<1>5. Flow(AnyValue, AnyValue, AnyValue)
  BY <1>2 DEF Init, Flow, AnyValue
<1>6. StackInv
  BY DEF Init, StackInv
<1> QED BY <1>4, <1>5, <1>6 DEF TypeInv

LEMMA HistoryTypes ==
  ASSUME TypeOK, UNCHANGED hist
  PROVE  hurried' \in BOOLEAN /\ nested' \in BOOLEAN /\ asked' \in BOOLEAN
  BY Zenon DEF TypeOK, hist

LEMMA NextTypes ==
  ASSUME DialogAssumption, TypeInv, StackInv, Next
  PROVE  TypeInv' /\ StackInv'
<1>0. TypeOK /\ Flow(AnyValue, AnyValue, AnyValue)
  BY DEF TypeInv
<1>1. /\ back \in Seq(PiecesOf(Value)) /\ menuBuf \in Seq(PiecesOf(Value))
      /\ dlgBuf \in Seq(PiecesOf(Value))
  BY <1>0 DEF TypeOK, Piece, PiecesOf
<1>2. ASSUME NEW b \in Buttons, Press(b) PROVE TypeOK'
  <2>1. \A p \in Params : field'[p] \in Value
    BY <1>0, <1>2, AnyIsClosed, PressMoves DEF Flow, AnyValue
  <2>2. field' \in [Params -> Value]
    <3>1. \/ UNCHANGED field
          \/ field' = [p \in Params |-> V(p, "empty")]
          \/ \E p \in Params : field' = [field EXCEPT ![p] = V(p, "user")]
      BY <1>2 DEF Press, PressGo, OpenSettings, Reject, PressApply, PressApply2, InDialog, Edit, Params
    <3>2. \A p \in Params : V(p, "user") \in Value /\ V(p, "empty") \in Value
      BY DEF V, Value
    <3> QED BY <1>0, <3>1, <3>2 DEF TypeOK
  <2>3. applied' \in [Params -> Value]
    <3>1. \/ UNCHANGED applied
          \/ applied' = [p \in Params |-> Number(field[p])]
          \/ applied' = [p \in Params |-> Number2(field[p])]
      BY <1>2 DEF Press, PressGo, OpenSettings, Reject, PressApply, PressApply2, InDialog, Edit
    <3>2. \A p \in Params : Number(field[p]) \in Value /\ Number2(field[p]) \in Value
      BY <1>0, AnyIsClosed DEF Closed, Flow, AnyValue
    <3> QED BY <1>0, <3>1, <3>2 DEF TypeOK
  <2>4. presses' \in Nat /\ hurried' \in BOOLEAN /\ nested' \in BOOLEAN /\ asked' \in BOOLEAN
    BY <1>0, <1>2 DEF Press, TypeOK
  <2>5. /\ UNCHANGED <<out, back, motor, menuBuf, checked>>
        /\ dlgBuf' = dlgBuf \/ dlgBuf' = <<>>
    BY <1>0, <1>2, AnyIsClosed, PressMoves DEF Flow, line
  <2>6. <<>> \in Seq(Piece) /\ 0 \in 0 .. LastPhase - 1
    BY DEF DialogAssumption
  <2>7. /\ dialog' \in {dialog, "open", "leaving"} /\ listener' \in {listener, "dialog", "nobody"}
        /\ phase' \in {phase, 0} /\ ticking' \in {ticking, TRUE}
    BY <1>2 DEF Press, PressGo, OpenSettings, Reject, PressApply, PressApply2, InDialog, Edit, dlg
  <2> QED BY <1>0, <2>2, <2>3, <2>4, <2>5, <2>6, <2>7 DEF TypeOK
<1>3. ASSUME GuiWrite \/ Wake \/ Return PROVE TypeOK'
  <2>1. /\ UNCHANGED <<presses, back, motor, menuBuf, checked, dlgBuf, phase, field, applied, hist>>
        /\ dialog' \in {dialog, "closed"} /\ listener' \in {listener, "menu"}
    BY <1>3 DEF GuiWrite, Wake, Return, line, recv, dlg
  <2>2. ticking' = ticking \/ ticking' = FALSE
    BY <1>3, Zenon DEF GuiWrite, Wake, Return, dlg
  <2>3. ticking' \in BOOLEAN
    BY <1>0, <2>2, Zenon DEF TypeOK
  <2> QED BY <1>0, <2>1, <2>3, HistoryTypes DEF TypeOK
<1>4. ASSUME Tick PROVE TypeOK'
  <2>1. /\ UNCHANGED <<presses, back, motor, menuBuf, checked, dlgBuf, dialog, listener, field, applied, hist>>
        /\ phase' = NextPhase(phase + 1)
    BY <1>4 DEF Tick, gui, recv
  <2>3. ticking' \in BOOLEAN
    BY <1>4 DEF Tick
  <2>2. NextPhase(phase + 1) \in 0 .. LastPhase - 1
    BY <1>0 DEF TypeOK, NextPhase, DialogAssumption
  <2> QED BY <1>0, <2>1, <2>2, <2>3, HistoryTypes DEF TypeOK
<1>5. ASSUME Receive PROVE TypeOK'
  <2>0. UNCHANGED <<presses, motor, dialog, listener, phase, applied, hist>>
    BY <1>5 DEF Receive, gui, dlg
  <2>5. ticking' \in BOOLEAN
    BY <1>0, <1>5, Zenon DEF Receive, dlg, TypeOK
  <2>1. listener \in {"menu", "dialog"}
    BY <1>5 DEF Receive
  <2>2. CASE listener = "menu"
    <3>1. back' \in Seq(Piece) /\ menuBuf' \in Seq(Piece) /\ UNCHANGED <<dlgBuf, field>>
          /\ checked' \in {checked, "ok", "error"}
      BY <1>1, <1>5, <2>2, ReceivedByMenu DEF Piece, PiecesOf
    <3> QED BY <1>0, <2>0, <2>5, <3>1, HistoryTypes DEF TypeOK
  <2>3. CASE listener = "dialog"
    <3>1. /\ back' \in Seq(Piece) /\ dlgBuf' \in Seq(Piece) /\ UNCHANGED <<menuBuf, checked>>
          /\ \/ field' = field
             \/ /\ Routed \in Params
                /\ \E v \in Value \cup {V(Routed, "zero"), V(Routed, "garbage")} :
                      field' = [field EXCEPT ![Routed] = v]
      BY <1>0, <1>1, <1>5, <2>3, ReceivedByDialog DEF Piece, PiecesOf, TypeOK
    <3>2. Routed \in Params => V(Routed, "zero") \in Value /\ V(Routed, "garbage") \in Value
      BY DEF V, Value
    <3>3. field' \in [Params -> Value]
      BY <1>0, <3>1, <3>2 DEF TypeOK
    <3> QED BY <1>0, <2>0, <2>5, <3>1, <3>3, HistoryTypes DEF TypeOK
  <2> QED BY <2>1, <2>2, <2>3
<1>6. ASSUME Plc PROVE TypeOK'
  <2>1. UNCHANGED <<presses, menuBuf, checked, dlgBuf, dialog, listener, phase, field, applied, hist>>
    BY <1>6 DEF Plc, gui, recv, dlg
  <2>5. ticking' \in BOOLEAN
    BY <1>0, <1>6, Zenon DEF Plc, dlg, TypeOK
  <2>2. motor' \in [Params -> Value] /\ Head(out) \in Cmd /\ back' = back \o Reply(Head(out))
    <3>1. motor' \in [Params -> Value] /\ Head(out) \in CmdsOf(AnyValue) /\ back' = back \o Reply(Head(out))
      BY <1>0, <1>6, AnyIsClosed, MotorSet
    <3> QED BY <3>1 DEF CmdsOf
  <2>3. Head(out).op = "read" => motor[Head(out).of] \in Value
    BY <1>0, <2>2 DEF TypeOK, Cmd
  <2>4. back' \in Seq(PiecesOf(Value))
    BY <1>1, <2>2, <2>3, ReplyPieces, ConcatProperties
  <2> QED BY <1>0, <2>1, <2>2, <2>4, <2>5, HistoryTypes DEF TypeOK, Piece, PiecesOf
<1>7. TypeOK'
  BY <1>2, <1>3, <1>4, <1>5, <1>6 DEF Next
<1>8. \A p \in Params : field'[p] \in AnyValue[p]
  BY <1>7 DEF TypeOK, AnyValue
<1>9. Flow(AnyValue, AnyValue, AnyValue)' /\ StackInv'
  BY <1>0, <1>8, AnyIsClosed, FlowStep
<1> QED BY <1>7, <1>9 DEF TypeInv

\* Stuttering keeps whatever is about the variables.
LEMMA TypesStutter ==
  ASSUME TypeInv, StackInv, UNCHANGED vars
  PROVE  TypeInv' /\ StackInv'
  BY DEF vars, gui, line, recv, dlg, hist, TypeInv, TypeOK, Flow, StackInv, Shaped, Modal

LEMMA TypeInvariant == Spec => [](TypeInv /\ StackInv)
<1>1. Init => TypeInv /\ StackInv
  BY DialogAssumption, InitTypes
<1>2. TypeInv /\ StackInv /\ [Next]_vars => TypeInv' /\ StackInv'
  BY DialogAssumption, NextTypes, TypesStutter
<1> QED BY <1>1, <1>2, PTL DEF Spec

\* Every variable has its type, whatever is pressed and in whatever pieces replies come.
THEOREM TypeCorrect == Spec => []TypeOK
<1>1. TypeInv => TypeOK
  BY DEF TypeInv
<1> QED BY <1>1, TypeInvariant, PTL
----------------------------------------------------------------------------
(* Who listens, and what is left to read. *)

\* The dialog is connected while it is open, and the panel while it is closed; the
\* timer runs only while the dialog is there, and when it has stopped it is back at
\* phase 0.
DialogInv ==
    /\ dialog = "closed" => listener = "menu" /\ ~ticking
    /\ dialog = "open" => listener = "dialog"
    /\ dialog = "leaving" => listener \in {"dialog", "nobody"}
    /\ ~ticking /\ dialog # "closed" => phase = 0

\* The pieces not read yet end with a whole reply, and the dialog keeps nothing of a
\* reply whose end it has read.
BackInv ==
    /\ back # <<>> => back[Len(back)] = Part("etx")
    /\ listener = "dialog" /\ back = <<>> => dlgBuf = <<>>

BaseInv == TypeInv /\ StackInv /\ DialogInv /\ BackInv

LEMMA NextDialog ==
  ASSUME DialogAssumption, TypeOK, DialogInv, Next
  PROVE  DialogInv'
<1>1. ASSUME NEW b \in Buttons, Press(b) PROVE DialogInv'
  <2>1. CASE UNCHANGED dlg
    BY <2>1 DEF dlg, DialogInv
  <2>2. CASE OpenSettings
    BY <2>2 DEF OpenSettings, DialogInv
  <2>3. CASE Reject(b)
    BY <2>3 DEF Reject, DialogInv
  <2> QED BY <1>1, <2>1, <2>2, <2>3 DEF Press, PressGo, PressApply, PressApply2, InDialog, Edit
<1>2. CASE GuiWrite \/ Wake \/ Receive \/ Plc
  <2>1. UNCHANGED dlg
    BY <1>2 DEF GuiWrite, Wake, Receive, Plc
  <2> QED BY <2>1 DEF dlg, DialogInv
<1>3. CASE Return
  BY <1>3 DEF Return, DialogInv
<1>4. CASE Tick
  <2>1. /\ UNCHANGED <<dialog, listener>> /\ ticking /\ phase' = NextPhase(phase + 1)
        /\ ticking' = (phase + 1 < LastPhase)
    BY <1>4 DEF Tick
  <2>3. ~ticking' => ~(phase + 1 < LastPhase)
    BY <2>1, Zenon
  <2>2. ~ticking' => phase' = 0
    BY <2>1, <2>3 DEF NextPhase, TypeOK, DialogAssumption
  <2> QED BY <2>1, <2>2 DEF DialogInv
<1> QED BY <1>1, <1>2, <1>3, <1>4 DEF Next

\* A buffer with the last piece of a reply at its end is complete.
LEMMA CompleteAtEnd ==
  ASSUME NEW S, NEW a \in Seq(S), NEW b \in Seq(S), b # <<>>, b[Len(b)] = Part("etx")
  PROVE  Complete(a \o b)
<1>1. /\ a \o b \in Seq(S) /\ Len(a \o b) = Len(a) + Len(b)
      /\ \A i \in 1 .. Len(a) + Len(b) : (a \o b)[i] = IF i <= Len(a) THEN a[i] ELSE b[i - Len(a)]
  BY ConcatProperties
<1>2. Len(a) \in Nat /\ Len(b) \in Nat /\ Len(b) >= 1
  OBVIOUS
<1>3. \A m, n \in Nat : n >= 1 => m + n \in 1 .. m + n /\ ~(m + n <= m) /\ m + n - m = n
  OBVIOUS
<1> DEFINE m == Len(a)
           n == Len(b)
<1> HIDE DEF m, n
<1>4. m + n \in 1 .. m + n /\ ~(m + n <= m) /\ m + n - m = n
  BY <1>2, <1>3 DEF m, n
<1>5. (a \o b)[m + n] = Part("etx") /\ Len(a \o b) = m + n
  BY <1>1, <1>4 DEF m, n
<1> QED BY <1>4, <1>5 DEF Complete, Contains

\* Reading all that has arrived.
LEMMA WholeChunk ==
  ASSUME NEW S, NEW q \in Seq(S), q # <<>>
  PROVE  SubSeq(q, 1, Len(q)) = q /\ Len(q) \in 1 .. Len(q)
<1> DEFINE a == SubSeq(q, 1, Len(q))
<1>1. Len(q) \in 1 .. Len(q) /\ Len(q) \in Nat
  OBVIOUS
<1>2. a \in Seq(S) /\ Len(a) = Len(q) /\ \A i \in 1 .. Len(q) : a[i] = q[i]
  BY <1>1, ChunkTaken
<1>3. a = q
  <2> HIDE DEF a
  <2> QED BY <1>2, SeqEqual
<1> QED BY <1>1, <1>3

LEMMA NextBack ==
  ASSUME TypeInv, BackInv, Next
  PROVE  BackInv'
<1>0. back \in Seq(Piece) /\ dlgBuf \in Seq(Piece) /\ listener \in {"menu", "dialog", "nobody"}
  BY DEF TypeInv, TypeOK
<1>1. ASSUME NEW b \in Buttons, Press(b) PROVE BackInv'
  <2>1. UNCHANGED back
    BY <1>1 DEF Press, PressGo, OpenSettings, Reject, PressApply, PressApply2, InDialog, Edit, line
  <2>2. UNCHANGED <<listener, dlgBuf>> \/ dlgBuf' = <<>> \/ (UNCHANGED dlgBuf /\ listener' \in {listener, "nobody"})
    BY <1>1 DEF Press, PressGo, OpenSettings, Reject, PressApply, PressApply2, InDialog, Edit, dlg, recv
  <2> QED BY <2>1, <2>2 DEF BackInv
<1>2. CASE GuiWrite \/ Wake \/ Tick
  <2>1. UNCHANGED <<back, listener, dlgBuf>>
    BY <1>2 DEF GuiWrite, Wake, Tick, line, dlg, recv
  <2> QED BY <2>1 DEF BackInv
<1>3. CASE Return
  <2>1. UNCHANGED back /\ listener' = "menu"
    BY <1>3 DEF Return, line
  <2> QED BY <2>1 DEF BackInv
<1>4. CASE Receive
  <2>1. PICK k \in 1 .. Len(back) :
            /\ back' = SubSeq(back, k + 1, Len(back))
            /\ \/ listener = "menu" /\ MenuReads(SubSeq(back, 1, k))
               \/ listener = "dialog" /\ DialogReads(SubSeq(back, 1, k))
    BY <1>4 DEF Receive
  <2>2. /\ back' \in Seq(Piece) /\ Len(back') = Len(back) - k
        /\ \A i \in 1 .. Len(back) - k : back'[i] = back[k + i]
        /\ back' = <<>> <=> k = Len(back)
    BY <1>0, <2>1, ChunkTaken
  <2>3. back # <<>>
    <3>1. Len(back) # 0 /\ Len(<<>>) = 0
      BY <1>0, <2>1
    <3> QED BY <3>1, Zenon
  <2>4. back' # <<>> => back'[Len(back')] = Part("etx")
    <3>1. k # Len(back) => Len(back) - k \in 1 .. Len(back) - k /\ k + (Len(back) - k) = Len(back)
      BY <1>0, <2>1
    <3> QED BY <2>2, <2>3, <3>1 DEF BackInv
  <2>5. listener' = listener
    BY <1>4 DEF Receive, dlg
  <2>6. ASSUME listener = "dialog", back' = <<>> PROVE dlgBuf' = <<>>
    <3>1. SubSeq(back, 1, k) = back
      BY <1>0, <2>2, <2>3, <2>6, WholeChunk
    <3>2. DialogReads(back)
      BY <2>1, <2>6, <3>1
    <3>3. Complete(dlgBuf \o back)
      BY <1>0, <2>3, CompleteAtEnd DEF BackInv
    <3> QED BY <3>2, <3>3 DEF DialogReads
  <2> QED BY <2>4, <2>5, <2>6 DEF BackInv
<1>5. CASE Plc
  <2>1. UNCHANGED <<listener, dlgBuf>>
    BY <1>5 DEF Plc, dlg, recv
  <2>2. Head(out) \in Cmd /\ back' = back \o Reply(Head(out))
    <3>1. Head(out) \in CmdsOf(AnyValue) /\ back' = back \o Reply(Head(out))
      BY <1>5, AnyIsClosed, MotorSet DEF TypeInv
    <3> QED BY <3>1 DEF CmdsOf
  <2>3. Head(out).op = "read" => motor[Head(out).of] \in Value
    BY <2>2 DEF TypeInv, TypeOK, Cmd
  <2> DEFINE r == Reply(Head(out))
  <2>4. r \in Seq(Piece) /\ r # <<>> /\ r[Len(r)] = Part("etx")
    BY <2>2, <2>3, ReplyPieces DEF Piece, PiecesOf
  <2> HIDE DEF r
  <2>5. /\ Len(back \o r) = Len(back) + Len(r)
        /\ \A i \in 1 .. Len(back) + Len(r) : (back \o r)[i] = IF i <= Len(back) THEN back[i] ELSE r[i - Len(back)]
    BY <1>0, <2>4, ConcatProperties
  <2>6. Len(back) \in Nat /\ Len(r) \in Nat /\ Len(r) >= 1
    BY <1>0, <2>4
  <2>7. \A m, n \in Nat : n >= 1 => m + n \in 1 .. m + n /\ ~(m + n <= m) /\ m + n - m = n /\ m + n # 0
    OBVIOUS
  <2>8. (back \o r)[Len(back \o r)] = Part("etx") /\ back \o r # <<>>
    <3> DEFINE m == Len(back)
               n == Len(r)
    <3>1. m + n \in 1 .. m + n /\ ~(m + n <= m) /\ m + n - m = n /\ m + n # 0
      <4> HIDE DEF m, n
      <4> QED BY <2>6, <2>7 DEF m, n
    <3> HIDE DEF m, n
    <3>2. (back \o r)[m + n] = Part("etx") /\ Len(back \o r) = m + n
      BY <2>4, <2>5, <3>1 DEF m, n
    <3>3. back \o r # <<>>
      BY <3>1, <3>2
    <3> QED BY <3>2, <3>3
  <2> QED BY <2>1, <2>2, <2>8 DEF BackInv, r
<1> QED BY <1>1, <1>2, <1>3, <1>4, <1>5 DEF Next

LEMMA BaseInvariant == Spec => []BaseInv
<1>1. Init => DialogInv /\ BackInv
  BY DEF Init, DialogInv, BackInv
<1>2. TypeInv /\ DialogInv /\ BackInv /\ [Next]_vars => DialogInv' /\ BackInv'
  <2>1. ASSUME DialogInv, BackInv, UNCHANGED vars PROVE DialogInv' /\ BackInv'
    BY <2>1 DEF vars, line, recv, dlg, DialogInv, BackInv
  <2>2. TypeInv => TypeOK
    BY DEF TypeInv
  <2> QED BY <2>1, <2>2, DialogAssumption, NextDialog, NextBack
<1> QED BY <1>1, <1>2, TypeInvariant, PTL DEF Spec, BaseInv
----------------------------------------------------------------------------
(* A prompt PLC: parameters are not mixed. *)

OfP == [p \in Params |-> {v \in Value : v.of = p}]
ReadsOf(p) == {c \in Cmd : c.op = "read" => c.of = p}

\* Fields, commands and registers hold values of their own parameter; while a phase
\* routes what arrives to a field, only its parameter is asked for, and only its values
\* are on their way.
RouteInv ==
    ~asked =>
        /\ Flow(OfP, OfP, OfP)
        /\ (Doing("write") /\ Step.cmd.op = "read") => Routed = "none"
        /\ (listener = "dialog" /\ Routed # "none") =>
              /\ out \in Seq(ReadsOf(Routed))
              /\ back \in Seq(PiecesOf(OfP[Routed])) /\ dlgBuf \in Seq(PiecesOf(OfP[Routed]))

\* While somebody listens, a timer's period and a sleep end only when all is handled
\* and read.
LEMMA PromptQuiet ==
  ASSUME Prompt, InTime, listener # "nobody"
  PROVE  out = <<>> /\ back = <<>>
  BY DEF InTime, Settled

LEMMA OfIsClosed == OfP \in ValueSets /\ Closed(OfP, OfP, OfP)
<1>1. \A p \in Params, f \in {"user", "empty", "zero"} : V(p, f) \in Value /\ V(p, f).of = p
  BY DEF V, Value
<1>2. \A v \in Value : /\ Number(v) \in Value /\ Number2(v) \in Value
                       /\ Number(v).of = v.of /\ Number2(v).of = v.of
  <2>1. \A v \in Value : /\ [v EXCEPT !.from = "zero"] \in Value /\ [v EXCEPT !.from = "blank"] \in Value
                         /\ [v EXCEPT !.from = "zero"].of = v.of /\ [v EXCEPT !.from = "blank"].of = v.of
    BY DEF Value
  <2> QED BY <2>1 DEF Number, Number2
<1> QED BY <1>1, <1>2 DEF OfP, ValueSets, Closed

\* No button but those of the test box starts with reading a value, and these note it
\* when the timer has asked for one.
LEMMA PressReads ==
  ASSUME TypeInv, NEW b, Press(b), ~asked'
  PROVE  (Doing("write") /\ Step.cmd.op = "read")' => Routed = "none" /\ phase' = phase
<1>0. stack \in Seq(Seq(StepsOf(AnyValue))) /\ \A p \in Params : field[p] \in AnyValue[p]
  BY DEF TypeInv, Flow
<1>1. EventLoop /\ ~(b \in {"TEST2", "TEST3"} /\ Routed # "none")
  BY DEF Press
<1>2. ASSUME UNCHANGED stack PROVE ~Doing("write")'
  BY <1>1, <1>2 DEF EventLoop, Doing, Step
<1>3. ASSUME NEW s \in Seq(StepsOf(AnyValue)), Shaped(s), Call(s), s[1].do = "write" => s[1].cmd.op # "read"
      PROVE  ~(Doing("write") /\ Step.cmd.op = "read")'
  <2>1. Step' = s[1]
    BY <1>0, <1>3, CalledRuns DEF Shaped
  <2> QED BY <1>3, <2>1 DEF Doing
<1>4. CASE PressGo \/ InDialog(Start)
  <2>1. Call(Start)
    BY <1>4 DEF PressGo, InDialog
  <2>2. Start[1].cmd.op # "read"
    BY DEF Start, Write, CoilCmd
  <2> QED BY <1>3, <2>1, <2>2, StartScript
<1>5. CASE OpenSettings
  <2>1. Call(<<Exec>>) /\ Exec \in StepsOf(AnyValue)
    BY <1>5 DEF OpenSettings, StepsOf
  <2>2. <<Exec>>[1].do # "write"
    BY DEF Exec
  <2> QED BY <1>3, <2>1, <2>2, ScriptOfOne
<1>6. CASE Reject(b) \/ \E p \in Params : Edit(p)
  BY <1>2, <1>6 DEF Reject, Edit
<1>7. CASE PressApply
  <2>1. Call(Apply)
    BY <1>7 DEF PressApply
  <2>2. Apply[1].cmd.op # "read"
    BY DEF Apply, Write, SetCmd
  <2> QED BY <1>0, <1>3, <2>1, <2>2, AnyIsClosed, ApplyScripts
<1>8. CASE PressApply2
  <2>1. Call(Apply2)
    BY <1>8 DEF PressApply2
  <2>2. Apply2[1].cmd.op # "read"
    BY DEF Apply2, Write, SetCmd
  <2> QED BY <1>0, <1>3, <2>1, <2>2, AnyIsClosed, ApplyScripts
<1>9. CASE b \in DOMAIN TestBox /\ InDialog(<<Write(TestBox[b])>>)
  <2>1. Call(<<Write(TestBox[b])>>) /\ UNCHANGED phase
    BY <1>9 DEF InDialog, dlg
  <2>2. Write(TestBox[b]) \in StepsOf(AnyValue) /\ Write(TestBox[b]).cmd = TestBox[b]
    <3>1. TestBox[b] \in CmdsOf(AnyValue)
      BY <1>9, PlainCmds
    <3> QED BY <3>1 DEF StepsOf, Write
  <2>3. CASE b \in {"TEST2", "TEST3"}
    BY <1>1, <2>1, <2>3
  <2>4. CASE b \notin {"TEST2", "TEST3"}
    <3>1. TestBox[b] \in {CoilCmd("STOP"), CoilCmd("ROTATE_ALL_TIME"), StateCmd("ENABLE"),
             StateCmd("ROTATE"), CoilCmd("ENABLE_LOCKED"), CoilCmd("ENABLE_RELEASE")}
      BY <1>9, <2>4 DEF TestBox
    <3>2. TestBox[b].op # "read"
      BY <3>1 DEF CoilCmd, StateCmd
    <3>3. <<Write(TestBox[b])>> \in Seq(StepsOf(AnyValue)) /\ Shaped(<<Write(TestBox[b])>>)
      BY <2>2, ScriptOfOne
    <3>4. <<Write(TestBox[b])>>[1].cmd.op # "read"
      BY <2>2, <3>2
    <3> QED BY <1>3, <2>1, <3>3, <3>4
  <2> QED BY <2>3, <2>4
<1>10. "speed" \in Params /\ "angle" \in Params
  BY DEF Params
<1> QED BY <1>4, <1>5, <1>6, <1>7, <1>8, <1>9, <1>10 DEF Press

LEMMA NextRoute ==
  ASSUME DialogAssumption, Prompt, BaseInv, RouteInv, Next, ~asked'
  PROVE  RouteInv'
<1>0. /\ TypeInv /\ TypeOK /\ StackInv /\ DialogInv /\ BackInv /\ ~asked
      /\ stack \in Seq(Seq(StepsOf(AnyValue))) /\ Flow(OfP, OfP, OfP)
  <2>1. TypeOK /\ stack \in Seq(Seq(StepsOf(AnyValue)))
    BY DEF BaseInv, TypeInv, Flow
  <2>2. ~asked
    BY Zenon DEF Next, Press, GuiWrite, Wake, Return, Tick, Receive, Plc, hist
  <2> QED BY <2>1, <2>2 DEF BaseInv, RouteInv
<1> DEFINE Reading == (Doing("write") /\ Step.cmd.op = "read")'
           Routes == (listener = "dialog" /\ Routed # "none") =>
              /\ out \in Seq(ReadsOf(Routed))
              /\ back \in Seq(PiecesOf(OfP[Routed])) /\ dlgBuf \in Seq(PiecesOf(OfP[Routed]))
<1>1. Routes /\ ((Doing("write") /\ Step.cmd.op = "read") => Routed = "none")
  BY <1>0 DEF RouteInv
<1>2. EventLoop => ~Doing("write")
  BY DEF EventLoop, Doing
<1>3. ASSUME NEW b \in Buttons, Press(b) PROVE (Reading => Routed' = "none") /\ Routes'
  <2>1. Reading => Routed' = "none"
    <3>1. Reading => Routed = "none" /\ phase' = phase
      BY <1>0, <1>3, PressReads
    <3> HIDE DEF Reading
    <3> QED BY <3>1 DEF Routed
  <2>2. \/ phase' = 0
        \/ phase' = phase /\ dlgBuf' = dlgBuf /\ listener' \in {listener, "nobody"}
    BY <1>3 DEF Press, PressGo, OpenSettings, Reject, PressApply, PressApply2, InDialog, Edit, dlg, recv
  <2>3. UNCHANGED <<out, back>>
    BY <1>3 DEF Press, PressGo, OpenSettings, Reject, PressApply, PressApply2, InDialog, Edit, line
  <2>4. CASE phase' = 0
    BY <2>4 DEF Routed
  <2>5. CASE phase' = phase /\ dlgBuf' = dlgBuf /\ listener' \in {listener, "nobody"}
    <3>1. Routed' = Routed /\ (listener' = "dialog" => listener = "dialog")
      BY <2>5 DEF Routed
    <3> QED BY <1>1, <2>1, <2>3, <2>5, <3>1
  <2> QED BY <2>1, <2>2, <2>4, <2>5
<1>4. ASSUME GuiWrite PROVE (Reading => Routed' = "none") /\ Routes'
  <2>1. /\ stack # <<>> /\ Doing("write") /\ Advance /\ out' = Append(out, Step.cmd)
        /\ UNCHANGED <<back, dlgBuf, listener, phase>>
    BY <1>4 DEF GuiWrite, Doing, recv, dlg
  <2>2. ~Reading
    BY <1>0, <2>1, WritesOnce
  <2>3. Routed' = Routed
    BY <2>1 DEF Routed
  <2>4. Step.cmd \in Cmd
    <3>1. Step \in StepsOf(AnyValue)
      BY <1>0, <2>1, TopIs
    <3> QED BY <2>1, <3>1, StepKinds DEF Doing, CmdsOf
  <2>5. ASSUME listener = "dialog", Routed # "none" PROVE out' \in Seq(ReadsOf(Routed))
    <3>1. Step.cmd \in ReadsOf(Routed) /\ out \in Seq(ReadsOf(Routed))
      BY <1>1, <2>1, <2>4, <2>5 DEF ReadsOf
    <3> QED BY <2>1, <3>1, AppendProperties
  <2> QED BY <1>1, <2>1, <2>2, <2>3, <2>5
<1>5. ASSUME Wake \/ Return PROVE (Reading => Routed' = "none") /\ Routes'
  <2>1. stack # <<>> /\ Advance /\ UNCHANGED <<out, back, dlgBuf, phase>> /\ listener' \in {listener, "menu"}
    BY <1>5 DEF Wake, Return, Doing, line, recv, dlg
  <2>2. ~Reading
    BY <1>0, <2>1, WritesOnce
  <2>3. Routed' = Routed
    BY <2>1 DEF Routed
  <2> QED BY <1>1, <2>1, <2>2, <2>3
<1>6. ASSUME UNCHANGED stack, EventLoop PROVE ~Reading
  BY <1>2, <1>6 DEF Doing, Step
<1>7. ASSUME Tick PROVE (Reading => Routed' = "none") /\ Routes'
  <2>1. ~Reading
    BY <1>6, <1>7 DEF Tick, gui
  <2>2. UNCHANGED <<back, dlgBuf, listener>> /\ phase' = NextPhase(phase + 1)
    BY <1>7 DEF Tick, recv
  <2>3. ASSUME listener = "dialog" PROVE Routes'
    <3>1. out = <<>> /\ back = <<>> /\ dlgBuf = <<>>
      BY <1>0, <1>7, <2>3, PromptQuiet DEF Tick, BackInv
    <3>2. /\ phase + 1 = 1 => out' = <<>> \o <<ReadCmd("speed")>>
          /\ phase + 1 = 2 => out' = <<>> \o <<ReadCmd("angle")>>
      BY <1>7, <3>1 DEF Tick
    <3>3. /\ Routed' = "speed" => phase' = 1
          /\ Routed' = "angle" => phase' = 2
          /\ Routed' \in {"speed", "angle", "none"}
      BY DEF Routed
    <3>4. \A n \in {1, 2} : phase' = n => phase + 1 = n
      BY <1>0, <2>2 DEF NextPhase, TypeOK, DialogAssumption
    <3>5. \A p \in Params : <<>> \o <<ReadCmd(p)>> \in Seq(ReadsOf(p)) /\ <<>> \in Seq(PiecesOf(OfP[p]))
      <4>1. \A p \in Params : ReadCmd(p) \in ReadsOf(p)
        BY DEF ReadCmd, ReadsOf, Cmd
      <4> QED BY <4>1
    <3>6. "speed" \in Params /\ "angle" \in Params
      BY DEF Params
    <3> QED BY <2>2, <3>1, <3>2, <3>3, <3>4, <3>5, <3>6
  <2>4. ASSUME listener # "dialog" PROVE Routes'
    BY <2>2, <2>4
  <2> QED BY <2>1, <2>3, <2>4
<1>8. ASSUME Receive PROVE (Reading => Routed' = "none") /\ Routes'
  <2>1. ~Reading
    BY <1>6, <1>8 DEF Receive, gui
  <2>2. UNCHANGED <<out, listener, phase>>
    BY <1>8 DEF Receive, dlg
  <2>3. Routed' = Routed
    BY <2>2 DEF Routed
  <2>4. ASSUME listener = "dialog", Routed # "none"
        PROVE  back' \in Seq(PiecesOf(OfP[Routed])) /\ dlgBuf' \in Seq(PiecesOf(OfP[Routed]))
    BY <1>0, <1>1, <1>8, <2>4, ReceivedByDialog DEF TypeOK
  <2> QED BY <1>1, <2>1, <2>2, <2>3, <2>4
<1>9. ASSUME Plc PROVE (Reading => Routed' = "none") /\ Routes'
  <2>1. UNCHANGED <<stack, dlgBuf, listener, phase>>
    BY <1>9 DEF Plc, gui, recv, dlg
  <2>2. Routed' = Routed
    BY <2>1 DEF Routed
  <2>3. Reading => Routed' = "none"
    BY <1>1, <2>1, <2>2 DEF Doing, Step
  <2>4. /\ out # <<>> /\ Head(out) = out[1] /\ out' = Tail(out) /\ back' = back \o Reply(Head(out))
        /\ Head(out) \in Cmd
    BY <1>0, <1>9, AnyIsClosed, MotorSet DEF TypeInv, CmdsOf
  <2>5. ASSUME listener = "dialog", Routed # "none"
        PROVE  out' \in Seq(ReadsOf(Routed)) /\ back' \in Seq(PiecesOf(OfP[Routed]))
    <3>1. out \in Seq(ReadsOf(Routed)) /\ back \in Seq(PiecesOf(OfP[Routed]))
      BY <1>1, <2>5
    <3>2. out' \in Seq(ReadsOf(Routed)) /\ Head(out) \in ReadsOf(Routed)
      BY <2>4, <3>1
    <3>3. Head(out).op = "read" => motor[Head(out).of] \in OfP[Routed]
      <4>1. Routed \in Params
        BY <2>5 DEF Routed, Params
      <4> QED BY <1>0, <3>2, <4>1 DEF ReadsOf, Flow
    <3>4. Reply(Head(out)) \in Seq(PiecesOf(OfP[Routed]))
      BY <2>4, <3>3, ReplyPieces
    <3> QED BY <2>4, <3>1, <3>2, <3>4, ConcatProperties
  <2> QED BY <1>1, <2>1, <2>2, <2>3, <2>5
<1>10. ASSUME Receive PROVE \A p \in Params : field'[p] \in OfP[p]
  <2>1. listener \in {"menu", "dialog"}
    BY <1>10 DEF Receive
  <2>2. \A p \in Params : field[p] \in OfP[p]
    BY <1>0 DEF Flow
  <2>3. CASE field' = field
    BY <2>2, <2>3
  <2>4. CASE listener = "menu"
    <3>1. field' = field
      BY <1>10, <2>4 DEF Receive, MenuReads
    <3> QED BY <2>2, <3>1
  <2>5. CASE listener = "dialog" /\ Routed = "none"
    <3>1. field' = field
      BY <1>10, <2>5 DEF Receive, DialogReads
    <3> QED BY <2>2, <3>1
  <2>6. CASE listener = "dialog" /\ Routed # "none"
    <3>1. \/ field' = field
          \/ /\ Routed \in Params
             /\ \E v \in OfP[Routed] \cup {V(Routed, "zero"), V(Routed, "garbage")} :
                   field' = [field EXCEPT ![Routed] = v]
      BY <1>0, <1>1, <1>10, <2>6, ReceivedByDialog DEF TypeOK
    <3>2. ASSUME Routed \in Params, NEW v \in OfP[Routed] \cup {V(Routed, "zero"), V(Routed, "garbage")},
                 field' = [field EXCEPT ![Routed] = v]
          PROVE  \A p \in Params : field'[p] \in OfP[p]
      <4>1. V(Routed, "zero") \in OfP[Routed] /\ V(Routed, "garbage") \in OfP[Routed]
        BY <3>2 DEF V, Value, OfP
      <4>2. v \in OfP[Routed] /\ field \in [Params -> Value]
        BY <1>0, <3>2, <4>1 DEF TypeOK
      <4> QED BY <2>2, <3>2, <4>2
    <3> QED BY <2>3, <3>1, <3>2
  <2> QED BY <2>1, <2>4, <2>5, <2>6
<1>11. Flow(OfP, OfP, OfP)'
  BY <1>0, <1>10, OfIsClosed, FlowStep
<1>12. (Reading => Routed' = "none") /\ Routes'
  <2> HIDE DEF Reading, Routes
  <2> QED BY <1>3, <1>4, <1>5, <1>7, <1>8, <1>9 DEF Next
<1> QED BY <1>11, <1>12 DEF RouteInv

\* With a PLC that answers in time, the speed is never set to an angle, nor the angle to
\* a speed.
THEOREM NotMixed ==
  ASSUME Prompt
  PROVE  Spec => []ParametersNotMixed
<1>1. Init => RouteInv
  <2> SUFFICES ASSUME Init PROVE RouteInv
    OBVIOUS
  <2>1. \A p \in Params, f \in {"own", "empty"} : V(p, f) \in OfP[p]
    BY DEF V, Value, OfP
  <2>2. Flow(OfP, OfP, OfP)
    BY <2>1 DEF Init, Flow
  <2> QED BY <2>2 DEF Init, RouteInv, Doing, Routed
<1>2. BaseInv /\ RouteInv /\ [Next]_vars => RouteInv'
  <2>1. ASSUME RouteInv, UNCHANGED vars PROVE RouteInv'
    BY <2>1 DEF vars, gui, line, recv, dlg, hist, RouteInv, Flow, Doing, Step, Routed
  <2>2. asked' => RouteInv'
    BY DEF RouteInv
  <2> QED BY <2>1, <2>2, DialogAssumption, NextRoute, Prompt
<1>3. RouteInv => ParametersNotMixed
  <2> SUFFICES ASSUME RouteInv, ~asked, NEW p \in Params PROVE motor[p].of = p
    BY DEF ParametersNotMixed
  <2>1. motor[p] \in OfP[p]
    BY DEF RouteInv, Flow
  <2> QED BY <2>1 DEF OfP
<1> QED BY <1>1, <1>2, <1>3, BaseInvariant, PTL DEF Spec
----------------------------------------------------------------------------
(* A prompt PLC: the fields are filled. *)

Said == {v \in Value : v.from # "empty"}
SaidP == [p \in Params |-> Said]
Filled(p) == field[p].from # "empty"

\* Only fields are ever without a text; those of a phase that is over have one, and the
\* field of a phase has one as soon as all is handled and read.
FillInv ==
    /\ Flow(SaidP, AnyValue, SaidP)
    /\ back \in Seq(PiecesOf(Said)) /\ dlgBuf \in Seq(PiecesOf(Said))
    /\ dialog = "open" =>
          /\ (phase >= 2 \/ ~ticking) => Filled("speed")
          /\ (phase >= 3 \/ ~ticking) => Filled("angle")
          /\ (Routed # "none" /\ out = <<>> /\ back = <<>>) => Filled(Routed)

LEMMA SaidIsClosed == SaidP \in ValueSets /\ Closed(SaidP, AnyValue, SaidP)
<1>1. \A p \in Params : /\ V(p, "user") \in Value /\ V(p, "empty") \in Value
                        /\ V(p, "zero") \in Value /\ V(p, "zero").from # "empty"
  BY DEF V, Value
<1>2. \A v \in Value : /\ Number(v) \in Value /\ Number2(v) \in Value
                       /\ Number(v).from # "empty" /\ Number2(v).from # "empty"
  <2>1. \A v \in Value : /\ [v EXCEPT !.from = "zero"] \in Value /\ [v EXCEPT !.from = "blank"] \in Value
                         /\ [v EXCEPT !.from = "zero"].from = "zero" /\ [v EXCEPT !.from = "blank"].from = "blank"
    BY DEF Value
  <2> QED BY <2>1 DEF Number, Number2
<1> QED BY <1>1, <1>2 DEF SaidP, Said, AnyValue, ValueSets, Closed

\* Having read all that has arrived, the dialog has set the field of its phase.
LEMMA ReadToTheEnd ==
  ASSUME NEW W, back \in Seq(PiecesOf(W)), dlgBuf \in Seq(PiecesOf(W)), BackInv,
         Receive, listener = "dialog", back' = <<>>, Routed # "none"
  PROVE  \E v \in W \cup {V(Routed, "zero"), V(Routed, "garbage")} :
            field' = [field EXCEPT ![Routed] = v]
<1>1. PICK k \in 1 .. Len(back) : /\ back' = SubSeq(back, k + 1, Len(back))
                                  /\ DialogReads(SubSeq(back, 1, k))
  BY DEF Receive
<1>2. back # <<>>
  <2>1. Len(back) # 0 /\ Len(<<>>) = 0
    BY <1>1
  <2> QED BY <2>1, Zenon
<1>3. SubSeq(back, 1, k) = back
  <2>1. k = Len(back)
    BY <1>1, ChunkTaken
  <2> QED BY <1>2, <2>1, WholeChunk
<1> DEFINE buf == dlgBuf \o back
           val == Parsed(Routed, Window(Stream(buf)))
<1>4. DialogReads(back) /\ Complete(buf)
  BY <1>1, <1>2, <1>3, CompleteAtEnd DEF BackInv
<1>5. field' = [field EXCEPT ![Routed] = val]
  BY <1>4 DEF DialogReads, Stream
<1>6. val \in W \cup {V(Routed, "zero"), V(Routed, "garbage")}
  <2>1. buf \in Seq(PiecesOf(W))
    BY ConcatProperties
  <2> QED BY <2>1, ParsedValue
<1> HIDE DEF val
<1> QED BY <1>5, <1>6

LEMMA NextFill ==
  ASSUME DialogAssumption, Prompt, BaseInv, FillInv, Next
  PROVE  FillInv'
<1>0. TypeInv /\ TypeOK /\ StackInv /\ DialogInv /\ BackInv /\ Flow(SaidP, AnyValue, SaidP)
      /\ Flow(AnyValue, AnyValue, AnyValue)
  BY DEF BaseInv, TypeInv, FillInv
<1> DEFINE Pieces == back \in Seq(PiecesOf(Said)) /\ dlgBuf \in Seq(PiecesOf(Said))
           Fills == dialog = "open" =>
              /\ (phase >= 2 \/ ~ticking) => Filled("speed")
              /\ (phase >= 3 \/ ~ticking) => Filled("angle")
              /\ (Routed # "none" /\ out = <<>> /\ back = <<>>) => Filled(Routed)
<1>1. Pieces /\ Fills
  BY DEF FillInv
<1>2. (UNCHANGED <<dlg, line, field>>) => Fills'
  BY <1>1 DEF dlg, line, Filled, Routed
<1>3. ASSUME NEW b \in Buttons, Press(b) PROVE Pieces' /\ Fills'
  <2>1. UNCHANGED line /\ dlgBuf' \in {dlgBuf, <<>>}
    BY <1>3 DEF Press, PressGo, OpenSettings, Reject, PressApply, PressApply2, InDialog, Edit, recv
  <2>2. Pieces'
    <3>1. back' = back /\ (dlgBuf' = dlgBuf \/ dlgBuf' = <<>>)
      BY <2>1 DEF line
    <3>2. <<>> \in Seq(PiecesOf(Said))
      OBVIOUS
    <3> QED BY <1>1, <3>1, <3>2
  <2>3. CASE UNCHANGED <<dlg, field>>
    BY <1>2, <2>1, <2>2, <2>3
  <2>4. CASE OpenSettings
    <3>1. phase' = 0 /\ ticking' = TRUE
      BY <2>4 DEF OpenSettings
    <3>2. Routed' = "none"
      BY <3>1 DEF Routed
    <3> QED BY <2>2, <3>1, <3>2
  <2>5. CASE Reject(b)
    BY <2>2, <2>5 DEF Reject
  <2>6. ASSUME NEW p \in Params, Edit(p) PROVE Fills'
    <3>1. UNCHANGED <<dlg, line>> /\ field' = [field EXCEPT ![p] = V(p, "user")]
      BY <2>6 DEF Edit
    <3>2. \A q \in Params : Filled(q) => Filled(q)'
      BY <1>0, <3>1 DEF Filled, V, TypeOK
    <3>3. "speed" \in Params /\ "angle" \in Params /\ (Routed # "none" => Routed \in Params)
      BY DEF Params, Routed
    <3>4. UNCHANGED <<dialog, phase, ticking, out, back>> /\ Routed' = Routed
      BY <3>1 DEF dlg, line, Routed
    <3>5. Routed # "none" /\ Filled(Routed) => field'[Routed'].from # "empty"
      BY <3>2, <3>3, <3>4 DEF Filled
    <3> QED BY <1>1, <3>2, <3>3, <3>4, <3>5 DEF Filled
  <2>7. "speed" \in Params /\ "angle" \in Params
    BY DEF Params
  <2> QED BY <1>3, <2>2, <2>3, <2>4, <2>5, <2>6, <2>7
          DEF Press, PressGo, PressApply, PressApply2, InDialog
<1>4. ASSUME GuiWrite PROVE Pieces' /\ Fills'
  <2>1. UNCHANGED <<back, dlgBuf, dlg, field>> /\ out' = Append(out, Step.cmd) /\ out \in Seq(CmdsOf(AnyValue))
    BY <1>0, <1>4 DEF GuiWrite, recv, Flow
  <2>2. out' # <<>>
    <3>1. Len(out') # 0
      BY <2>1
    <3> QED BY <3>1
  <2> QED BY <1>1, <2>1, <2>2 DEF dlg, Filled, Routed
<1>5. ASSUME Wake PROVE Pieces' /\ Fills'
  BY <1>1, <1>2, <1>5 DEF Wake, line, recv
<1>6. ASSUME Return PROVE Pieces' /\ Fills'
  BY <1>1, <1>6 DEF Return, line, recv
<1>7. ASSUME Tick PROVE Pieces' /\ Fills'
  <2>1. UNCHANGED <<back, dlgBuf, field, dialog, listener>> /\ phase' = NextPhase(phase + 1)
    BY <1>7 DEF Tick, recv
  <2>2. ASSUME dialog = "open" PROVE Fills'
    <3>1. out = <<>> /\ back = <<>>
      BY <1>0, <1>7, <2>2, PromptQuiet DEF Tick, DialogInv
    <3>2. /\ phase + 1 = 1 => out' = <<>> \o <<ReadCmd("speed")>>
          /\ phase + 1 = 2 => out' = <<>> \o <<ReadCmd("angle")>>
      BY <1>7, <3>1 DEF Tick
    <3>3. \A c : <<>> \o <<c>> # <<>>
      OBVIOUS
    <3>4. Routed' # "none" => out' # <<>>
      <4>1. Routed' # "none" => phase + 1 = 1 \/ phase + 1 = 2
        BY <1>0, <2>1 DEF Routed, NextPhase, TypeOK, DialogAssumption
      <4> QED BY <3>2, <3>3, <4>1
    <3>5. ~ticking' => ~(phase + 1 < LastPhase)
      BY <1>7, Zenon DEF Tick
    <3>6. /\ phase' >= 2 \/ ~ticking' => phase >= 2 \/ phase = 1
          /\ phase' >= 3 \/ ~ticking' => phase >= 3 \/ phase = 2
      BY <1>0, <2>1, <3>5 DEF NextPhase, TypeOK, DialogAssumption
    <3>7. (phase = 1 => Routed = "speed") /\ (phase = 2 => Routed = "angle")
      BY DEF Routed
    <3>8. /\ phase >= 2 \/ phase = 1 => Filled("speed")
          /\ phase >= 3 \/ phase = 2 => Filled("angle")
      <4>1. phase = 1 => Filled("speed")
        BY <1>1, <2>2, <3>1, <3>7
      <4>2. phase = 2 => Filled("angle")
        BY <1>1, <2>2, <3>1, <3>7
      <4> QED BY <1>1, <2>2, <4>1, <4>2
    <3>9. UNCHANGED field
      BY <2>1
    <3> QED BY <3>4, <3>6, <3>8, <3>9 DEF Filled
  <2>3. CASE dialog = "open"
    BY <1>1, <2>1, <2>2, <2>3
  <2>4. CASE dialog # "open"
    BY <1>1, <2>1, <2>4
  <2> QED BY <2>3, <2>4
<1>8. ASSUME Receive PROVE Pieces' /\ Fills'
  <2>0. UNCHANGED <<dlg, out>> /\ listener \in {"menu", "dialog"}
    BY <1>8 DEF Receive
  <2>1. CASE listener = "menu"
    <3>1. dialog # "open"
      BY <1>0, <2>1 DEF DialogInv
    <3>2. dialog' # "open"
      BY <2>0, <3>1 DEF dlg
    <3>3. PICK k \in 1 .. Len(back) : /\ back' = SubSeq(back, k + 1, Len(back))
                                      /\ MenuReads(SubSeq(back, 1, k))
      BY <1>8, <2>1 DEF Receive
    <3>4. back' \in Seq(PiecesOf(Said)) /\ dlgBuf' = dlgBuf
      BY <1>1, <3>3, ChunkTaken DEF MenuReads
    <3> QED BY <1>1, <3>2, <3>4
  <2>2. CASE listener = "dialog"
    <3>1. /\ Pieces'
          /\ \/ field' = field
             \/ /\ Routed \in Params
                /\ \E v \in Said \cup {V(Routed, "zero"), V(Routed, "garbage")} :
                      field' = [field EXCEPT ![Routed] = v]
      BY <1>0, <1>1, <1>8, <2>2, ReceivedByDialog DEF TypeOK
    <3>2. \A p \in Params : V(p, "zero").from # "empty" /\ V(p, "garbage").from # "empty"
      BY DEF V
    <3>3. ASSUME Routed \in Params, NEW v \in Said \cup {V(Routed, "zero"), V(Routed, "garbage")},
                 field' = [field EXCEPT ![Routed] = v]
          PROVE  Filled(Routed)' /\ \A p \in Params : Filled(p) => Filled(p)'
      <4>1. v.from # "empty" /\ field \in [Params -> Value]
        BY <1>0, <3>2, <3>3 DEF Said, TypeOK
      <4>2. Routed' = Routed
        BY <2>0 DEF dlg, Routed
      <4>3. field'[Routed] = v /\ \A p \in Params : field'[p] = v \/ field'[p] = field[p]
        BY <3>3, <4>1
      <4> QED BY <4>1, <4>2, <4>3 DEF Filled
    <3>4. \A p \in Params : Filled(p) => Filled(p)'
      <4>1. CASE field' = field
        BY <4>1 DEF Filled
      <4> QED BY <3>1, <3>3, <4>1
    <3>5. Routed # "none" /\ back' = <<>> => Filled(Routed)'
      <4>1. Routed # "none" => Routed \in Params
        BY DEF Routed, Params
      <4> QED BY <1>0, <1>1, <1>8, <2>2, <3>3, <4>1, ReadToTheEnd
    <3>6. UNCHANGED <<dialog, phase, ticking>> /\ Routed' = Routed
      BY <2>0 DEF dlg, Routed
    <3>7. "speed" \in Params /\ "angle" \in Params
      BY DEF Params
    <3> QED BY <1>1, <3>1, <3>4, <3>5, <3>6, <3>7
  <2> QED BY <2>0, <2>1, <2>2
<1>9. ASSUME Plc PROVE Pieces' /\ Fills'
  <2>1. UNCHANGED <<dlgBuf, dlg, field>>
    BY <1>9 DEF Plc, recv
  <2>2. Head(out) \in Cmd /\ back' = back \o Reply(Head(out))
    BY <1>0, <1>9, AnyIsClosed, MotorSet DEF CmdsOf
  <2>3. Head(out).op = "read" => motor[Head(out).of] \in Said
    BY <1>0, <2>2 DEF Flow, SaidP, Cmd
  <2> DEFINE r == Reply(Head(out))
  <2>4. r \in Seq(PiecesOf(Said)) /\ r # <<>>
    BY <2>2, <2>3, ReplyPieces
  <2> HIDE DEF r
  <2>5. back \o r \in Seq(PiecesOf(Said)) /\ Len(back \o r) = Len(back) + Len(r)
    BY <1>1, <2>4, ConcatProperties
  <2>6. back \o r # <<>>
    <3>1. Len(back) \in Nat /\ Len(r) \in Nat /\ Len(r) >= 1
      BY <1>1, <2>4
    <3>2. Len(back \o r) # 0
      BY <2>5, <3>1
    <3> QED BY <3>2
  <2> QED BY <1>1, <2>1, <2>2, <2>5, <2>6 DEF r, dlg, Filled, Routed
<1>10. Receive => \A p \in Params : field'[p] \in AnyValue[p]
  <2>1. TypeOK'
    BY <1>0, NextTypes DEF TypeInv
  <2> QED BY <2>1 DEF TypeOK, AnyValue
<1>11. Flow(SaidP, AnyValue, SaidP)'
  BY <1>0, <1>10, SaidIsClosed, FlowStep
<1>12. Pieces' /\ Fills'
  <2> HIDE DEF Pieces, Fills
  <2> QED BY <1>3, <1>4, <1>5, <1>6, <1>7, <1>8, <1>9 DEF Next
<1> QED BY <1>11, <1>12 DEF FillInv

\* Each field is filled before the timer goes on to the next phase, when the PLC answers
\* in time.
THEOREM FieldsAreFilled ==
  ASSUME Prompt
  PROVE  Spec => []FieldsFilled
<1>1. Init => FillInv
  <2> SUFFICES ASSUME Init PROVE FillInv
    OBVIOUS
  <2>1. \A p \in Params : V(p, "own") \in Said /\ V(p, "empty") \in Value
    BY DEF V, Value, Said
  <2>2. Flow(SaidP, AnyValue, SaidP)
    BY <2>1 DEF Init, Flow, SaidP, AnyValue
  <2> QED BY <2>2 DEF Init, FillInv
<1>2. BaseInv /\ FillInv /\ [Next]_vars => FillInv'
  <2>1. ASSUME FillInv, UNCHANGED vars PROVE FillInv'
    BY <2>1 DEF vars, gui, line, recv, dlg, FillInv, Flow, Filled, Routed
  <2> QED BY <2>1, DialogAssumption, NextFill, Prompt
<1>3. FillInv => FieldsFilled
  BY DEF FillInv, FieldsFilled, Filled
<1> QED BY <1>1, <1>2, <1>3, BaseInvariant, PTL DEF Spec
----------------------------------------------------------------------------
(* A prompt PLC and a user who waits: one whole reply at a time. *)

Known  == {v \in Value : v.from \in {"own", "user", "zero"}}
KnownP == [p \in Params |-> Known]
TextP  == [p \in Params |-> {v \in Value : v.from \in {"own", "user", "zero", "empty"}}]
SentP  == [p \in Params |-> {v \in Value : v.from \in {"own", "user", "zero", "blank"}}]

Replies == {Ack, State} \cup {Answer(v) : v \in Known}
Quiet   == out = <<>> /\ back = <<>>
Heard   == IF listener = "dialog" THEN dlgBuf ELSE menuBuf
Other   == IF listener = "dialog" THEN menuBuf ELSE dlgBuf

\* At most one command waits or one reply is on its way, and whoever listens has read a
\* part of that reply and of no other.
CalmInv ==
    ~hurried =>
        /\ Flow(KnownP, TextP, SentP)
        /\ Doing("write") => Quiet
        /\ dialog = "leaving" => Quiet /\ Doing("exec")
        /\ Other = <<>>
        /\ \/ Len(out) <= 1 /\ back = <<>> /\ Heard = <<>>
           \/ out = <<>> /\ back # <<>> /\ \E r \in Replies : Heard \o back = r
        /\ checked # "error"

LEMMA KnownIsClosed == SentP \in ValueSets /\ Closed(KnownP, TextP, SentP)
<1>1. \A p \in Params, f \in {"user", "empty", "zero"} : V(p, f) \in Value /\ V(p, f).from = f
  BY DEF V, Value
<1>2. \A v \in Value : v.from \in {"own", "user", "zero", "empty"} =>
          /\ Number(v) \in Value /\ Number2(v) \in Value
          /\ Number(v).from \in {"own", "user", "zero"}
          /\ Number2(v).from \in {"own", "user", "blank"}
  <2>1. \A v \in Value : /\ [v EXCEPT !.from = "zero"] \in Value /\ [v EXCEPT !.from = "blank"] \in Value
                         /\ [v EXCEPT !.from = "zero"].from = "zero" /\ [v EXCEPT !.from = "blank"].from = "blank"
    BY DEF Value
  <2> QED BY <2>1 DEF Number, Number2
<1> QED BY <1>1, <1>2 DEF SentP, TextP, KnownP, Known, ValueSets, Closed

\* A reply ends with its only piece 03.
LEMMA ReplyShape ==
  ASSUME NEW r \in Replies
  PROVE  /\ r \in Seq(PiecesOf(Known)) /\ r \in Seq(Piece)
         /\ r[Len(r)] = Part("etx") /\ Len(r) \in Nat /\ Len(r) >= 1
         /\ \A i \in 1 .. Len(r) - 1 : r[i] # Part("etx")
         /\ Whole(r)
<1> DEFINE S == PiecesOf(Known)
<1>1. /\ Part("head") \in S /\ Part("lrc") \in S /\ Part("etx") \in S /\ Part("bit") \in S
      /\ Part("head") # Part("etx") /\ Part("lrc") # Part("etx") /\ Part("bit") # Part("etx")
      /\ \A v \in Known : [is |-> "value", val |-> v] \in S
      /\ \A v : [is |-> "value", val |-> v] # Part("etx")
  BY DEF Part, PiecesOf
<1>2. \A q \in Seq(S) : q \in Seq(Piece)
  BY DEF PiecesOf, Piece, Known
<1> HIDE DEF S
<1>3. CASE r = Ack
  <2>1. r \in Seq(S) /\ Len(r) = 3 /\ r[1] = Part("head") /\ r[2] = Part("lrc") /\ r[3] = Part("etx")
    BY <1>1, <1>3 DEF Ack
  <2>2. \A i \in 1 .. 2 : i = 1 \/ i = 2
    OBVIOUS
  <2> QED BY <1>1, <1>2, <1>3, <2>1, <2>2 DEF S, Whole
<1>4. CASE r = State
  <2>1. /\ r \in Seq(S) /\ Len(r) = 4 /\ r[1] = Part("head") /\ r[2] = Part("bit") /\ r[3] = Part("lrc")
        /\ r[4] = Part("etx")
    BY <1>1, <1>4 DEF State
  <2>2. \A i \in 1 .. 3 : i = 1 \/ i = 2 \/ i = 3
    OBVIOUS
  <2> QED BY <1>1, <1>2, <1>4, <2>1, <2>2 DEF S, Whole
<1>5. ASSUME NEW v \in Known, r = Answer(v)
      PROVE  /\ r \in Seq(S)
             /\ r[Len(r)] = Part("etx") /\ Len(r) \in Nat /\ Len(r) >= 1
             /\ \A i \in 1 .. Len(r) - 1 : r[i] # Part("etx")
             /\ Whole(r)
  <2> DEFINE d == [is |-> "value", val |-> v]
  <2>0. d \in S /\ d # Part("etx") /\ r = <<Part("head"), d, Part("lrc"), Part("etx")>>
    BY <1>1, <1>5 DEF Answer
  <2> HIDE DEF d
  <2>1. /\ r \in Seq(S) /\ Len(r) = 4 /\ r[1] = Part("head") /\ r[2] = d /\ r[3] = Part("lrc")
        /\ r[4] = Part("etx")
    BY <1>1, <2>0
  <2>2. \A i \in 1 .. 3 : i = 1 \/ i = 2 \/ i = 3
    OBVIOUS
  <2>3. Whole(r)
    BY <1>5 DEF Whole, Known
  <2> QED BY <1>1, <2>0, <2>1, <2>2, <2>3
<1> QED BY <1>2, <1>3, <1>4, <1>5 DEF Replies, S

\* What the dialog makes of a whole reply: the value of an answer, and 0 of others.
LEMMA FlattenThree ==
  ASSUME NEW S, NEW s \in [1 .. 3 -> Seq(S)]
  PROVE  FlattenSeq(s) = (s[1] \o s[2]) \o s[3]
<1>1. 3 \in Nat \ {0}
  OBVIOUS
<1> QED BY <1>1, FlattenUnfolds

LEMMA FlattenFour ==
  ASSUME NEW S, NEW s \in [1 .. 4 -> Seq(S)]
  PROVE  FlattenSeq(s) = ((s[1] \o s[2]) \o s[3]) \o s[4]
<1>1. 4 \in Nat \ {0}
  OBVIOUS
<1> QED BY <1>1, FlattenUnfolds

LEMMA ParsedReply ==
  ASSUME NEW r \in Replies, NEW p \in Params
  PROVE  Parsed(p, Window(Stream(r))) \in Known
<1> DEFINE S == BytesOf(Known)
           b == Stream(r)
           w == Window(b)
           h == <<Control, Byte, Byte, Byte, Byte, Byte>>
           l == <<Byte, Byte>>
<1>0. Byte \in S /\ Control \in S /\ Byte # Control /\ V(p, "zero") \in Known
  BY DEF BytesOf, Byte, Control, V, Known, Value
<1>1. /\ h \in Seq(S) /\ l \in Seq(S) /\ <<Control>> \in Seq(S) /\ <<Byte>> \in Seq(S)
      /\ Len(h) = 6 /\ Len(l) = 2 /\ Len(<<Control>>) = 1 /\ Len(<<Byte>>) = 1 /\ <<Control>>[1] = Control
  <2> HIDE DEF S
  <2> QED BY <1>0
<1>2. /\ Bytes(Part("head")) = h /\ Bytes(Part("lrc")) = l /\ Bytes(Part("etx")) = <<Control>>
      /\ Bytes(Part("bit")) = <<Byte>>
  BY DEF Bytes, Part
<1>3. r \in Seq(PiecesOf(Known)) /\ b \in Seq(S)
  BY ReplyShape, StreamBytes
<1> HIDE DEF S, h, l
<1> DEFINE s == [i \in 1 .. Len(r) |-> Bytes(r[i])]
<1>4. \A i \in 1 .. Len(r) : Bytes(r[i]) \in Seq(S)
  BY <1>3, PieceBytes DEF S
<1>5. b = FlattenSeq(s)
  BY DEF Stream
<1>6. ASSUME NEW n \in {9, 10}, Len(b) = n, b[n] = Control PROVE Parsed(p, w) \in Known
  <2>1. w = SubSeq(b, 7, n)
    BY <1>6 DEF Window
  <2>2. /\ \A i \in 7 .. n : b[i] \in S
        /\ n \in Int /\ 7 \in Int
    <3>1. \A i \in 7 .. n : i \in 1 .. Len(b)
      BY <1>6
    <3> HIDE DEF b
    <3> QED BY <1>3, <1>6, <3>1
  <2>3. /\ SubSeq(b, 7, n) \in Seq(S)
        /\ Len(SubSeq(b, 7, n)) = IF 7 <= n THEN n - 7 + 1 ELSE 0
        /\ \A i \in 1 .. n - 7 + 1 : SubSeq(b, 7, n)[i] = b[7 + i - 1]
    <3> HIDE DEF b
    <3> QED BY <2>2, SubSeqProperties
  <2>4. n - 7 + 1 \in 1 .. n - 7 + 1 /\ 7 + (n - 7 + 1) - 1 = n /\ n - 7 + 1 # 8 /\ 7 <= n
    BY <1>6
  <2>5. Len(w) # 8 /\ Len(w) \in 1 .. Len(w) /\ w[Len(w)] = Control
    <3>1. Len(w) = n - 7 + 1 /\ w[n - 7 + 1] = b[7 + (n - 7 + 1) - 1]
      <4> HIDE DEF b, w
      <4> QED BY <2>1, <2>3, <2>4
    <3>2. b[7 + (n - 7 + 1) - 1] = Control
      <4> HIDE DEF b, w
      <4> QED BY <1>6, <2>4
    <3> HIDE DEF b, w
    <3> QED BY <2>4, <3>1, <3>2
  <2>6. \A v : w # [i \in 1 .. 8 |-> [digit |-> i, val |-> v]]
    <3>1. \A v : Len([i \in 1 .. 8 |-> [digit |-> i, val |-> v]]) = 8
      OBVIOUS
    <3> HIDE DEF w
    <3> QED BY <2>5, <3>1
  <2>7. Contains(w, Control)
    <3> HIDE DEF w
    <3> QED BY <2>5 DEF Contains
  <2>8. Parsed(p, w) = V(p, "zero")
    <3> HIDE DEF w
    <3> QED BY <2>6, <2>7, Zenon DEF Parsed
  <2> QED BY <1>0, <2>8
<1>7. CASE r = Ack
  <2>1. Len(r) = 3 /\ r[1] = Part("head") /\ r[2] = Part("lrc") /\ r[3] = Part("etx")
    BY <1>7 DEF Ack
  <2>2. s \in [1 .. 3 -> Seq(S)] /\ s[1] = h /\ s[2] = l /\ s[3] = <<Control>>
    BY <1>2, <1>4, <2>1
  <2>3. b = (h \o l) \o <<Control>>
    <3> HIDE DEF s, b
    <3> QED BY <1>5, <2>2, FlattenThree
  <2>4. h \o l \in Seq(S) /\ Len(h \o l) = 8
    <3>1. h \o l \in Seq(S) /\ Len(h \o l) = Len(h) + Len(l)
      BY <1>1, ConcatProperties
    <3> QED BY <1>1, <3>1
  <2>5. Len(b) = 9 /\ b[9] = Control
    <3> HIDE DEF b
    <3> DEFINE x == h \o l
               e == <<Control>>
    <3> HIDE DEF x, e
    <3>1. /\ x \o e \in Seq(S) /\ Len(x \o e) = Len(x) + Len(e)
          /\ \A i \in 1 .. Len(x) + Len(e) : (x \o e)[i] = IF i <= Len(x) THEN x[i] ELSE e[i - Len(x)]
      BY <1>1, <2>4, ConcatProperties DEF x, e
    <3>2. Len(x) = 8 /\ Len(e) = 1 /\ e[1] = Control /\ b = x \o e
      BY <1>1, <2>3, <2>4 DEF x, e
    <3> QED BY <3>1, <3>2
  <2> QED BY <1>6, <2>5
<1>8. CASE r = State
  <2>1. Len(r) = 4 /\ r[1] = Part("head") /\ r[2] = Part("bit") /\ r[3] = Part("lrc") /\ r[4] = Part("etx")
    BY <1>8 DEF State
  <2>2. s \in [1 .. 4 -> Seq(S)] /\ s[1] = h /\ s[2] = <<Byte>> /\ s[3] = l /\ s[4] = <<Control>>
    BY <1>2, <1>4, <2>1
  <2>3. b = ((h \o <<Byte>>) \o l) \o <<Control>>
    <3> HIDE DEF s, b
    <3> QED BY <1>5, <2>2, FlattenFour
  <2>4. h \o <<Byte>> \in Seq(S) /\ Len(h \o <<Byte>>) = 7
    <3>1. h \o <<Byte>> \in Seq(S) /\ Len(h \o <<Byte>>) = Len(h) + Len(<<Byte>>)
      BY <1>1, ConcatProperties
    <3> QED BY <1>1, <3>1
  <2>5. (h \o <<Byte>>) \o l \in Seq(S) /\ Len((h \o <<Byte>>) \o l) = 9
    <3>1. /\ (h \o <<Byte>>) \o l \in Seq(S)
          /\ Len((h \o <<Byte>>) \o l) = Len(h \o <<Byte>>) + Len(l)
      BY <1>1, <2>4, ConcatProperties
    <3> QED BY <1>1, <2>4, <3>1
  <2>6. Len(b) = 10 /\ b[10] = Control
    <3> HIDE DEF b
    <3> DEFINE x == (h \o <<Byte>>) \o l
               e == <<Control>>
    <3> HIDE DEF x, e
    <3>1. /\ x \o e \in Seq(S) /\ Len(x \o e) = Len(x) + Len(e)
          /\ \A i \in 1 .. Len(x) + Len(e) : (x \o e)[i] = IF i <= Len(x) THEN x[i] ELSE e[i - Len(x)]
      BY <1>1, <2>5, ConcatProperties DEF x, e
    <3>2. Len(x) = 9 /\ Len(e) = 1 /\ e[1] = Control /\ b = x \o e
      BY <1>1, <2>3, <2>5 DEF x, e
    <3> QED BY <3>1, <3>2
  <2> QED BY <1>6, <2>6
<1>9. ASSUME NEW v \in Known, r = Answer(v) PROVE Parsed(p, w) \in Known
  <2> DEFINE d == [i \in 1 .. 8 |-> [digit |-> i, val |-> v]]
             e == [is |-> "value", val |-> v]
  <2>0. Bytes(e) = d
    BY DEF Bytes
  <2>1. Len(r) = 4 /\ r[1] = Part("head") /\ r[2] = e /\ r[3] = Part("lrc") /\ r[4] = Part("etx")
    BY <1>9 DEF Answer
  <2>2. Len(d) = 8
    OBVIOUS
  <2> HIDE DEF d, e
  <2>3. /\ s \in [1 .. 4 -> Seq(S)] /\ s[1] = h /\ s[2] = d /\ s[3] = l /\ s[4] = <<Control>>
        /\ d \in Seq(S)
    BY <1>2, <1>4, <2>0, <2>1
  <2>4. b = ((h \o d) \o l) \o <<Control>>
    <3> HIDE DEF s, b
    <3> QED BY <1>5, <2>3, FlattenFour
  <2>7. Len(b) = 17 /\ \A i \in 1 .. 8 : b[6 + i] = d[i]
    <3> DEFINE z == <<Control>>
    <3>1. z \in Seq(S) /\ Len(z) = 1
      BY <1>1
    <3> HIDE DEF z, b
    <3>2. b = ((h \o d) \o l) \o z
      BY <2>4 DEF z
    <3>3. h \in Seq(S) /\ d \in Seq(S) /\ l \in Seq(S) /\ Len(h) = 6 /\ Len(l) = 2
      BY <1>1, <2>3
    <3> HIDE DEF s
    <3> DEFINE x == h \o d
               y == x \o l
               c == y \o z
    <3>4. /\ x \in Seq(S) /\ Len(x) = Len(h) + Len(d)
          /\ \A i \in 1 .. Len(h) + Len(d) : x[i] = IF i <= Len(h) THEN h[i] ELSE d[i - Len(h)]
      BY <3>3, ConcatProperties
    <3> HIDE DEF x
    <3>5. x \in Seq(S) /\ Len(x) = 14 /\ \A i \in 1 .. 8 : x[6 + i] = d[i]
      BY <2>2, <3>3, <3>4
    <3>6. /\ y \in Seq(S) /\ Len(y) = Len(x) + Len(l)
          /\ \A i \in 1 .. Len(x) + Len(l) : y[i] = IF i <= Len(x) THEN x[i] ELSE l[i - Len(x)]
      BY <3>3, <3>5, ConcatProperties
    <3> HIDE DEF y
    <3>7. y \in Seq(S) /\ Len(y) = 16 /\ \A i \in 1 .. 14 : y[i] = x[i]
      BY <3>3, <3>5, <3>6
    <3>8. /\ c \in Seq(S) /\ Len(c) = Len(y) + Len(z)
          /\ \A i \in 1 .. Len(y) + Len(z) : c[i] = IF i <= Len(y) THEN y[i] ELSE z[i - Len(y)]
      BY <3>1, <3>7, ConcatProperties
    <3> HIDE DEF c
    <3>9. Len(c) = 17 /\ \A i \in 1 .. 16 : c[i] = y[i]
      BY <3>1, <3>7, <3>8
    <3>10. \A i \in 1 .. 8 : 6 + i \in 1 .. 14 /\ 6 + i \in 1 .. 16
      OBVIOUS
    <3>11. \A i \in 1 .. 8 : c[6 + i] = d[i]
      BY <3>5, <3>7, <3>9, <3>10
    <3>12. b = c
      BY <3>2 DEF x, y, c
    <3> QED BY <3>9, <3>11, <3>12
  <2>9. w = SubSeq(b, 7, 14)
    BY <2>7 DEF Window
  <2>10. w \in Seq(S) /\ Len(w) = 8 /\ \A i \in 1 .. 8 : w[i] = b[6 + i]
    <3>1. \A i \in 7 .. 14 : b[i] \in S
      <4>1. \A i \in 7 .. 14 : i \in 1 .. Len(b)
        BY <2>7
      <4> HIDE DEF b
      <4> QED BY <1>3, <4>1
    <3>2. /\ SubSeq(b, 7, 14) \in Seq(S)
          /\ Len(SubSeq(b, 7, 14)) = IF 7 <= 14 THEN 14 - 7 + 1 ELSE 0
          /\ \A i \in 1 .. 14 - 7 + 1 : SubSeq(b, 7, 14)[i] = b[7 + i - 1]
      <4> HIDE DEF b
      <4> QED BY <3>1, SubSeqProperties
    <3>3. 7 <= 14 /\ 14 - 7 + 1 = 8 /\ \A i \in 1 .. 8 : 7 + i - 1 = 6 + i
      OBVIOUS
    <3> HIDE DEF b, w
    <3> QED BY <2>9, <3>2, <3>3
  <2>11. w = d
    <3> HIDE DEF b, w
    <3>1. d \in Seq(S)
      BY <2>3
    <3> HIDE DEF s
    <3> QED BY <2>2, <2>7, <2>10, <3>1, SeqEqual, SMTT(30)
  <2>12. Parsed(p, w) = w[1].val
    <3>1. v \in Value
      BY DEF Known
    <3> HIDE DEF w
    <3> QED BY <2>11, <3>1, Zenon DEF Parsed, d
  <2>13. d[1].val = v
    BY DEF d
  <2> HIDE DEF w
  <2> QED BY <2>11, <2>12, <2>13
<1> QED BY <1>7, <1>8, <1>9 DEF Replies
\* A part of a reply that is read is not complete, and the rest still makes the reply.
LEMMA HeardMore ==
  ASSUME NEW a \in Seq(Piece), NEW q \in Seq(Piece), NEW r \in Replies, a \o q = r,
         NEW k \in 1 .. Len(q)
  PROVE  LET c == SubSeq(q, 1, k)
             d == SubSeq(q, k + 1, Len(q))
         IN /\ k = Len(q) => a \o c = r
            /\ k # Len(q) => ~Complete(a \o c) /\ (a \o c) \o d = r
<1> DEFINE c == SubSeq(q, 1, k)
           d == SubSeq(q, k + 1, Len(q))
           l == Len(a)
           n == Len(q)
           x == a \o c
           y == x \o d
<1>0. l \in Nat /\ n \in Nat /\ k \in Nat /\ 1 <= k /\ k <= n
  OBVIOUS
<1>1. /\ c \in Seq(Piece) /\ d \in Seq(Piece) /\ Len(c) = k /\ Len(d) = n - k
      /\ \A i \in 1 .. k : c[i] = q[i]
      /\ \A i \in 1 .. n - k : d[i] = q[k + i]
  BY ChunkTaken
<1>2. ASSUME k = n PROVE x = r
  <2>1. q # <<>>
    <3>1. Len(q) # 0 /\ Len(<<>>) = 0
      BY <1>0
    <3> QED BY <3>1, Zenon
  <2>2. c = q
    BY <1>2, <2>1, WholeChunk
  <2> QED BY <2>2
<1>3. /\ Len(r) = Len(a) + Len(q)
      /\ \A i \in 1 .. Len(a) + Len(q) : r[i] = IF i <= Len(a) THEN a[i] ELSE q[i - Len(a)]
  BY ConcatProperties
<1> HIDE DEF c, d
<1>4. /\ x \in Seq(Piece) /\ Len(x) = Len(a) + Len(c)
      /\ \A i \in 1 .. Len(a) + Len(c) : x[i] = IF i <= Len(a) THEN a[i] ELSE c[i - Len(a)]
  BY <1>1, ConcatProperties
<1> HIDE DEF x
<1>5. /\ y \in Seq(Piece) /\ Len(y) = Len(x) + Len(d)
      /\ \A i \in 1 .. Len(x) + Len(d) : y[i] = IF i <= Len(x) THEN x[i] ELSE d[i - Len(x)]
  <2>1. x \in Seq(Piece) /\ d \in Seq(Piece)
    BY <1>1, <1>4
  <2> QED BY <2>1, ConcatProperties
<1> HIDE DEF y, l, n
<1>6. /\ Len(r) = l + n /\ \A i \in 1 .. l + n : r[i] = IF i <= l THEN a[i] ELSE q[i - l]
      /\ Len(x) = l + k /\ \A i \in 1 .. l + k : x[i] = IF i <= l THEN a[i] ELSE c[i - l]
      /\ Len(y) = l + k + (n - k)
      /\ \A i \in 1 .. l + k + (n - k) : y[i] = IF i <= l + k THEN x[i] ELSE d[i - (l + k)]
  BY <1>1, <1>3, <1>4, <1>5 DEF l, n
<1>7. ASSUME NEW i \in 1 .. l + k PROVE x[i] = r[i]
  <2>1. i \in 1 .. l + n
    BY <1>0
  <2>2. CASE i <= l
    BY <1>6, <2>1, <2>2
  <2>3. CASE ~(i <= l)
    <3>1. i - l \in 1 .. k
      BY <1>0, <2>3
    <3> QED BY <1>1, <1>6, <2>1, <2>3, <3>1
  <2> QED BY <2>2, <2>3
<1>8. ASSUME k # n PROVE ~Complete(x)
  <2>1. \A i \in 1 .. l + k : i \in 1 .. (l + n) - 1
    BY <1>0, <1>8
  <2>2. \A i \in 1 .. l + k : x[i] # Part("etx")
    BY <1>6, <1>7, <2>1, ReplyShape, ZenonT(60)
  <2> QED BY <1>6, <2>2 DEF Complete, Contains
<1>9. y = r
  <2>1. l + k + (n - k) = l + n
    BY <1>0
  <2>2. ASSUME NEW i \in 1 .. l + n PROVE y[i] = r[i]
    <3>1. CASE i <= l + k
      <4>1. i \in 1 .. l + k
        BY <1>0, <3>1
      <4> QED BY <1>6, <1>7, <2>1, <3>1, <4>1
    <3>2. CASE ~(i <= l + k)
      <4>1. i - (l + k) \in 1 .. n - k /\ k + (i - (l + k)) = i - l /\ ~(i <= l)
        BY <1>0, <3>2
      <4>2. y[i] = d[i - (l + k)] /\ d[i - (l + k)] = q[k + (i - (l + k))]
        BY <1>1, <1>6, <2>1, <3>2, <4>1 DEF n
      <4> QED BY <1>6, <4>1, <4>2
    <3> QED BY <3>1, <3>2
  <2>3. r \in Seq(Piece) /\ y \in Seq(Piece)
    BY <1>5, ReplyShape
  <2> QED BY <1>6, <2>1, <2>2, <2>3, SeqEqual
<1> QED BY <1>2, <1>8, <1>9 DEF c, d, n, x, y

LEMMA NextCalm ==
  ASSUME DialogAssumption, Prompt, BaseInv, CalmInv, Next, ~hurried'
  PROVE  CalmInv'
<1> DEFINE Reading == out = <<>> /\ back # <<>> /\ \E r \in Replies : Heard \o back = r
           Waiting == Len(out) <= 1 /\ back = <<>> /\ Heard = <<>>
           Calm == /\ Doing("write") => Quiet
                   /\ dialog = "leaving" => Quiet /\ Doing("exec")
                   /\ Other = <<>>
                   /\ Waiting \/ Reading
                   /\ checked # "error"
<1>0. /\ TypeInv /\ TypeOK /\ StackInv /\ DialogInv /\ BackInv /\ ~hurried
      /\ Flow(AnyValue, AnyValue, AnyValue)
      /\ stack \in Seq(Seq(StepsOf(AnyValue))) /\ Flow(KnownP, TextP, SentP) /\ Calm
  <2>1. TypeOK /\ Flow(AnyValue, AnyValue, AnyValue) /\ stack \in Seq(Seq(StepsOf(AnyValue)))
    BY DEF BaseInv, TypeInv, Flow
  <2>2. ~hurried
    BY Zenon DEF Next, Press, GuiWrite, Wake, Return, Tick, Receive, Plc, hist
  <2> QED BY <2>1, <2>2 DEF BaseInv, CalmInv
<1>1. back \in Seq(Piece) /\ menuBuf \in Seq(Piece) /\ dlgBuf \in Seq(Piece) /\ out \in Seq(CmdsOf(AnyValue))
  BY <1>0 DEF TypeOK, Flow
<1>2. \A q : q # <<>> \/ Len(q) = 0
  OBVIOUS
\* Once all is handled and read nothing is left in either buffer.
<1>3. ASSUME Quiet PROVE menuBuf = <<>> /\ dlgBuf = <<>>
  BY <1>0, <1>3 DEF Quiet, Heard, Other
<1>4. ASSUME Quiet', UNCHANGED checked, menuBuf' = <<>>, dlgBuf' = <<>>,
             (dialog = "leaving" => Doing("exec"))'
      PROVE  Calm'
  <2>1. Len(out)' <= 1
    BY <1>4 DEF Quiet
  <2> QED BY <1>0, <1>4, <2>1 DEF Quiet, Heard, Other
<1>5. ASSUME EventLoop PROVE dialog # "leaving" /\ ~Doing("write")
  BY <1>0, <1>5 DEF EventLoop, Doing
<1>6. ASSUME NEW b \in Buttons, Press(b) PROVE Calm'
  <2>1. EventLoop /\ Settled /\ ~(b \in {"Ret", "Escape"} /\ Doing("sleep"))
    <3>1. ~(hurried \/ ~Settled \/ (b \in {"Ret", "Escape"} /\ Doing("sleep")))
      BY <1>6, Zenon DEF Press
    <3> QED BY <1>6, <3>1 DEF Press
  <2>2. Quiet
    <3>1. listener # "nobody"
      BY <1>0, <1>5, <2>1 DEF DialogInv, TypeOK
    <3> QED BY <2>1, <3>1 DEF Settled, Quiet
  <2>3. UNCHANGED <<line, menuBuf, checked>> /\ dlgBuf' \in {dlgBuf, <<>>}
    BY <1>6 DEF Press, PressGo, OpenSettings, Reject, PressApply, PressApply2, InDialog, Edit, recv
  <2>4. (dialog = "leaving" => Doing("exec"))'
    <3>1. CASE dialog' # "leaving"
      BY <3>1
    <3>2. CASE dialog' = "leaving"
      <4>1. Reject(b)
        <5>1. dialog # "leaving"
          BY <1>5, <2>1
        <5> QED BY <1>6, <3>2, <5>1 DEF Press, PressGo, OpenSettings, PressApply, PressApply2, InDialog, Edit, dlg
      <4>2. dialog = "open" /\ UNCHANGED stack /\ ~Doing("sleep")
        BY <2>1, <4>1 DEF Reject
      <4>3. stack # <<>>
        <5>1. \E i \in 1 .. Len(stack) : Modal(stack[i])
          BY <1>0, <4>2 DEF StackInv
        <5> QED BY <5>1
      <4>4. Doing("exec")
        BY <2>1, <4>2, <4>3 DEF EventLoop
      <4> QED BY <4>2, <4>4 DEF Doing, Step
    <3> QED BY <3>1, <3>2
  <2> QED BY <1>3, <1>4, <2>2, <2>3, <2>4 DEF line, Quiet
<1>7. ASSUME GuiWrite PROVE Calm'
  <2>1. /\ stack # <<>> /\ Doing("write") /\ Advance /\ out' = Append(out, Step.cmd)
        /\ UNCHANGED <<back, recv, dlg>>
    BY <1>7 DEF GuiWrite, Doing
  <2>2. Quiet /\ menuBuf = <<>> /\ dlgBuf = <<>>
    BY <1>0, <1>3, <2>1
  <2>3. ~Doing("write")'
    BY <1>0, <2>1, WritesOnce
  <2>4. Len(out)' = 1
    BY <2>1, <2>2 DEF Quiet
  <2>5. dialog # "leaving"
    BY <1>0, <2>1 DEF Doing
  <2>6. Waiting' /\ (Other = <<>>)' /\ checked' # "error" /\ dialog' # "leaving"
    BY <1>0, <2>1, <2>2, <2>4, <2>5 DEF Quiet, recv, dlg, Heard, Other
  <2> QED BY <2>3, <2>6
<1>8. ASSUME Wake \/ Return PROVE Calm'
  <2>1. UNCHANGED <<line, recv>>
    BY <1>8 DEF Wake, Return
  <2>2. Quiet
    <3>1. CASE Return
      BY <1>0, <3>1 DEF Return
    <3>2. CASE Wake
      <4>1. InTime /\ dialog # "leaving"
        BY <1>0, <3>2 DEF Wake, Doing
      <4>2. listener # "nobody"
        BY <1>0, <4>1 DEF DialogInv, TypeOK
      <4> QED BY <4>1, <4>2, PromptQuiet DEF Quiet
    <3> QED BY <1>8, <3>1, <3>2
  <2>3. dialog' # "leaving"
    <3>1. CASE Return
      BY <3>1 DEF Return
    <3>2. CASE Wake
      BY <1>0, <3>2 DEF Wake, Doing, dlg
    <3> QED BY <1>8, <3>1, <3>2
  <2> QED BY <1>3, <1>4, <2>1, <2>2, <2>3 DEF line, recv, Quiet
<1>9. ASSUME Tick PROVE Calm'
  <2>1. dialog # "leaving" /\ ~Doing("write") /\ InTime /\ ticking
    BY <1>5, <1>9 DEF Tick
  <2>2. Quiet /\ menuBuf = <<>> /\ dlgBuf = <<>>
    <3>1. listener # "nobody"
      BY <1>0, <2>1 DEF DialogInv, TypeOK
    <3>2. Quiet
      BY <2>1, <3>1, PromptQuiet DEF Quiet
    <3> QED BY <1>3, <3>2
  <2>3. UNCHANGED <<gui, back, recv, dialog, listener>>
    BY <1>9 DEF Tick
  <2>4. out' \in {<<>> \o <<ReadCmd("speed")>>, <<>> \o <<ReadCmd("angle")>>, <<>> \o <<>>}
    BY <1>9, <2>2 DEF Tick, Quiet
  <2>5. Len(out)' <= 1
    BY <2>4
  <2>6. ~Doing("write")'
    BY <2>1, <2>3 DEF gui, Doing, Step
  <2>7. Waiting' /\ (Other = <<>>)' /\ checked' # "error" /\ dialog' # "leaving"
    BY <1>0, <2>1, <2>2, <2>3, <2>5 DEF Quiet, recv, Heard, Other
  <2> QED BY <2>6, <2>7
<1>10. ASSUME Receive
       PROVE  Calm' /\ (listener = "dialog" =>
                            \/ field' = field
                            \/ Routed \in Params /\ \E v \in Known : field' = [field EXCEPT ![Routed] = v])
  <2>1. PICK k \in 1 .. Len(back) :
            /\ back' = SubSeq(back, k + 1, Len(back))
            /\ \/ listener = "menu" /\ MenuReads(SubSeq(back, 1, k))
               \/ listener = "dialog" /\ DialogReads(SubSeq(back, 1, k))
    BY <1>10 DEF Receive
  <2>2. UNCHANGED <<gui, out, dlg>> /\ EventLoop
    BY <1>10 DEF Receive
  <2>3. back # <<>>
    <3>1. Len(back) # 0 /\ Len(<<>>) = 0
      BY <1>1, <2>1
    <3> QED BY <3>1, Zenon
  <2>4. out = <<>> /\ \E r \in Replies : Heard \o back = r
    BY <1>0, <2>3
  <2>5. PICK r \in Replies : Heard \o back = r
    BY <2>4
  <2> DEFINE chunk == SubSeq(back, 1, k)
             buf == Heard \o chunk
             rest == SubSeq(back, k + 1, Len(back))
  <2>6. back' = rest /\ (rest = <<>> <=> k = Len(back))
    BY <1>1, <2>1, ChunkTaken
  <2>7. Heard \in Seq(Piece)
    BY <1>1 DEF Heard
  <2>8. /\ k = Len(back) => buf = r
        /\ k # Len(back) => ~Complete(buf) /\ buf \o rest = r
    <3>1. back \in Seq(Piece) /\ Heard \o back = r
      BY <1>1, <2>5
    <3> QED BY <2>7, <3>1, HeardMore, ZenonT(60)
  <2>9. Complete(r) /\ Whole(r)
    <3>1. Len(r) \in 1 .. Len(r) /\ r[Len(r)] = Part("etx") /\ Whole(r)
      BY ReplyShape
    <3> QED BY <3>1 DEF Complete, Contains
  <2>10. ~Doing("write")' /\ dialog' # "leaving" /\ out' = <<>> /\ listener' = listener
    <3>1. dialog # "leaving" /\ ~Doing("write")
      BY <1>5, <2>2
    <3> QED BY <2>2, <2>4, <3>1 DEF gui, dlg, Doing, Step
  <2>11. /\ Heard' = IF Complete(buf) THEN <<>> ELSE buf
         /\ (Other = <<>>)'
         /\ checked' # "error"
    <3>1. Complete(buf) => Whole(buf)
      BY <2>8, <2>9
    <3>2. CASE listener = "menu"
      <4>1. MenuReads(chunk) /\ Heard = menuBuf /\ Other = dlgBuf
        BY <2>1, <3>2 DEF Heard, Other
      <4>2. /\ menuBuf' = (IF Complete(menuBuf \o chunk) THEN <<>> ELSE menuBuf \o chunk)
            /\ checked' = (IF ~Complete(menuBuf \o chunk) THEN checked
                           ELSE IF Whole(menuBuf \o chunk) THEN "ok" ELSE "error")
            /\ dlgBuf' = dlgBuf
        BY <4>1 DEF MenuReads, AfterMenu
      <4>3. Heard' = menuBuf' /\ Other' = dlgBuf'
        BY <2>10, <3>2 DEF Heard, Other
      <4>4. checked' # "error"
        BY <1>0, <3>1, <4>1, <4>2
      <4> QED BY <1>0, <4>1, <4>2, <4>3, <4>4
    <3>3. CASE listener = "dialog"
      <4>1. DialogReads(chunk) /\ Heard = dlgBuf /\ Other = menuBuf
        BY <2>1, <3>3 DEF Heard, Other
      <4>2. /\ dlgBuf' = (IF Complete(dlgBuf \o chunk) THEN <<>> ELSE dlgBuf \o chunk)
            /\ UNCHANGED <<menuBuf, checked>>
        BY <4>1 DEF DialogReads
      <4>3. Heard' = dlgBuf' /\ Other' = menuBuf'
        BY <2>10, <3>3 DEF Heard, Other
      <4> QED BY <1>0, <4>1, <4>2, <4>3
    <3> QED BY <2>1, <3>2, <3>3
  <2>12. ASSUME listener = "dialog"
         PROVE  \/ field' = field
                \/ Routed \in Params /\ \E v \in Known : field' = [field EXCEPT ![Routed] = v]
    <3>1. DialogReads(chunk) /\ Heard = dlgBuf
      BY <2>1, <2>12 DEF Heard
    <3>2. field' = IF Complete(buf) /\ Routed # "none"
                   THEN [field EXCEPT ![Routed] = Parsed(Routed, Window(Stream(buf)))] ELSE field
      BY <3>1 DEF DialogReads, Stream
    <3>3. Routed # "none" => Routed \in Params
      BY DEF Routed, Params
    <3>4. Complete(buf) => buf = r
      BY <2>8
    <3>5. Routed \in Params => Parsed(Routed, Window(Stream(r))) \in Known
      BY ParsedReply
    <3> HIDE DEF buf
    <3> QED BY <3>2, <3>3, <3>4, <3>5
  <2>13. Waiting' \/ Reading'
    <3>1. CASE k = Len(back)
      <4>1. Heard' = <<>>
        <5> HIDE DEF buf
        <5> QED BY <2>8, <2>9, <2>11, <3>1
      <4>2. Len(out)' <= 1
        BY <2>10
      <4> QED BY <2>6, <3>1, <4>1, <4>2
    <3>2. CASE k # Len(back)
      <4>1. Heard' = buf
        <5> HIDE DEF buf
        <5> QED BY <2>8, <2>11, <3>2
      <4>2. Heard' \o back' = r /\ back' # <<>>
        <5> HIDE DEF buf, rest
        <5> QED BY <2>6, <2>8, <3>2, <4>1
      <4> QED BY <2>10, <4>2
    <3> QED BY <3>1, <3>2
  <2> HIDE DEF Waiting, Reading
  <2> QED BY <2>10, <2>11, <2>12, <2>13
<1>11. ASSUME Plc PROVE Calm'
  <2>1. UNCHANGED <<gui, recv, dlg>>
    BY <1>11 DEF Plc
  <2>2. out # <<>> /\ out' = Tail(out) /\ back' = back \o Reply(Head(out)) /\ Head(out) \in Cmd
    BY <1>0, <1>11, AnyIsClosed, MotorSet DEF CmdsOf
  <2>3. Waiting
    BY <1>0, <2>2
  <2>4. out' = <<>>
    <3>1. Len(Tail(out)) = Len(out) - 1 /\ Tail(out) \in Seq(CmdsOf(AnyValue)) /\ Len(out) \in Nat
      BY <1>1, <2>2
    <3>2. Len(Tail(out)) = 0
      BY <2>3, <3>1
    <3>3. \A q \in Seq(CmdsOf(AnyValue)) : Len(q) = 0 => q = <<>>
      OBVIOUS
    <3> QED BY <2>2, <3>1, <3>2, <3>3
  <2> DEFINE r == Reply(Head(out))
  <2>5. r \in Replies
    <3>1. Head(out).op = "read" => motor[Head(out).of] \in Known
      BY <1>0, <2>2 DEF Flow, KnownP, Cmd
    <3>2. CASE Head(out).op = "read"
      BY <3>1, <3>2 DEF Reply, Replies
    <3>3. CASE Head(out).op = "state"
      BY <3>3 DEF Reply, Replies
    <3>4. CASE Head(out).op \notin {"read", "state"}
      BY <3>4 DEF Reply, Replies
    <3> QED BY <3>2, <3>3, <3>4
  <2> HIDE DEF r
  <2>6. r \in Seq(Piece) /\ r # <<>>
    <3>1. r \in Seq(Piece) /\ Len(r) >= 1
      BY <2>5, ReplyShape
    <3> QED BY <3>1
  <2>7. <<>> \o r = r
    BY <2>6
  <2>8. back' = r /\ Heard' = <<>> /\ (Other = <<>>)'
    BY <1>0, <2>1, <2>2, <2>3, <2>7 DEF r, recv, dlg, Heard, Other
  <2>9. Reading'
    BY <2>4, <2>5, <2>6, <2>7, <2>8
  <2>10. ~Quiet
    BY <2>2 DEF Quiet
  <2>11. ~Doing("write")' /\ dialog' # "leaving" /\ checked' # "error"
    BY <1>0, <2>1, <2>10 DEF gui, dlg, recv, Doing, Step
  <2> HIDE DEF Reading
  <2> QED BY <2>8, <2>9, <2>11
<1>12. ASSUME Receive PROVE \A p \in Params : field'[p] \in TextP[p]
  <2>1. \A p \in Params : field[p] \in TextP[p]
    BY <1>0 DEF Flow
  <2>2. CASE field' = field
    BY <2>1, <2>2
  <2>3. ASSUME Routed \in Params, NEW v \in Known, field' = [field EXCEPT ![Routed] = v]
        PROVE  \A p \in Params : field'[p] \in TextP[p]
    <3>1. field \in [Params -> Value] /\ \A p \in Params : v \in TextP[p]
      BY <1>0 DEF TypeOK, Known, TextP
    <3> QED BY <2>1, <2>3, <3>1
  <2>4. listener = "menu" => field' = field
    BY <1>12 DEF Receive, MenuReads
  <2>5. listener \in {"menu", "dialog"}
    BY <1>12 DEF Receive
  <2> QED BY <1>10, <1>12, <2>2, <2>3, <2>4, <2>5
<1>13. Flow(KnownP, TextP, SentP)'
  BY <1>0, <1>12, KnownIsClosed, FlowStep
<1>14. Calm'
  <2> HIDE DEF Calm
  <2> QED BY <1>6, <1>7, <1>8, <1>9, <1>10, <1>11 DEF Next
<1> QED BY <1>13, <1>14 DEF CalmInv

LEMMA CalmInvariant ==
  ASSUME Prompt
  PROVE  Spec => []CalmInv
<1>1. Init => CalmInv
  <2> SUFFICES ASSUME Init PROVE CalmInv
    OBVIOUS
  <2>1. \A p \in Params : V(p, "own") \in Known /\ V(p, "empty") \in TextP[p]
    BY DEF V, Value, Known, TextP
  <2>2. Flow(KnownP, TextP, SentP)
    BY <2>1 DEF Init, Flow, KnownP
  <2>3. Len(out) <= 1 /\ Heard = <<>> /\ Other = <<>> /\ back = <<>> /\ checked # "error" /\ dialog # "leaving"
        /\ ~Doing("write")
    BY DEF Init, Heard, Other, Doing
  <2> QED BY <2>2, <2>3 DEF CalmInv
<1>2. BaseInv /\ CalmInv /\ [Next]_vars => CalmInv'
  <2>1. ASSUME CalmInv, UNCHANGED vars PROVE CalmInv'
    BY <2>1 DEF vars, gui, line, recv, dlg, hist, CalmInv, Flow, Doing, Step, Quiet, Heard, Other
  <2>2. hurried' => CalmInv'
    BY DEF CalmInv
  <2> QED BY <2>1, <2>2, DialogAssumption, NextCalm, Prompt
<1> QED BY <1>1, <1>2, BaseInvariant, PTL DEF Spec

\* With a PLC that answers in time and a user who waits for it, the motor is only ever
\* set to what it was, what the user typed, or 0.
THEOREM Genuine ==
  ASSUME Prompt
  PROVE  Spec => []ParametersGenuine
<1>1. CalmInv => ParametersGenuine
  <2> SUFFICES ASSUME CalmInv, ~hurried, NEW p \in Params PROVE motor[p].from \in {"own", "user", "zero"}
    BY DEF ParametersGenuine
  <2>1. motor[p] \in Known
    BY DEF CalmInv, Flow, KnownP
  <2> QED BY <2>1 DEF Known
<1> QED BY <1>1, CalmInvariant, PTL

\* With such a PLC and user, what lrcCheck is given is one whole reply.
THEOREM WholeAcks ==
  ASSUME Prompt
  PROVE  Spec => []AckIsWhole
<1>1. CalmInv => AckIsWhole
  BY DEF CalmInv, AckIsWhole
<1> QED BY <1>1, CalmInvariant, PTL
----------------------------------------------------------------------------
(* The last apply takes effect, whatever the PLC's pace. *)

IsSet(c, p)   == c.op = "set" /\ c.of = p
Sets(t, p)    == t.do = "write" /\ IsSet(t.cmd, p)
Pending(p)    == \E i \in 1 .. Len(stack) : \E k \in 1 .. Len(stack[i]) : Sets(stack[i][k], p)

\* What the motor will have when all is handled: the last value that was sent.
Latest(p) ==
    /\ \A i \in 1 .. Len(out) :
          (IsSet(out[i], p) /\ \A j \in i + 1 .. Len(out) : ~IsSet(out[j], p)) => out[i].val = applied[p]
    /\ (\A i \in 1 .. Len(out) : ~IsSet(out[i], p)) => motor[p] = applied[p]

\* Slots that still have to set a parameter were entered over the dialog, by the last
\* apply.
Owed ==
    \A p \in Params, i \in 1 .. Len(stack) : \A k \in 1 .. Len(stack[i]) :
        Sets(stack[i][k], p) => /\ stack[i][k].cmd.val = applied[p]
                                /\ \E j \in 1 .. i - 1 : Modal(stack[j])

ApplyInv ==
    ~nested =>
        /\ Owed
        /\ \A p \in Params : (~Pending(p) /\ applied[p].from # "blank") => Latest(p)

\* A step done leaves the others of its slot and those of the slots under it.
LEMMA AdvanceSets ==
  ASSUME NEW S, stack \in Seq(Seq(S)), StackInv, stack # <<>>, Advance
  PROVE  /\ \A i \in 1 .. Len(stack') :
               /\ i \in 1 .. Len(stack)
               /\ \A k \in 1 .. Len(stack'[i]) : \E m \in 1 .. Len(stack[i]) : stack'[i][k] = stack[i][m]
               /\ \A j \in 1 .. i - 1 : stack'[j] = stack[j]
         /\ \A p : Pending(p) /\ ~Sets(Step, p) => Pending(p)'
<1> DEFINE n == Len(stack)
           top == stack[n]
<1>1. n \in Nat /\ n >= 1 /\ n \in 1 .. n /\ top # <<>> /\ top \in Seq(S) /\ Step = top[1]
  BY TopIs
<1>2. /\ \A k \in 1 .. n - 1 : stack'[k] = stack[k]
      /\ \/ Len(top) = 1 /\ Len(stack') = n - 1
         \/ Len(top) > 1 /\ Len(stack') = n /\ stack'[n] = Tail(top)
  BY <1>1, AdvanceShape
<1>3. Len(top) \in Nat /\ Len(Tail(top)) = Len(top) - 1 /\ \A k \in 1 .. Len(top) - 1 : Tail(top)[k] = top[k + 1]
  <2>1. Len(Tail(top)) = Len(top) - 1 /\ \A i \in 1 .. Len(Tail(top)) : Tail(top)[i] = top[i + 1]
    BY <1>1, HeadTailProperties
  <2>2. Len(top) \in Nat
    BY <1>1
  <2> QED BY <2>1, <2>2
<1> HIDE DEF n, top
<1>4. Len(stack') \in {n - 1, n}
  BY <1>2
<1>5. ASSUME NEW i \in 1 .. Len(stack')
      PROVE  /\ i \in 1 .. n
             /\ \A k \in 1 .. Len(stack'[i]) : \E m \in 1 .. Len(stack[i]) : stack'[i][k] = stack[i][m]
             /\ \A j \in 1 .. i - 1 : stack'[j] = stack[j]
  <2>1. i \in 1 .. n /\ \A j \in 1 .. i - 1 : j \in 1 .. n - 1
    BY <1>1, <1>4, <1>5
  <2>2. CASE i # n
    <3>1. i \in 1 .. n - 1
      BY <1>1, <2>1, <2>2
    <3> QED BY <1>2, <2>1, <3>1
  <2>3. CASE i = n
    <3>1. Len(stack') = n
      BY <1>1, <1>2, <1>5, <2>3
    <3>2. stack'[i] = Tail(top)
      BY <1>1, <1>2, <2>3, <3>1
    <3>3. \A k \in 1 .. Len(top) - 1 : k + 1 \in 1 .. Len(top)
      BY <1>3
    <3>4. \A k \in 1 .. Len(stack'[i]) : \E m \in 1 .. Len(stack[i]) : stack'[i][k] = stack[i][m]
      <4>1. stack[i] = top
        BY <2>3 DEF top
      <4> QED BY <1>3, <3>2, <3>3, <4>1
    <3> QED BY <1>2, <2>1, <3>4
  <2> QED BY <2>2, <2>3
<1>6. ASSUME NEW p, Pending(p), ~Sets(Step, p) PROVE Pending(p)'
  <2>0. PICK i \in 1 .. n : \E k \in 1 .. Len(stack[i]) : Sets(stack[i][k], p)
    BY <1>6 DEF Pending, n
  <2>1. PICK k \in 1 .. Len(stack[i]) : Sets(stack[i][k], p)
    BY <2>0
  <2>2. CASE i # n
    <3>1. i \in 1 .. n - 1 /\ i \in 1 .. Len(stack')
      BY <1>1, <1>4, <2>2
    <3>2. stack'[i] = stack[i]
      BY <1>2, <3>1
    <3> QED BY <2>1, <3>1, <3>2 DEF Pending, Sets
  <2>3. CASE i = n
    <3>1. stack[i] = top
      BY <2>3 DEF top
    <3>2. k # 1
      BY <1>1, <1>6, <2>1, <3>1
    <3>3. k - 1 \in 1 .. Len(top) - 1 /\ (k - 1) + 1 = k /\ Len(top) > 1
      BY <1>3, <3>1, <3>2
    <3>4. Tail(top)[k - 1] = stack[i][k]
      BY <1>3, <3>1, <3>3
    <3>7. Len(top) # 1
      <4>1. \A m \in Nat : m > 1 => m # 1
        OBVIOUS
      <4> QED BY <1>3, <3>3, <4>1, Zenon
    <3>5. Len(stack') = n /\ stack'[n] = Tail(top)
      BY <1>2, <3>7
    <3>6. k - 1 \in 1 .. Len(stack'[n]) /\ n \in 1 .. Len(stack') /\ Sets(stack'[n][k - 1], p)
      BY <1>1, <1>3, <2>1, <3>3, <3>4, <3>5
    <3> QED BY <3>6 DEF Pending, Sets
  <2> QED BY <2>2, <2>3
<1> QED BY <1>5, <1>6 DEF n

\* A step that writes nothing and leaves what was applied.
LEMMA AdvanceOwed ==
  ASSUME NEW S, stack \in Seq(Seq(S)), StackInv, stack # <<>>, Advance, Owed, applied' = applied
  PROVE  Owed'
<1> SUFFICES ASSUME NEW p \in Params, NEW i \in 1 .. Len(stack'), NEW k \in 1 .. Len(stack'[i]),
                    Sets(stack'[i][k], p)
             PROVE  stack'[i][k].cmd.val = applied[p] /\ \E j \in 1 .. i - 1 : Modal(stack'[j])
  BY DEF Owed, Sets, Modal
<1>1. /\ i \in 1 .. Len(stack)
      /\ \E m \in 1 .. Len(stack[i]) : stack'[i][k] = stack[i][m]
      /\ \A j \in 1 .. i - 1 : stack'[j] = stack[j]
  BY AdvanceSets
<1>2. PICK m \in 1 .. Len(stack[i]) : stack'[i][k] = stack[i][m]
  BY <1>1
<1>3. stack[i][m].cmd.val = applied[p] /\ \E j \in 1 .. i - 1 : Modal(stack[j])
  BY <1>1, <1>2 DEF Owed
<1> QED BY <1>1, <1>2, <1>3 DEF Modal

\* A slot that sets nothing is entered.
NoSets(s) == \A k \in 1 .. Len(s) : \A p : ~Sets(s[k], p)

LEMMA CallOwed ==
  ASSUME NEW S, stack \in Seq(Seq(S)), NEW s \in Seq(S), NoSets(s), Call(s), Owed, applied' = applied
  PROVE  Owed' /\ \A p : Pending(p) => Pending(p)'
<1> DEFINE n == Len(stack)
<1>1. /\ n \in Nat /\ Len(stack') = n + 1 /\ stack'[n + 1] = s
      /\ \A k \in 1 .. n : stack'[k] = stack[k]
  BY CallShape
<1> HIDE DEF n
<1>2. \A i \in 1 .. n + 1 : (i \in 1 .. n \/ i = n + 1) /\ \A j \in 1 .. i - 1 : j \in 1 .. n
  BY <1>1
<1>3. Owed'
  <2> SUFFICES ASSUME NEW p \in Params, NEW i \in 1 .. n + 1, NEW k \in 1 .. Len(stack'[i]),
                      Sets(stack'[i][k], p)
               PROVE  stack'[i][k].cmd.val = applied[p] /\ \E j \in 1 .. i - 1 : Modal(stack'[j])
    BY <1>1 DEF Owed, Sets, Modal
  <2>1. i \in 1 .. n /\ stack'[i] = stack[i]
    BY <1>1, <1>2 DEF NoSets
  <2>2. stack[i][k].cmd.val = applied[p] /\ \E j \in 1 .. i - 1 : Modal(stack[j])
    BY <2>1 DEF Owed, n
  <2> QED BY <1>1, <1>2, <2>1, <2>2 DEF Modal
<1>4. ASSUME NEW p, Pending(p) PROVE Pending(p)'
  <2>1. PICK i \in 1 .. n : \E k \in 1 .. Len(stack[i]) : Sets(stack[i][k], p)
    BY <1>4 DEF Pending, n
  <2>2. i \in 1 .. n + 1 /\ stack'[i] = stack[i]
    BY <1>1
  <2> QED BY <1>1, <2>1, <2>2 DEF Pending, Sets
<1> QED BY <1>3, <1>4

\* An apply that is pressed while the dialog shows, and no slot sleeps, owes both its
\* values and nothing else.
LEMMA ApplyOwed ==
  ASSUME NEW S, stack \in Seq(Seq(S)), StackInv, Owed, Doing("exec"),
         NEW a, NEW b, a.op = "set", a.of = "angle", b.op = "set", b.of = "speed",
         NEW s \in Seq(S), s = <<Write(a), Sleep, Write(b)>>, Call(s),
         a.val = applied'["angle"], b.val = applied'["speed"]
  PROVE  Owed' /\ \A p \in Params : Pending(p)'
<1> DEFINE n == Len(stack)
<1>1. /\ n \in Nat /\ Len(stack') = n + 1 /\ stack'[n + 1] = s
      /\ \A k \in 1 .. n : stack'[k] = stack[k]
  BY CallShape
<1>2. n \in 1 .. n /\ Modal(stack[n])
  BY TopIs DEF Doing, Modal
<1>3. \A j \in 1 .. n : Modal(stack[j]) => j = n
  BY <1>2 DEF StackInv
<1>4. Len(s) = 3 /\ s[1] = Write(a) /\ s[2] = Sleep /\ s[3] = Write(b)
  OBVIOUS
<1>5. /\ Write(a).do = "write" /\ Write(a).cmd = a /\ Write(b).do = "write" /\ Write(b).cmd = b
      /\ Sleep.do # "write"
  BY DEF Write, Sleep
<1> HIDE DEF n
<1>6. n + 1 \in 1 .. n + 1 /\ \A i \in 1 .. n + 1 : i \in 1 .. n \/ i = n + 1
  BY <1>1
<1>8. \A p \in Params : Pending(p)'
  <2>1. Sets(s[1], "angle") /\ Sets(s[3], "speed") /\ 1 \in 1 .. Len(s) /\ 3 \in 1 .. Len(s)
    BY <1>4, <1>5 DEF Sets, IsSet
  <2> QED BY <1>1, <1>6, <2>1 DEF Pending, Sets, Params
<1>9. Owed'
  <2> SUFFICES ASSUME NEW p \in Params, NEW i \in 1 .. n + 1, NEW k \in 1 .. Len(stack'[i]),
                      Sets(stack'[i][k], p)
               PROVE  stack'[i][k].cmd.val = applied'[p] /\ \E j \in 1 .. i - 1 : Modal(stack'[j])
    BY <1>1 DEF Owed, Sets, Modal
  <2>1. CASE i = n + 1
    <3>1. k = 1 \/ k = 2 \/ k = 3
      <4>1. Len(stack'[i]) = 3
        BY <1>1, <1>4, <2>1
      <4>2. \A m \in 1 .. 3 : m = 1 \/ m = 2 \/ m = 3
        OBVIOUS
      <4> QED BY <4>1, <4>2
    <3>2. stack'[i][k].cmd.val = applied'[p]
      BY <1>1, <1>4, <1>5, <2>1, <3>1 DEF Sets, IsSet
    <3>3. n \in 1 .. i - 1 /\ Modal(stack'[n])
      BY <1>1, <1>2, <2>1
    <3> QED BY <3>2, <3>3
  <2>2. CASE i # n + 1
    <3>1. i \in 1 .. n /\ stack'[i] = stack[i]
      BY <1>1, <1>6, <2>2
    <3>2. ~\E j \in 1 .. i - 1 : Modal(stack[j])
      <4>1. \A j \in 1 .. i - 1 : j \in 1 .. n /\ j # n
        BY <1>1, <3>1
      <4> QED BY <1>3, <4>1
    <3> QED BY <3>1, <3>2 DEF Owed, n
  <2> QED BY <2>1, <2>2
<1> QED BY <1>8, <1>9
\* A command that sets another parameter, or none, or that sets this one to what was
\* applied, keeps the last value that was sent.
LEMMA LatestAppended ==
  ASSUME NEW S, out \in Seq(S), NEW c \in S, out' = Append(out, c), NEW p, motor' = motor, applied' = applied,
         \/ IsSet(c, p) /\ c.val = applied[p]
         \/ ~IsSet(c, p) /\ Latest(p)
  PROVE  Latest(p)'
<1> DEFINE n == Len(out)
<1>1. n \in Nat /\ Len(out') = n + 1 /\ out'[n + 1] = c /\ \A i \in 1 .. n : out'[i] = out[i]
  BY AppendProperties
<1> HIDE DEF n
<1>2. \A i \in 1 .. n + 1 : i \in 1 .. n \/ i = n + 1
  BY <1>1
<1>3. n + 1 \in 1 .. n + 1 /\ \A i \in 1 .. n : n + 1 \in i + 1 .. n + 1 /\ i \in 1 .. n + 1
  BY <1>1
<1>4. ASSUME NEW i \in 1 .. n + 1, IsSet(out'[i], p), \A j \in i + 1 .. n + 1 : ~IsSet(out'[j], p)
      PROVE  out'[i].val = applied[p]
  <2>1. CASE i = n + 1
    BY <1>1, <1>4, <2>1
  <2>2. CASE i # n + 1
    <3>1. i \in 1 .. n /\ ~IsSet(c, p)
      BY <1>1, <1>2, <1>3, <1>4, <2>2
    <3>2. \A j \in i + 1 .. n : j \in i + 1 .. n + 1 /\ j \in 1 .. n
      BY <1>1, <3>1
    <3>3. \A j \in i + 1 .. n : ~IsSet(out[j], p)
      BY <1>1, <1>4, <3>2
    <3>4. Latest(p)
      BY <3>1
    <3> QED BY <1>1, <1>4, <3>1, <3>3, <3>4 DEF Latest, n
  <2> QED BY <2>1, <2>2
<1>5. ASSUME \A i \in 1 .. n + 1 : ~IsSet(out'[i], p) PROVE motor[p] = applied[p]
  <2>1. Latest(p) /\ \A i \in 1 .. n : ~IsSet(out[i], p)
    BY <1>1, <1>3, <1>5
  <2> QED BY <2>1 DEF Latest, n
<1> QED BY <1>1, <1>4, <1>5 DEF Latest, IsSet

\* The PLC takes the first command.
LEMMA LatestTaken ==
  ASSUME TypeOK, out \in Seq(CmdsOf(AnyValue)), Plc, NEW p \in Params, applied' = applied, Latest(p),
         applied[p].from # "blank"
  PROVE  Latest(p)'
<1> DEFINE n == Len(out)
           c == out[1]
<1>1. out # <<>> /\ out' = Tail(out) /\ Head(out) = c /\ c \in Cmd
  <2>1. out # <<>> /\ out' = Tail(out)
    BY DEF Plc
  <2>2. Head(out) = out[1] /\ out[1] \in CmdsOf(AnyValue)
    BY <2>1
  <2> QED BY <2>1, <2>2 DEF CmdsOf
<1>2. n \in Nat /\ n >= 1 /\ Len(out') = n - 1 /\ \A i \in 1 .. n - 1 : out'[i] = out[i + 1]
  <2>1. Len(Tail(out)) = Len(out) - 1 /\ \A i \in 1 .. Len(Tail(out)) : Tail(out)[i] = out[i + 1]
    BY <1>1, HeadTailProperties
  <2> QED BY <1>1, <2>1
<1>3. \/ motor' = motor /\ ~IsSet(c, p)
      \/ \E v \in Value : motor' = [motor EXCEPT ![c.of] = v] /\ c.of # p
      \/ IsSet(c, p) /\ (c.val.from # "blank" => motor' = [motor EXCEPT ![p] = c.val])
      \/ motor' = motor /\ c.of # p
  <2>1. \/ c.op # "set" /\ motor' = motor
        \/ c.op = "set" /\ c.val.from # "blank" /\ motor' = [motor EXCEPT ![c.of] = c.val]
        \/ c.op = "set" /\ c.val.from = "blank"
           /\ motor' \in {motor, [motor EXCEPT ![c.of] = V(c.of, "zero")]}
    BY <1>1 DEF Plc
  <2>2. c.op = "set" => c.val \in Value /\ c.of \in Params /\ V(c.of, "zero") \in Value
    BY <1>1 DEF Cmd, V, Value
  <2> HIDE DEF c
  <2> QED BY <2>1, <2>2 DEF IsSet
<1> HIDE DEF n, c
<1>4. \A i \in 1 .. n - 1 : i + 1 \in 1 .. n
  BY <1>2
<1>5. ASSUME NEW i \in 1 .. n - 1, IsSet(out'[i], p), \A j \in i + 1 .. n - 1 : ~IsSet(out'[j], p)
      PROVE  out'[i].val = applied[p]
  <2>1. \A j \in i + 1 + 1 .. n : j - 1 \in i + 1 .. n - 1 /\ j - 1 \in 1 .. n - 1 /\ (j - 1) + 1 = j
    BY <1>2, <1>5
  <2>2. ASSUME NEW j \in i + 1 + 1 .. n PROVE ~IsSet(out[j], p)
    <3>1. ~IsSet(out'[j - 1], p) /\ out'[j - 1] = out[(j - 1) + 1]
      BY <1>2, <1>5, <2>1
    <3> QED BY <2>1, <3>1
  <2>3. i + 1 \in 1 .. n /\ IsSet(out[i + 1], p) /\ out'[i] = out[i + 1]
    BY <1>2, <1>4, <1>5
  <2> QED BY <2>2, <2>3 DEF Latest, n
<1>6. ASSUME \A i \in 1 .. n - 1 : ~IsSet(out'[i], p) PROVE motor'[p] = applied[p]
  <2>1. \A j \in 1 + 1 .. n : j - 1 \in 1 .. n - 1 /\ (j - 1) + 1 = j
    BY <1>2
  <2>2. ASSUME NEW j \in 1 + 1 .. n PROVE ~IsSet(out[j], p)
    <3>1. ~IsSet(out'[j - 1], p) /\ out'[j - 1] = out[(j - 1) + 1]
      BY <1>2, <1>6, <2>1
    <3> QED BY <2>1, <3>1
  <2>3. 1 \in 1 .. n /\ \A j \in 1 .. n : j = 1 \/ j \in 1 + 1 .. n
    BY <1>2
  <2>4. CASE IsSet(c, p)
    <3>1. c.val = applied[p]
      BY <2>2, <2>3, <2>4 DEF Latest, n, c
    <3>2. motor' = [motor EXCEPT ![p] = c.val]
      BY <1>3, <2>4, <3>1 DEF IsSet
    <3>3. motor \in [Params -> Value]
      BY DEF TypeOK
    <3> QED BY <3>1, <3>2, <3>3
  <2>5. CASE ~IsSet(c, p)
    <3>1. motor[p] = applied[p]
      BY <2>2, <2>3, <2>5 DEF Latest, n, c
    <3>2. motor'[p] = motor[p]
      <4>1. motor \in [Params -> Value]
        BY DEF TypeOK
      <4> QED BY <1>3, <2>5, <4>1
    <3> QED BY <3>1, <3>2
  <2> QED BY <2>4, <2>5
<1> QED BY <1>2, <1>5, <1>6 DEF Latest, IsSet

LEMMA NextApply ==
  ASSUME DialogAssumption, BaseInv, ApplyInv, Next, ~nested'
  PROVE  ApplyInv'
<1> DEFINE S == StepsOf(AnyValue)
           LastIsSet == \A p \in Params : (~Pending(p) /\ applied[p].from # "blank") => Latest(p)
<1>0. /\ TypeInv /\ TypeOK /\ StackInv /\ ~nested /\ Owed /\ LastIsSet
      /\ stack \in Seq(Seq(S)) /\ out \in Seq(CmdsOf(AnyValue))
      /\ \A p \in Params : field[p] \in AnyValue[p]
  <2>1. TypeOK /\ stack \in Seq(Seq(S)) /\ out \in Seq(CmdsOf(AnyValue)) /\ \A p \in Params : field[p] \in AnyValue[p]
    BY DEF BaseInv, TypeInv, Flow
  <2>2. ~nested
    BY Zenon DEF Next, Press, GuiWrite, Wake, Return, Tick, Receive, Plc, hist
  <2> QED BY <2>1, <2>2 DEF BaseInv, ApplyInv
<1>1. ASSUME UNCHANGED <<line, applied>>, \A p \in Params : Pending(p) => Pending(p)' PROVE LastIsSet'
  BY <1>0, <1>1 DEF line, Latest, IsSet
<1>2. ASSUME UNCHANGED <<stack, applied>> PROVE Owed' /\ \A p \in Params : Pending(p)' <=> Pending(p)
  BY <1>0, <1>2 DEF Owed, Modal, Pending, Sets
<1>3. ASSUME NEW s \in Seq(S), Call(s), NoSets(s), UNCHANGED <<line, applied>> PROVE Owed' /\ LastIsSet'
  <2>1. Owed' /\ \A p : Pending(p) => Pending(p)'
    BY <1>0, <1>3, CallOwed
  <2> QED BY <1>1, <1>3, <2>1
<1>4. ASSUME NEW b \in Buttons, Press(b) PROVE Owed' /\ LastIsSet'
  <2>1. CASE PressGo \/ InDialog(Start)
    <3>1. Call(Start) /\ UNCHANGED <<line, applied>> /\ Start \in Seq(S)
      BY <2>1, StartScript DEF PressGo, InDialog
    <3>2. NoSets(Start)
      <4>1. Len(Start) = 5 /\ \A k \in 1 .. 5 : Start[k] \in {Write(CoilCmd("ENABLE_LOCKED")), Sleep,
                Write(CoilCmd("ROTATE_A")), Write(CoilCmd("ROTATE_B"))}
        BY DEF Start
      <4>2. \A c, p : ~Sets(Write(CoilCmd(c)), p) /\ ~Sets(Sleep, p)
        BY DEF Sets, Write, Sleep, CoilCmd, IsSet
      <4> QED BY <4>1, <4>2 DEF NoSets
    <3> QED BY <1>3, <3>1, <3>2
  <2>2. CASE OpenSettings
    <3>1. Call(<<Exec>>) /\ UNCHANGED <<line, applied>> /\ <<Exec>> \in Seq(S)
      BY <2>2 DEF OpenSettings, StepsOf
    <3>2. NoSets(<<Exec>>)
      BY DEF NoSets, Sets, Exec
    <3> QED BY <1>3, <3>1, <3>2
  <2>3. CASE Reject(b) \/ \E p \in Params : Edit(p)
    <3>1. UNCHANGED <<stack, line, applied>>
      BY <2>3 DEF Reject, Edit
    <3> QED BY <1>1, <1>2, <3>1
  <2>4. CASE b \in DOMAIN TestBox /\ InDialog(<<Write(TestBox[b])>>)
    <3>1. Call(<<Write(TestBox[b])>>) /\ UNCHANGED <<line, applied>>
      BY <2>4 DEF InDialog
    <3>2. <<Write(TestBox[b])>> \in Seq(S)
      <4>1. TestBox[b] \in CmdsOf(AnyValue)
        BY <2>4, PlainCmds
      <4>2. Write(TestBox[b]) \in S
        BY <4>1 DEF StepsOf, Write
      <4> QED BY <4>2
    <3>3. TestBox[b].op # "set"
      <4>1. TestBox[b] \in {CoilCmd("STOP"), CoilCmd("ROTATE_ALL_TIME"), ReadCmd("angle"),
                ReadCmd("speed"), StateCmd("ENABLE"), StateCmd("ROTATE"),
                CoilCmd("ENABLE_LOCKED"), CoilCmd("ENABLE_RELEASE")}
        BY <2>4 DEF TestBox
      <4> QED BY <4>1 DEF CoilCmd, StateCmd, ReadCmd
    <3>4. NoSets(<<Write(TestBox[b])>>)
      <4> DEFINE t == Write(TestBox[b])
      <4>1. \A p : ~Sets(t, p)
        BY <3>3 DEF Sets, IsSet, Write
      <4> HIDE DEF t
      <4>2. NoSets(<<t>>)
        BY <4>1 DEF NoSets
      <4> QED BY <4>2 DEF t
    <3> QED BY <1>3, <3>1, <3>2, <3>4
  <2>5. ASSUME b \in {"MotorParaApply", "MotorParaApply_2"}, dialog = "open" PROVE Doing("exec")
    <3>1. EventLoop /\ ~Doing("sleep")
      <4>1. ~(nested \/ (b \in {"MotorParaApply", "MotorParaApply_2"} /\ Doing("sleep")))
        BY <1>4, Zenon DEF Press
      <4> QED BY <1>4, <2>5, <4>1 DEF Press
    <3>2. stack # <<>>
      <4>1. \E i \in 1 .. Len(stack) : Modal(stack[i])
        BY <1>0, <2>5 DEF StackInv
      <4> QED BY <4>1
    <3> QED BY <3>1, <3>2 DEF EventLoop
  <2>6. "speed" \in Params /\ "angle" \in Params
    BY DEF Params
  <2>7. CASE b = "MotorParaApply" /\ PressApply
    <3> DEFINE x == SetCmd("angle", Number(field["angle"]))
               y == SetCmd("speed", Number(field["speed"]))
    <3>1. Call(Apply) /\ dialog = "open" /\ applied' = [p \in Params |-> Number(field[p])]
      BY <2>7 DEF PressApply
    <3>2. Apply \in Seq(S)
      BY <1>0, AnyIsClosed, ApplyScripts
    <3>3. /\ x.op = "set" /\ x.of = "angle" /\ x.val = applied'["angle"]
          /\ y.op = "set" /\ y.of = "speed" /\ y.val = applied'["speed"]
      BY <2>6, <3>1 DEF SetCmd
    <3>4. Apply = <<Write(x), Sleep, Write(y)>>
      BY DEF Apply
    <3> HIDE DEF x, y
    <3>5. Owed' /\ \A p \in Params : Pending(p)'
      BY <1>0, <2>5, <2>7, <3>1, <3>2, <3>3, <3>4, ApplyOwed
    <3> QED BY <3>5
  <2>8. CASE b = "MotorParaApply_2" /\ PressApply2
    <3> DEFINE x == SetCmd("angle", Number2(field["angle"]))
               y == SetCmd("speed", Number2(field["speed"]))
    <3>1. Call(Apply2) /\ dialog = "open" /\ applied' = [p \in Params |-> Number2(field[p])]
      BY <2>8 DEF PressApply2
    <3>2. Apply2 \in Seq(S)
      BY <1>0, AnyIsClosed, ApplyScripts
    <3>3. /\ x.op = "set" /\ x.of = "angle" /\ x.val = applied'["angle"]
          /\ y.op = "set" /\ y.of = "speed" /\ y.val = applied'["speed"]
      BY <2>6, <3>1 DEF SetCmd
    <3>4. Apply2 = <<Write(x), Sleep, Write(y)>>
      BY DEF Apply2
    <3> HIDE DEF x, y
    <3>5. Owed' /\ \A p \in Params : Pending(p)'
      BY <1>0, <2>5, <2>8, <3>1, <3>2, <3>3, <3>4, ApplyOwed
    <3> QED BY <3>5
  <2> HIDE DEF LastIsSet
  <2> QED BY <1>4, <2>1, <2>2, <2>3, <2>4, <2>6, <2>7, <2>8 DEF Press
<1>5. ASSUME GuiWrite PROVE Owed' /\ LastIsSet'
  <2>1. /\ stack # <<>> /\ Step.do = "write" /\ Advance /\ out' = Append(out, Step.cmd)
        /\ UNCHANGED <<motor, applied>>
    BY <1>5 DEF GuiWrite, Doing
  <2>2. Owed' /\ \A p : Pending(p) /\ ~Sets(Step, p) => Pending(p)'
    BY <1>0, <2>1, AdvanceOwed, AdvanceSets
  <2>3. /\ Step \in S /\ Step = stack[Len(stack)][1]
        /\ Len(stack) \in 1 .. Len(stack) /\ stack[Len(stack)] # <<>> /\ stack[Len(stack)] \in Seq(S)
    BY <1>0, <2>1, TopIs
  <2>4. Step.cmd \in CmdsOf(AnyValue)
    BY <2>1, <2>3, StepKinds
  <2>5. ASSUME NEW p \in Params, ~Pending(p)', applied'[p].from # "blank" PROVE Latest(p)'
    <3>1. CASE Sets(Step, p)
      <4>1. 1 \in 1 .. Len(stack[Len(stack)])
        BY <2>3
      <4>2. Step.cmd.val = applied[p] /\ IsSet(Step.cmd, p)
        BY <1>0, <2>3, <3>1, <4>1 DEF Owed, Sets
      <4> QED BY <1>0, <2>1, <2>4, <4>2, LatestAppended
    <3>2. CASE ~Sets(Step, p)
      <4>1. Latest(p) /\ ~IsSet(Step.cmd, p)
        BY <1>0, <2>1, <2>2, <2>5, <3>2 DEF Sets
      <4> QED BY <1>0, <2>1, <2>4, <4>1, LatestAppended
    <3> QED BY <3>1, <3>2
  <2> QED BY <2>2, <2>5
<1>6. ASSUME Wake \/ Return PROVE Owed' /\ LastIsSet'
  <2>1. /\ stack # <<>> /\ Step.do # "write" /\ Advance /\ UNCHANGED <<line, applied>>
    BY <1>6 DEF Wake, Return, Doing
  <2>2. Owed' /\ \A p : Pending(p) /\ ~Sets(Step, p) => Pending(p)'
    BY <1>0, <2>1, AdvanceOwed, AdvanceSets
  <2>3. \A p \in Params : Pending(p) => Pending(p)'
    BY <2>1, <2>2 DEF Sets
  <2> QED BY <1>1, <2>1, <2>2, <2>3
<1>7. ASSUME Tick PROVE Owed' /\ LastIsSet'
  <2>1. UNCHANGED <<stack, motor, applied>>
    BY <1>7 DEF Tick, gui
  <2>2. \/ out' = out
        \/ \E q \in {"speed", "angle"} : out' = Append(out, ReadCmd(q))
    <3>1. /\ out \o <<>> = out
          /\ \A c \in CmdsOf(AnyValue) : out \o <<c>> = Append(out, c)
      BY <1>0
    <3>2. ReadCmd("speed") \in CmdsOf(AnyValue) /\ ReadCmd("angle") \in CmdsOf(AnyValue)
      BY PlainCmds DEF Params
    <3>3. out' \in {out \o <<ReadCmd("speed")>>, out \o <<ReadCmd("angle")>>, out \o <<>>}
      BY <1>7 DEF Tick
    <3> QED BY <3>1, <3>2, <3>3
  <2>3. Owed' /\ \A p \in Params : Pending(p)' <=> Pending(p)
    BY <1>2, <2>1
  <2>4. ASSUME out' = out PROVE LastIsSet'
    BY <1>0, <2>1, <2>3, <2>4 DEF Latest, IsSet
  <2>5. ASSUME NEW q \in {"speed", "angle"}, out' = Append(out, ReadCmd(q)) PROVE LastIsSet'
    <3>1. ReadCmd(q) \in CmdsOf(AnyValue) /\ \A p : ~IsSet(ReadCmd(q), p)
      <4>1. q \in Params
        BY DEF Params
      <4> QED BY <4>1, PlainCmds DEF ReadCmd, IsSet
    <3>2. ASSUME NEW p \in Params, ~Pending(p)', applied'[p].from # "blank" PROVE Latest(p)'
      <4>1. Latest(p)
        BY <1>0, <2>1, <2>3, <3>2
      <4> QED BY <1>0, <2>1, <2>5, <3>1, <4>1, LatestAppended
    <3> QED BY <3>2
  <2> QED BY <2>2, <2>3, <2>4, <2>5
<1>8. ASSUME Receive PROVE Owed' /\ LastIsSet'
  <2>1. UNCHANGED <<stack, out, motor, applied>>
    BY <1>8 DEF Receive, gui
  <2>2. Owed' /\ \A p \in Params : Pending(p)' <=> Pending(p)
    BY <1>2, <2>1
  <2> QED BY <1>0, <2>1, <2>2, SMTT(30) DEF Latest, IsSet
<1>9. ASSUME Plc PROVE Owed' /\ LastIsSet'
  <2>1. UNCHANGED <<stack, applied>>
    BY <1>9 DEF Plc, gui
  <2>2. Owed' /\ \A p \in Params : Pending(p)' <=> Pending(p)
    BY <1>2, <2>1
  <2>3. ASSUME NEW p \in Params, ~Pending(p)', applied'[p].from # "blank" PROVE Latest(p)'
    <3>1. Latest(p) /\ applied[p].from # "blank"
      BY <1>0, <2>1, <2>2, <2>3
    <3> QED BY <1>0, <1>9, <2>1, <3>1, LatestTaken
  <2> QED BY <2>2, <2>3
<1>10. Owed' /\ LastIsSet'
  <2> HIDE DEF LastIsSet
  <2> QED BY <1>4, <1>5, <1>6, <1>7, <1>8, <1>9 DEF Next
<1> QED BY <1>10 DEF ApplyInv

\* When all is quiet again the motor has what the last apply said, if none was pressed
\* inside a sleep: whether the PLC is prompt or not.
THEOREM AppliedTakesEffect == Spec => []ApplyTakesEffect
<1>1. Init => ApplyInv
  <2> SUFFICES ASSUME Init PROVE ApplyInv
    OBVIOUS
  <2>1. stack = <<>> /\ out = <<>> /\ motor = applied
    BY DEF Init
  <2>2. Owed
    BY <2>1 DEF Owed
  <2>3. \A p \in Params : Latest(p)
    BY <2>1 DEF Latest
  <2> QED BY <2>2, <2>3 DEF ApplyInv
<1>2. BaseInv /\ ApplyInv /\ [Next]_vars => ApplyInv'
  <2>1. ASSUME ApplyInv, UNCHANGED vars PROVE ApplyInv'
    <3>1. /\ UNCHANGED <<stack, out, motor, applied>>
          /\ nested' = nested
      BY <2>1 DEF vars, gui, line, hist
    <3>2. CASE nested
      BY <3>1, <3>2, Zenon DEF ApplyInv
    <3>3. CASE ~nested
      <4>1. Owed' /\ \A p \in Params : Pending(p)' <=> Pending(p)
        BY <2>1, <3>1, <3>3 DEF ApplyInv, Owed, Modal, Pending, Sets
      <4>2. \A p \in Params : Latest(p)' <=> Latest(p)
        BY <3>1 DEF Latest, IsSet
      <4> QED BY <2>1, <3>1, <3>3, <4>1, <4>2 DEF ApplyInv
    <3> QED BY <3>2, <3>3
  <2>2. nested' => ApplyInv'
    BY DEF ApplyInv
  <2> QED BY <2>1, <2>2, DialogAssumption, NextApply
<1>3. ApplyInv => ApplyTakesEffect
  <2> SUFFICES ASSUME ApplyInv, ~nested, stack = <<>>, out = <<>>, NEW p \in Params, applied[p].from # "blank"
               PROVE  motor[p] = applied[p]
    BY DEF ApplyTakesEffect
  <2>1. ~Pending(p)
    BY DEF Pending
  <2>2. Latest(p)
    BY <2>1 DEF ApplyInv
  <2> QED BY <2>2 DEF Latest
<1> QED BY <1>1, <1>2, <1>3, BaseInvariant, PTL DEF Spec

=================================================================================
