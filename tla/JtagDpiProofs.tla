---------------------------- MODULE JtagDpiProofs ----------------------------
(***************************************************************************)
(* Proofs about JtagDpi: for every set of commands, any number of them and *)
(* every timing of debugger and clock, looking ahead cannot be told from   *)
(* taking the commands one after the other.                                *)
(***************************************************************************)
EXTENDS JtagDpi, SequenceTheorems, FiniteSetTheorems, TLAPS

(* How many commands have been carried out: all but those in the socket    *)
(* and the one in the lookahead buffer.                                    *)
Carried == Len(sent) - Len(inq) - (IF cmd = NoCmd THEN 0 ELSE 1)

(* What has not been carried out is the rest of what was sent, in order.   *)
Waiting ==
    /\ Carried \in Nat
    /\ \A j \in 1 .. Len(inq) : inq[j] = sent[Len(sent) - Len(inq) + j]
    /\ cmd # NoCmd => cmd = sent[Carried + 1]

(* The pins, TDO, the answers and the connection are those of a serial     *)
(* interpreter after the first n commands.                                 *)
Serial(n, p, t, a, c) ==
    /\ p = PinsBefore(n + 1)
    /\ t = FallsBefore(n + 1)
    /\ a \in Seq(Nat) /\ Len(a) = ReadsBefore(n + 1)
    /\ \A k \in 1 .. n : sent[k] = Read => a[ReadsBefore(k) + 1] = FallsBefore(k)
    /\ c = (\A k \in 1 .. n : sent[k] # Quit)

(* The reference is well defined: the last command of a kind is one.       *)
Kind == {"write", "reset"}

HistoryOK ==
    \A op \in Kind, k \in 1 .. Len(sent) + 1 :
        LastBefore(op, k) \in {0} \cup {j \in 1 .. k - 1 : sent[j].op = op}

IInv == /\ sent \in Seq(Cmds) /\ inq \in Seq(Cmds) /\ cmd \in Cmds \cup {NoCmd}
        /\ HistoryOK
        /\ Waiting
        /\ Serial(Carried, pins, tdo, answers, connected)

(* buf_out is within its bounds, and what it holds are answers.            *)
RingInv == out \in 0 .. RingMax /\ out <= Len(answers) /\ spinning \in BOOLEAN
-----------------------------------------------------------------------------
(* What a command of each kind carries.                                    *)
LEMMA CmdLemma ==
    /\ \A c \in Cmds : /\ c.op = "write" => /\ c.tck \in {0, 1} /\ c.tms \in {0, 1}
                                            /\ c.tdi \in {0, 1}
                       /\ c.op = "reset" => c.trst \in {0, 1} /\ c.srst \in {0, 1}
                       /\ c.op = "R" <=> c = Read
                       /\ c.op = "Q" <=> c = Quit
                       /\ c.op \in {"write", "reset", "R", "B", "Q"}
    /\ NoCmd \notin Cmds /\ NoCmd.op = "none"
<1>1. Read.op = "R" /\ Blink.op = "B" /\ Quit.op = "Q" /\ NoCmd.op = "none"
    BY DEF Read, Blink, Quit, NoCmd
<1>2. ASSUME NEW c \in Writes
      PROVE  c.op = "write" /\ c.tck \in {0, 1} /\ c.tms \in {0, 1} /\ c.tdi \in {0, 1}
    BY DEF Writes, Write
<1>3. ASSUME NEW c \in Resets
      PROVE  c.op = "reset" /\ c.trst \in {0, 1} /\ c.srst \in {0, 1}
    BY DEF Resets, ResetCmd
<1>4. ASSUME NEW c \in Cmds
      PROVE  /\ c.op = "write" => c.tck \in {0, 1} /\ c.tms \in {0, 1} /\ c.tdi \in {0, 1}
             /\ c.op = "reset" => c.trst \in {0, 1} /\ c.srst \in {0, 1}
             /\ c.op = "R" <=> c = Read
             /\ c.op = "Q" <=> c = Quit
             /\ c.op \in {"write", "reset", "R", "B", "Q"}
    BY <1>1, <1>2, <1>3 DEF Cmds
<1> QED
    BY <1>1, <1>4

(* The last command of a kind, one command further on.                     *)
LEMMA LastStep ==
    ASSUME NEW op, NEW k \in Nat \ {0}
    PROVE  LastBefore(op, k + 1) = IF sent[k].op = op THEN k ELSE LastBefore(op, k)
<1> DEFINE S == {0} \cup {j \in 1 .. k - 1 : sent[j].op = op}
           T == {0} \cup {j \in 1 .. k : sent[j].op = op}
<1>1. LastBefore(op, k) = Max(S) /\ LastBefore(op, k + 1) = Max(T)
    <2>1. k + 1 - 1 = k
        OBVIOUS
    <2> QED
        BY <2>1 DEF LastBefore
<1>2. CASE sent[k].op = op
    <2>1. k \in T /\ \A j \in T : j \in Int /\ k >= j
        BY <1>2
    <2> HIDE DEF T
    <2>2. Max(T) \in T /\ \A j \in T : Max(T) >= j
        BY <2>1 DEF Max
    <2>3. Max(T) = k
        <3>1. Max(T) \in Int /\ k >= Max(T) /\ Max(T) >= k
            BY <2>1, <2>2, Zenon
        <3> QED
            BY <3>1
    <2> QED
        BY <1>1, <1>2, <2>3
<1>3. CASE sent[k].op # op
    <2>1. S = T
        BY <1>3
    <2> QED
        BY <1>1, <1>3, <2>1
<1> QED
    BY <1>2, <1>3

(* The first position has no command before it.                            *)
LEMMA FirstLemma ==
    /\ \A op : LastBefore(op, 1) = 0
    /\ PinsBefore(1) = reset_jtag_signals
    /\ FallsBefore(1) = 0 /\ ReadsBefore(1) = 0
<1>1. 1 .. 1 - 1 = {}
    OBVIOUS
<1>2. Max({0}) = 0
    <2>1. 0 \in {0} /\ \A y \in {0} : 0 >= y
        OBVIOUS
    <2>2. Max({0}) \in {0}
        BY <2>1 DEF Max
    <2> QED
        BY <2>2
<1>3. ASSUME NEW op PROVE LastBefore(op, 1) = 0
    <2>1. {0} \cup {j \in 1 .. 1 - 1 : sent[j].op = op} = {0}
        BY <1>1
    <2> QED
        BY <1>2, <2>1 DEF LastBefore
<1>4. PinsBefore(1) = reset_jtag_signals
    BY <1>3 DEF PinsBefore, reset_jtag_signals
<1>5. FallsBefore(1) = 0 /\ ReadsBefore(1) = 0
    BY <1>1, FS_EmptySet DEF FallsBefore, ReadsBefore
<1> QED
    BY <1>3, <1>4, <1>5

(* The pins, one command further on.                                       *)
LEMMA PinsStep ==
    ASSUME NEW k \in Nat \ {0}
    PROVE  PinsBefore(k + 1) =
             IF sent[k].op = "write"
             THEN [PinsBefore(k) EXCEPT !.tck = sent[k].tck, !.tms = sent[k].tms,
                                        !.tdi = sent[k].tdi]
             ELSE IF sent[k].op = "reset"
             THEN [PinsBefore(k) EXCEPT !.trst_n = 1 - sent[k].trst,
                                        !.srst_n = 1 - sent[k].srst]
             ELSE PinsBefore(k)
<1>1. CASE sent[k].op = "write"
    <2>1. LastBefore("write", k + 1) = k /\ LastBefore("reset", k + 1) = LastBefore("reset", k)
        BY <1>1, LastStep
    <2> QED
        BY <1>1, <2>1 DEF PinsBefore
<1>2. CASE sent[k].op = "reset"
    <2>1. LastBefore("reset", k + 1) = k /\ LastBefore("write", k + 1) = LastBefore("write", k)
        BY <1>2, LastStep
    <2> QED
        BY <1>2, <2>1 DEF PinsBefore
<1>3. CASE sent[k].op \notin {"write", "reset"}
    <2>1. /\ LastBefore("reset", k + 1) = LastBefore("reset", k)
          /\ LastBefore("write", k + 1) = LastBefore("write", k)
        BY <1>3, LastStep
    <2> QED
        BY <1>3, <2>1 DEF PinsBefore
<1> QED
    BY <1>1, <1>2, <1>3

(* The counts are numbers, and what one command more adds to them.         *)
LEMMA CountStep ==
    ASSUME NEW k \in Nat \ {0}
    PROVE  /\ FallsBefore(k) \in Nat /\ ReadsBefore(k) \in Nat
           /\ FallsBefore(k + 1) =
                IF PinsBefore(k).tck = 1 /\ PinsBefore(k + 1).tck = 0
                THEN FallsBefore(k) + 1 ELSE FallsBefore(k)
           /\ ReadsBefore(k + 1) =
                IF sent[k] = Read THEN ReadsBefore(k) + 1 ELSE ReadsBefore(k)
<1> DEFINE fell(j) == PinsBefore(j).tck = 1 /\ PinsBefore(j + 1).tck = 0
           F == {j \in 1 .. k - 1 : fell(j)}
           R == {j \in 1 .. k - 1 : sent[j] = Read}
           F1 == {j \in 1 .. k : fell(j)}
           R1 == {j \in 1 .. k : sent[j] = Read}
<1>1. k + 1 - 1 = k /\ k \notin F /\ k \notin R
    OBVIOUS
<1>2. /\ FallsBefore(k) = Cardinality(F) /\ ReadsBefore(k) = Cardinality(R)
      /\ FallsBefore(k + 1) = Cardinality(F1) /\ ReadsBefore(k + 1) = Cardinality(R1)
    BY <1>1 DEF FallsBefore, ReadsBefore
<1>3. \A j : j \in 1 .. k <=> j \in 1 .. k - 1 \/ j = k
    OBVIOUS
<1> HIDE DEF fell
<1>4. F1 = (IF fell(k) THEN F \cup {k} ELSE F) /\ R1 = (IF sent[k] = Read THEN R \cup {k} ELSE R)
    BY <1>3
<1>5. IsFiniteSet(F) /\ IsFiniteSet(R)
    <2>1. IsFiniteSet(1 .. k - 1)
        BY FS_Interval
    <2>2. F \in SUBSET (1 .. k - 1) /\ R \in SUBSET (1 .. k - 1)
        OBVIOUS
    <2> QED
        BY <2>1, <2>2, FS_Subset
<1> HIDE DEF F, R, F1, R1
<1>6. /\ Cardinality(F) \in Nat /\ Cardinality(R) \in Nat
      /\ Cardinality(F \cup {k}) = Cardinality(F) + 1
      /\ Cardinality(R \cup {k}) = Cardinality(R) + 1
    BY <1>1, <1>5, FS_AddElement, FS_CardinalityType
<1> QED
    BY <1>2, <1>4, <1>6 DEF fell

(* No command takes an answer back.                                        *)
LEMMA ReadsGrow ==
    ASSUME NEW k \in Nat \ {0}, NEW m \in Nat \ {0}, k <= m
    PROVE  ReadsBefore(k) <= ReadsBefore(m)
<1> DEFINE R(i) == {j \in 1 .. i - 1 : sent[j] = Read}
<1>1. IsFiniteSet(R(m))
    <2>1. IsFiniteSet(1 .. m - 1) /\ R(m) \in SUBSET (1 .. m - 1)
        BY FS_Interval
    <2> QED
        BY <2>1, FS_Subset
<1>2. R(k) \in SUBSET R(m)
    OBVIOUS
<1>3. Cardinality(R(k)) <= Cardinality(R(m))
    BY <1>1, <1>2, FS_Subset
<1> QED
    BY <1>3 DEF ReadsBefore

(* A read is answered at its own place.                                    *)
LEMMA ReadsMonotone ==
    ASSUME NEW k \in Nat \ {0}, NEW m \in Nat \ {0}, k < m, sent[k] = Read
    PROVE  ReadsBefore(k) + 1 <= ReadsBefore(m)
<1>1. ReadsBefore(k + 1) = ReadsBefore(k) + 1
    BY CountStep
<1>2. ReadsBefore(k + 1) <= ReadsBefore(m)
    BY ReadsGrow
<1> QED
    BY <1>1, <1>2

(* The pins are a record.                                                  *)
LEMMA PinsShape ==
    \A k : PinsBefore(k) = [tck |-> PinsBefore(k).tck, tms |-> PinsBefore(k).tms,
                            tdi |-> PinsBefore(k).tdi, trst_n |-> PinsBefore(k).trst_n,
                            srst_n |-> PinsBefore(k).srst_n]
BY DEF PinsBefore

(* One command more, taken serially.                                       *)
LEMMA SerialStep ==
    ASSUME sent \in Seq(Cmds), NEW n \in Nat, n < Len(sent), NEW x, x = sent[n + 1],
           NEW p, NEW t, NEW a, NEW c, Serial(n, p, t, a, c)
    PROVE  /\ x.op = "write" =>
                Serial(n + 1, [p EXCEPT !.tck = x.tck, !.tms = x.tms, !.tdi = x.tdi],
                       IF p.tck = 1 /\ x.tck = 0 THEN t + 1 ELSE t, a, c)
           /\ x.op = "reset" =>
                Serial(n + 1, [p EXCEPT !.trst_n = 1 - x.trst, !.srst_n = 1 - x.srst],
                       t, a, c)
           /\ x.op = "R" => Serial(n + 1, p, t, Append(a, t), c)
           /\ x.op = "B" => Serial(n + 1, p, t, a, c)
           /\ x.op = "Q" => Serial(n + 1, p, t, a, FALSE)
<1>1. /\ p = PinsBefore(n + 1) /\ t = FallsBefore(n + 1)
      /\ a \in Seq(Nat) /\ Len(a) = ReadsBefore(n + 1)
      /\ \A k \in 1 .. n : sent[k] = Read => a[ReadsBefore(k) + 1] = FallsBefore(k)
      /\ c = (\A k \in 1 .. n : sent[k] # Quit)
    BY DEF Serial
<1>2. n + 1 \in Nat \ {0} /\ x \in Cmds /\ \A k : k \in 1 .. n + 1 <=> k \in 1 .. n \/ k = n + 1
    OBVIOUS
<1>3. /\ t \in Nat /\ ReadsBefore(n + 1) \in Nat
      /\ FallsBefore(n + 1 + 1) =
           IF p.tck = 1 /\ PinsBefore(n + 1 + 1).tck = 0 THEN t + 1 ELSE t
      /\ ReadsBefore(n + 1 + 1) =
           IF x = Read THEN ReadsBefore(n + 1) + 1 ELSE ReadsBefore(n + 1)
    BY <1>1, <1>2, CountStep
<1>4. /\ x.op = "R" <=> x = Read
      /\ x.op = "Q" <=> x = Quit
    BY <1>2, CmdLemma
<1>5. /\ x.op # "Q" => c = (\A k \in 1 .. n + 1 : sent[k] # Quit)
      /\ x.op = "Q" => FALSE = (\A k \in 1 .. n + 1 : sent[k] # Quit)
    BY <1>1, <1>2, <1>4, Zenon
<1>6. x.op # "R" =>
        \A k \in 1 .. n + 1 : sent[k] = Read => a[ReadsBefore(k) + 1] = FallsBefore(k)
    BY <1>1, <1>2, <1>4
<1>7. CASE x.op = "write"
    <2>1. PinsBefore(n + 1 + 1) =
            [p EXCEPT !.tck = x.tck, !.tms = x.tms, !.tdi = x.tdi]
        BY <1>1, <1>2, <1>7, PinsStep
    <2>2. PinsBefore(n + 1 + 1).tck = x.tck
        <3>1. p = [tck |-> p.tck, tms |-> p.tms, tdi |-> p.tdi, trst_n |-> p.trst_n,
                   srst_n |-> p.srst_n]
            BY <1>1, PinsShape
        <3> QED
            BY <2>1, <3>1
    <2> QED
        BY <1>1, <1>3, <1>4, <1>5, <1>6, <1>7, <2>1, <2>2 DEF Serial
<1>8. CASE x.op = "reset"
    <2>1. PinsBefore(n + 1 + 1) =
            [p EXCEPT !.trst_n = 1 - x.trst, !.srst_n = 1 - x.srst]
        BY <1>1, <1>2, <1>8, PinsStep
    <2>2. PinsBefore(n + 1 + 1).tck = p.tck
        <3>1. p = [tck |-> p.tck, tms |-> p.tms, tdi |-> p.tdi, trst_n |-> p.trst_n,
                   srst_n |-> p.srst_n]
            BY <1>1, PinsShape
        <3> QED
            BY <2>1, <3>1
    <2> QED
        BY <1>1, <1>3, <1>4, <1>5, <1>6, <1>8, <2>1, <2>2 DEF Serial
<1>9. CASE x.op \notin {"write", "reset"}
    <2>1. PinsBefore(n + 1 + 1) = p
        BY <1>1, <1>2, <1>9, PinsStep
    <2>2. FallsBefore(n + 1 + 1) = t
        BY <1>3, <2>1
    <2>3. CASE x.op = "R"
        <3>1. /\ Append(a, t) \in Seq(Nat) /\ Len(Append(a, t)) = Len(a) + 1
              /\ \A i \in 1 .. Len(a) : Append(a, t)[i] = a[i]
              /\ Append(a, t)[Len(a) + 1] = t
            BY <1>1, <1>3, AppendProperties
        <3>2. ASSUME NEW k \in 1 .. n + 1, sent[k] = Read
              PROVE  Append(a, t)[ReadsBefore(k) + 1] = FallsBefore(k)
            <4>1. CASE k = n + 1
                BY <1>1, <3>1, <4>1
            <4>2. CASE k \in 1 .. n
                <5>1. ReadsBefore(k) \in Nat /\ ReadsBefore(k) + 1 <= Len(a)
                    <6>1. k \in Nat \ {0} /\ k < n + 1
                        BY <4>2
                    <6>2. ReadsBefore(k) \in Nat /\ ReadsBefore(k) + 1 <= ReadsBefore(n + 1)
                        BY <1>2, <3>2, <6>1, CountStep, ReadsMonotone
                    <6> QED
                        BY <1>1, <6>2
                <5> QED
                    BY <1>1, <3>1, <3>2, <4>2, <5>1
            <4> QED
                BY <1>2, <4>1, <4>2
        <3> QED
            BY <1>1, <1>3, <1>4, <1>5, <2>1, <2>2, <2>3, <3>1, <3>2 DEF Serial
    <2>4. CASE x.op # "R"
        BY <1>1, <1>3, <1>4, <1>5, <1>6, <1>9, <2>1, <2>2, <2>4 DEF Serial
    <2> QED
        BY <2>3, <2>4
<1> QED
    BY <1>7, <1>8, <1>9
-----------------------------------------------------------------------------
(* The reference is a matter of what was sent alone.                       *)
LEMMA SameHistory ==
    ASSUME sent' = sent
    PROVE  /\ HistoryOK => HistoryOK'
           /\ \A n, p, t, a, c : Serial(n, p, t, a, c) => Serial(n, p, t, a, c)'
<1>1. \A op, k : LastBefore(op, k)' = LastBefore(op, k)
    BY DEF LastBefore
<1>2. \A k : PinsBefore(k)' = PinsBefore(k)
    BY <1>1 DEF PinsBefore, reset_jtag_signals
<1>3. \A k : ReadsBefore(k)' = ReadsBefore(k)
    BY DEF ReadsBefore
<1>4. \A k : FallsBefore(k)' = FallsBefore(k)
    BY <1>2 DEF FallsBefore
<1>5. HistoryOK => HistoryOK'
    BY <1>1 DEF HistoryOK
<1>6. \A n, p, t, a, c : Serial(n, p, t, a, c) => Serial(n, p, t, a, c)'
    BY <1>2, <1>3, <1>4 DEF Serial
<1> QED
    BY <1>5, <1>6

(* get_cmd returns the first command not carried out, and leaves the rest. *)
LEMMA GetLemma ==
    ASSUME IInv, get_cmd.cmd # NoCmd
    PROVE  LET g == get_cmd
           IN  /\ Carried \in Nat /\ Carried < Len(sent)
               /\ g.cmd = sent[Carried + 1] /\ g.cmd \in Cmds /\ g.buffered = NoCmd
               /\ g.rest \in Seq(Cmds) /\ Len(g.rest) = Len(sent) - (Carried + 1)
               /\ \A j \in 1 .. Len(g.rest) : g.rest[j] = sent[Carried + 1 + j]
<1> DEFINE g == get_cmd
<1>1. /\ sent \in Seq(Cmds) /\ inq \in Seq(Cmds) /\ Len(sent) \in Nat /\ Len(inq) \in Nat
      /\ Carried \in Nat
      /\ \A j \in 1 .. Len(inq) : inq[j] = sent[Len(sent) - Len(inq) + j]
    BY DEF IInv, Waiting
<1>2. CASE cmd # NoCmd
    <2>1. g = [cmd |-> cmd, rest |-> inq, buffered |-> NoCmd]
        BY <1>2 DEF get_cmd
    <2>2. Carried = Len(sent) - Len(inq) - 1 /\ cmd = sent[Carried + 1] /\ cmd \in Cmds
        BY <1>2 DEF Carried, IInv, Waiting
    <2>3. Carried + 1 = Len(sent) - Len(inq) /\ Len(inq) = Len(sent) - (Carried + 1)
          /\ Carried < Len(sent)
        BY <1>1, <2>2
    <2>4. g.cmd = cmd /\ g.rest = inq /\ g.buffered = NoCmd
        BY <2>1
    <2> HIDE DEF g
    <2> QED
        BY <1>1, <2>2, <2>3, <2>4 DEF g
<1>3. CASE cmd = NoCmd /\ inq # <<>>
    <2>1. g = [cmd |-> Head(inq), rest |-> Tail(inq), buffered |-> NoCmd]
        BY <1>3 DEF get_cmd
    <2>2. Carried = Len(sent) - Len(inq) /\ Len(inq) > 0
        BY <1>1, <1>3, EmptySeq DEF Carried
    <2>3. /\ Head(inq) = inq[1] /\ Head(inq) \in Cmds
          /\ Tail(inq) \in Seq(Cmds) /\ Len(Tail(inq)) = Len(inq) - 1
          /\ \A j \in 1 .. Len(inq) - 1 : Tail(inq)[j] = inq[j + 1]
        BY <1>1, <1>3, HeadTailProperties
    <2>4. Head(inq) = sent[Carried + 1]
        BY <1>1, <2>2, <2>3
    <2>5. \A j \in 1 .. Len(inq) - 1 : Tail(inq)[j] = sent[Carried + 1 + j]
        <3> TAKE j \in 1 .. Len(inq) - 1
        <3>1. Tail(inq)[j] = inq[j + 1] /\ j + 1 \in 1 .. Len(inq)
            BY <1>1, <2>3
        <3>2. Len(sent) - Len(inq) + (j + 1) = Carried + 1 + j
            BY <1>1, <2>2
        <3> QED
            BY <1>1, <3>1, <3>2
    <2>6. g.cmd = Head(inq) /\ g.rest = Tail(inq) /\ g.buffered = NoCmd
        BY <2>1
    <2>7. Carried < Len(sent) /\ Len(inq) - 1 = Len(sent) - (Carried + 1)
        BY <1>1, <2>2
    <2> HIDE DEF g
    <2> QED
        BY <1>1, <2>3, <2>4, <2>5, <2>6, <2>7 DEF g
<1>4. CASE cmd = NoCmd /\ inq = <<>>
    BY <1>4 DEF get_cmd
<1> QED
    BY <1>2, <1>3, <1>4

(* A tick that has carried out the first m commands keeps the invariant.   *)
LEMMA AfterTick ==
    ASSUME IInv, sent' = sent, NEW m \in Nat, m <= Len(sent),
           Serial(m, pins', tdo', answers', connected'),
           inq' \in Seq(Cmds), cmd' \in Cmds \cup {NoCmd},
           Len(inq') = Len(sent) - m - (IF cmd' = NoCmd THEN 0 ELSE 1),
           \A j \in 1 .. Len(inq') : inq'[j] = sent[Len(sent) - Len(inq') + j],
           cmd' # NoCmd => cmd' = sent[m + 1]
    PROVE  IInv'
<1>1. Len(sent) \in Nat /\ Len(inq') \in Nat /\ sent \in Seq(Cmds) /\ HistoryOK
    BY DEF IInv
<1>2. Carried' = m
    BY <1>1 DEF Carried
<1>3. Waiting'
    BY <1>2 DEF Waiting
<1>4. Serial(m, pins, tdo, answers, connected)'
    BY SameHistory
<1>5. Serial(Carried, pins, tdo, answers, connected)'
    BY <1>2, <1>4
<1>6. HistoryOK'
    BY <1>1, SameHistory
<1> QED
    BY <1>1, <1>3, <1>5, <1>6 DEF IInv

(* A tick that takes one command and nothing more.                         *)
LEMMA TakeOne ==
    ASSUME IInv, get_cmd.cmd # NoCmd, sent' = sent,
           inq' = get_cmd.rest, cmd' = NoCmd,
           Serial(Carried + 1, pins', tdo', answers', connected')
    PROVE  IInv'
<1> DEFINE g == get_cmd
           m == Carried + 1
<1>1. /\ Carried \in Nat /\ Carried < Len(sent)
      /\ g.rest \in Seq(Cmds) /\ Len(g.rest) = Len(sent) - (Carried + 1)
      /\ \A j \in 1 .. Len(g.rest) : g.rest[j] = sent[Carried + 1 + j]
    BY GetLemma
<1>2. Len(sent) \in Nat
    BY DEF IInv
<1> HIDE DEF g
<1>3. m \in Nat /\ m <= Len(sent) /\ inq' = g.rest
    BY <1>1, <1>2 DEF g
<1>4. Len(inq') = Len(sent) - m - 0 /\ Len(sent) - Len(inq') = m
    <2>1. Len(inq') = Len(sent) - (Carried + 1)
        BY <1>1, <1>3, Zenon
    <2>2. Carried \in Nat
        BY <1>1
    <2> QED
        BY <1>2, <2>1, <2>2
<1>5. \A j \in 1 .. Len(inq') : inq'[j] = sent[Len(sent) - Len(inq') + j]
    BY <1>1, <1>3, <1>4
<1> HIDE DEF m
<1>6. Serial(m, pins', tdo', answers', connected')
    BY DEF m
<1> QED
    BY <1>1, <1>3, <1>4, <1>5, <1>6, AfterTick

(* A command of some kind is a command.                                    *)
LEMMA IsCommand ==
    ASSUME get_cmd.cmd.op \in {"write", "reset", "R", "B", "Q"}
    PROVE  get_cmd.cmd # NoCmd
BY CmdLemma

(* The ticks with no lookahead keep the invariant.                         *)
LEMMA PlainTicks ==
    ASSUME IInv, TickReset \/ TickRead \/ TickBlink \/ TickQuit
    PROVE  IInv'
<1> DEFINE x == get_cmd.cmd
<1>1. x # NoCmd /\ sent' = sent /\ inq' = get_cmd.rest /\ cmd' = get_cmd.buffered
    BY IsCommand DEF TickReset, TickRead, TickBlink, TickQuit
<1>2. /\ sent \in Seq(Cmds) /\ Carried \in Nat /\ Carried < Len(sent)
      /\ x = sent[Carried + 1] /\ x \in Cmds /\ get_cmd.buffered = NoCmd
      /\ Serial(Carried, pins, tdo, answers, connected)
    BY <1>1, GetLemma DEF IInv
<1>3. Serial(Carried + 1, pins', tdo', answers', connected')
    <2> HIDE DEF x
    <2>1. CASE TickReset
        <3>1. /\ x.op = "reset" /\ tdo' = tdo /\ answers' = answers /\ connected' = connected
              /\ pins' = [pins EXCEPT !.srst_n = 1 - x.srst, !.trst_n = 1 - x.trst]
            BY <2>1 DEF TickReset, x
        <3>2. pins = [tck |-> pins.tck, tms |-> pins.tms, tdi |-> pins.tdi,
                      trst_n |-> pins.trst_n, srst_n |-> pins.srst_n]
            BY <1>2, PinsShape DEF Serial
        <3>3. pins' = [pins EXCEPT !.trst_n = 1 - x.trst, !.srst_n = 1 - x.srst]
            BY <3>1, <3>2
        <3>4. Serial(Carried + 1, [pins EXCEPT !.trst_n = 1 - x.trst, !.srst_n = 1 - x.srst],
                     tdo, answers, connected)
            BY <1>2, <3>1, SerialStep
        <3> QED
            BY <3>1, <3>3, <3>4
    <2>2. CASE TickRead
        <3>1. /\ x.op = "R" /\ answers' = Append(answers, tdo)
              /\ tdo' = tdo /\ pins' = pins /\ connected' = connected
            BY <2>2 DEF TickRead, Answer, x
        <3>2. Serial(Carried + 1, pins, tdo, Append(answers, tdo), connected)
            BY <1>2, <3>1, SerialStep
        <3> QED
            BY <3>1, <3>2
    <2>3. CASE TickBlink
        <3>1. /\ x.op = "B" /\ answers' = answers
              /\ tdo' = tdo /\ pins' = pins /\ connected' = connected
            BY <2>3 DEF TickBlink, x
        <3>2. Serial(Carried + 1, pins, tdo, answers, connected)
            BY <1>2, <3>1, SerialStep
        <3> QED
            BY <3>1, <3>2
    <2>4. CASE TickQuit
        <3>1. /\ x.op = "Q" /\ answers' = answers
              /\ tdo' = tdo /\ pins' = pins /\ connected' = FALSE
            BY <2>4 DEF TickQuit, x
        <3>2. Serial(Carried + 1, pins, tdo, answers, FALSE)
            BY <1>2, <3>1, SerialStep
        <3> QED
            BY <3>1, <3>2
    <2> QED
        BY <2>1, <2>2, <2>3, <2>4
<1> QED
    BY <1>1, <1>2, <1>3, TakeOne

(* A write, with what it looks ahead at: one command carried out, or two   *)
(* when the second is a read at a rising edge.                             *)
LEMMA WriteTick ==
    ASSUME IInv, TickWrite
    PROVE  IInv'
<1> DEFINE g == get_cmd
           x == g.cmd
           rest == g.rest
           n == Carried
           P == [pins EXCEPT !.tck = x.tck, !.tms = x.tms, !.tdi = x.tdi]
           L == IF Rises(x) THEN lookahead(rest)
                ELSE [read |-> FALSE, rest |-> rest, buffered |-> NoCmd]
<1>1. x # NoCmd /\ x.op = "write"
    BY IsCommand DEF TickWrite
<1>2. /\ sent \in Seq(Cmds) /\ Len(sent) \in Nat /\ n \in Nat /\ n < Len(sent)
      /\ x = sent[n + 1] /\ x \in Cmds /\ g.buffered = NoCmd
      /\ rest \in Seq(Cmds) /\ Len(rest) = Len(sent) - (n + 1)
      /\ \A j \in 1 .. Len(rest) : rest[j] = sent[n + 1 + j]
      /\ Serial(n, pins, tdo, answers, connected)
    BY <1>1, GetLemma DEF IInv
<1>3. /\ pins' = P /\ inq' = L.rest /\ cmd' = L.buffered
      /\ answers' = IF L.read THEN Append(answers, tdo) ELSE answers
      /\ tdo' = IF Falls(x) THEN tdo + 1 ELSE tdo
      /\ sent' = sent /\ connected' = connected
    BY <1>2 DEF TickWrite, Answer
<1> HIDE DEF g, x, n, P, L
<1>4. /\ tdo' = IF pins.tck = 1 /\ x.tck = 0 THEN tdo + 1 ELSE tdo
      /\ Serial(n + 1, P, tdo', answers, connected)
    <2>1. Serial(n + 1, [pins EXCEPT !.tck = x.tck, !.tms = x.tms, !.tdi = x.tdi],
                 IF pins.tck = 1 /\ x.tck = 0 THEN tdo + 1 ELSE tdo, answers, connected)
        BY <1>1, <1>2, SerialStep
    <2> QED
        BY <1>3, <2>1 DEF P, Falls
<1>5. CASE L.read = FALSE /\ L.rest = rest /\ L.buffered = NoCmd
    <2>1. Serial(Carried + 1, pins', tdo', answers', connected')
        BY <1>3, <1>4, <1>5 DEF n
    <2> QED
        BY <1>1, <1>3, <1>5, <2>1, TakeOne DEF g, x
<1>6. CASE Rises(x) /\ rest # <<>>
    <2> DEFINE y == Head(rest)
    <2>1. /\ Len(rest) > 0 /\ y = rest[1] /\ y \in Cmds
          /\ Tail(rest) \in Seq(Cmds) /\ Len(Tail(rest)) = Len(rest) - 1
          /\ \A j \in 1 .. Len(rest) - 1 : Tail(rest)[j] = rest[j + 1]
        BY <1>2, <1>6, HeadTailProperties, EmptySeq
    <2>2. n + 1 \in Nat /\ n + 1 < Len(sent) /\ y = sent[(n + 1) + 1]
        <3>1. n + 1 \in Nat /\ n + 1 < Len(sent) /\ 1 \in 1 .. Len(rest)
            BY <1>2, <2>1
        <3> QED
            BY <1>2, <2>1, <3>1
    <2> HIDE DEF rest
    <2>3. L = IF y = Read THEN [read |-> TRUE, rest |-> Tail(rest), buffered |-> NoCmd]
              ELSE [read |-> FALSE, rest |-> Tail(rest), buffered |-> y]
        BY <1>6 DEF L, lookahead
    <2>4. tdo' = tdo
        BY <1>3, <1>6 DEF Rises, Falls
    <2> HIDE DEF y
    <2>5. L.rest = Tail(rest) /\ inq' = Tail(rest)
        BY <1>3, <2>3
    <2>6. /\ inq' \in Seq(Cmds) /\ Len(inq') = Len(sent) - (n + 2)
          /\ Len(sent) - Len(inq') = n + 2
        <3>1. inq' \in Seq(Cmds) /\ Len(inq') = Len(rest) - 1
            BY <2>1, <2>5, Zenon
        <3>2. Len(rest) = Len(sent) - (n + 1) /\ n \in Nat /\ Len(sent) \in Nat
            BY <1>2
        <3> QED
            BY <3>1, <3>2
    <2>7. \A j \in 1 .. Len(inq') : inq'[j] = sent[Len(sent) - Len(inq') + j]
        <3> TAKE j \in 1 .. Len(inq')
        <3>1. inq'[j] = rest[j + 1] /\ j + 1 \in 1 .. Len(rest)
            BY <1>2, <2>1, <2>5
        <3>2. n + 1 + (j + 1) = Len(sent) - Len(inq') + j
            BY <1>2, <2>6
        <3> QED
            BY <1>2, <3>1, <3>2
    <2>8. CASE y = Read
        <3>1. L.read = TRUE /\ cmd' = NoCmd
            BY <1>3, <2>3, <2>8
        <3>2. answers' = Append(answers, tdo)
            BY <1>3, <3>1
        <3>3. y.op = "R"
            BY <2>8 DEF Read
        <3>4. Serial((n + 1) + 1, P, tdo, Append(answers, tdo), connected)
            BY <1>2, <1>4, <2>2, <2>4, <3>3, SerialStep
        <3>5. Serial(n + 2, pins', tdo', answers', connected')
            <4>1. (n + 1) + 1 = n + 2
                BY <1>2
            <4> QED
                BY <1>3, <2>4, <3>2, <3>4, <4>1
        <3>6. n + 2 \in Nat /\ n + 2 <= Len(sent) /\ Len(inq') = Len(sent) - (n + 2) - 0
            BY <1>2, <2>2, <2>6
        <3> QED
            BY <1>3, <2>6, <2>7, <3>1, <3>5, <3>6, AfterTick
    <2>9. CASE y # Read
        <3>1. L.read = FALSE /\ cmd' = y
            BY <1>3, <2>3, <2>9
        <3>2. y # NoCmd
            BY <2>1, CmdLemma
        <3>3. Serial(n + 1, pins', tdo', answers', connected')
            BY <1>3, <1>4, <3>1
        <3>4. n + 1 \in Nat /\ n + 1 <= Len(sent) /\ Len(inq') = Len(sent) - (n + 1) - 1
            BY <1>2, <2>2, <2>6
        <3>5. cmd' \in Cmds \cup {NoCmd} /\ cmd' # NoCmd /\ cmd' = sent[(n + 1) + 1]
            BY <2>1, <2>2, <3>1, <3>2
        <3> QED
            BY <1>3, <2>6, <2>7, <3>3, <3>4, <3>5, AfterTick
    <2> QED
        BY <2>8, <2>9
<1>7. (~Rises(x) \/ rest = <<>>) => L.read = FALSE /\ L.rest = rest /\ L.buffered = NoCmd
    BY DEF L, lookahead
<1> QED
    BY <1>5, <1>6, <1>7

(* LastStep, of the next state's history.                                  *)
LEMMA LastStepNext ==
    (\A op : \A k \in Nat \ {0} :
        LastBefore(op, k + 1) = IF sent[k].op = op THEN k ELSE LastBefore(op, k))'
<1>1. \A op : \A k \in Nat \ {0} :
        LastBefore(op, k + 1) = IF sent[k].op = op THEN k ELSE LastBefore(op, k)
    BY LastStep
<1> QED
    BY <1>1, PTL

(* What is sent later does not change what was sent before.                *)
LEMMA LongerHistory ==
    ASSUME IInv, NEW s \in Cmds, sent' = Append(sent, s)
    PROVE  /\ sent' \in Seq(Cmds) /\ Len(sent') = Len(sent) + 1
           /\ \A j \in 1 .. Len(sent) : sent'[j] = sent[j]
           /\ sent'[Len(sent) + 1] = s
           /\ \A op, k : k \in 1 .. Len(sent) + 1 => LastBefore(op, k)' = LastBefore(op, k)
           /\ \A k \in 1 .. Len(sent) + 1 : /\ PinsBefore(k)' = PinsBefore(k)
                                            /\ FallsBefore(k)' = FallsBefore(k)
                                            /\ ReadsBefore(k)' = ReadsBefore(k)
           /\ HistoryOK'
<1>1. /\ sent \in Seq(Cmds) /\ Len(sent) \in Nat
      /\ sent' \in Seq(Cmds) /\ Len(sent') = Len(sent) + 1
      /\ \A j \in 1 .. Len(sent) : sent'[j] = sent[j]
      /\ sent'[Len(sent) + 1] = s
    BY AppendProperties DEF IInv
<1>2. ASSUME NEW op, NEW k \in 1 .. Len(sent) + 1
      PROVE  LastBefore(op, k)' = LastBefore(op, k)
    <2>1. {j \in 1 .. k - 1 : sent'[j].op = op} = {j \in 1 .. k - 1 : sent[j].op = op}
        BY <1>1
    <2> QED
        BY <2>1 DEF LastBefore
<1>3. ASSUME NEW k \in 1 .. Len(sent) + 1
      PROVE  PinsBefore(k)' = PinsBefore(k)
    <2>1. /\ LastBefore("write", k) = 0 \/ LastBefore("write", k) \in 1 .. Len(sent)
          /\ LastBefore("reset", k) = 0 \/ LastBefore("reset", k) \in 1 .. Len(sent)
        <3>1. k \in Nat /\ k <= Len(sent) + 1
            BY <1>1
        <3>2. /\ LastBefore("write", k) \in {0} \cup (1 .. k - 1)
              /\ LastBefore("reset", k) \in {0} \cup (1 .. k - 1)
            BY DEF IInv, HistoryOK, Kind
        <3> QED
            BY <1>1, <3>1, <3>2
    <2>2. /\ LastBefore("write", k)' = LastBefore("write", k)
          /\ LastBefore("reset", k)' = LastBefore("reset", k)
        BY <1>2
    <2> DEFINE w == LastBefore("write", k)
               r == LastBefore("reset", k)
    <2>3. /\ w # 0 => sent'[w] = sent[w]
          /\ r # 0 => sent'[r] = sent[r]
        BY <1>1, <2>1
    <2>4. PinsBefore(k)' =
            [tck |-> IF w = 0 THEN reset_jtag_signals.tck ELSE sent'[w].tck,
             tms |-> IF w = 0 THEN reset_jtag_signals.tms ELSE sent'[w].tms,
             tdi |-> IF w = 0 THEN reset_jtag_signals.tdi ELSE sent'[w].tdi,
             trst_n |-> IF r = 0 THEN reset_jtag_signals.trst_n ELSE 1 - sent'[r].trst,
             srst_n |-> IF r = 0 THEN reset_jtag_signals.srst_n ELSE 1 - sent'[r].srst]
        BY <2>2, Zenon DEF PinsBefore, reset_jtag_signals
    <2>5. PinsBefore(k) =
            [tck |-> IF w = 0 THEN reset_jtag_signals.tck ELSE sent[w].tck,
             tms |-> IF w = 0 THEN reset_jtag_signals.tms ELSE sent[w].tms,
             tdi |-> IF w = 0 THEN reset_jtag_signals.tdi ELSE sent[w].tdi,
             trst_n |-> IF r = 0 THEN reset_jtag_signals.trst_n ELSE 1 - sent[r].trst,
             srst_n |-> IF r = 0 THEN reset_jtag_signals.srst_n ELSE 1 - sent[r].srst]
        BY DEF PinsBefore
    <2> HIDE DEF w, r
    <2>6. CASE w = 0 /\ r = 0
        BY <2>4, <2>5, <2>6
    <2>7. CASE w # 0 /\ r = 0
        BY <2>3, <2>4, <2>5, <2>7
    <2>8. CASE w = 0 /\ r # 0
        BY <2>3, <2>4, <2>5, <2>8
    <2>9. CASE w # 0 /\ r # 0
        BY <2>3, <2>4, <2>5, <2>9
    <2> QED
        BY <2>6, <2>7, <2>8, <2>9
<1>4. ASSUME NEW k \in 1 .. Len(sent) + 1
      PROVE  FallsBefore(k)' = FallsBefore(k) /\ ReadsBefore(k)' = ReadsBefore(k)
    <2>1. \A j \in 1 .. k - 1 : j \in 1 .. Len(sent) /\ j + 1 \in 1 .. Len(sent) + 1
        BY <1>1
    <2>2. \A j \in 1 .. k - 1 : /\ PinsBefore(j)' = PinsBefore(j)
                                /\ PinsBefore(j + 1)' = PinsBefore(j + 1)
                                /\ sent'[j] = sent[j]
        BY <1>1, <1>3, <2>1
    <2>3. {j \in 1 .. k - 1 : PinsBefore(j)'.tck = 1 /\ PinsBefore(j + 1)'.tck = 0}
            = {j \in 1 .. k - 1 : PinsBefore(j).tck = 1 /\ PinsBefore(j + 1).tck = 0}
        BY <2>2
    <2>4. {j \in 1 .. k - 1 : sent'[j] = Read} = {j \in 1 .. k - 1 : sent[j] = Read}
        BY <2>2
    <2> QED
        BY <2>3, <2>4 DEF FallsBefore, ReadsBefore, Read
<1>5. HistoryOK'
    <2> SUFFICES ASSUME NEW op \in Kind, NEW k \in 1 .. Len(sent) + 2
                 PROVE  LastBefore(op, k)'
                          \in {0} \cup {j \in 1 .. k - 1 : sent'[j].op = op}
        BY <1>1 DEF HistoryOK
    <2>1. \A i \in 1 .. Len(sent) + 1 :
            LastBefore(op, i)' \in {0} \cup {j \in 1 .. i - 1 : sent'[j].op = op}
        <3> TAKE i \in 1 .. Len(sent) + 1
        <3>1. LastBefore(op, i) \in {0} \cup {j \in 1 .. i - 1 : sent[j].op = op}
            BY DEF IInv, HistoryOK
        <3>2. \A j \in 1 .. i - 1 : sent'[j] = sent[j]
            BY <1>1
        <3> QED
            BY <1>2, <3>1, <3>2
    <2>2. CASE k = Len(sent) + 2
        <3>1. PICK m \in Nat \ {0} : m = Len(sent) + 1
            BY <1>1
        <3>2. LastBefore(op, m + 1)' = IF sent'[m].op = op THEN m ELSE LastBefore(op, m)'
            BY LastStepNext
        <3>3. m + 1 = k /\ m \in 1 .. Len(sent) + 1 /\ m \in 1 .. k - 1
            BY <1>1, <2>2, <3>1
        <3>4. LastBefore(op, k)' = IF sent'[m].op = op THEN m ELSE LastBefore(op, m)'
            BY <3>2, <3>3
        <3>5. LastBefore(op, m)' \in {0} \cup {j \in 1 .. m - 1 : sent'[j].op = op}
            BY <2>1, <3>3
        <3> QED
            BY <3>3, <3>4, <3>5
    <2> QED
        BY <1>1, <2>1, <2>2
<1> QED
    BY <1>1, <1>2, <1>3, <1>4, <1>5

(* The debugger may send at any time.                                      *)
LEMMA SendStep ==
    ASSUME IInv, NEW s \in Cmds, Send(s)
    PROVE  IInv'
<1>1. /\ sent' = Append(sent, s) /\ inq' = Append(inq, s)
      /\ answers' = answers /\ connected' = connected /\ pins' = pins
      /\ cmd' = cmd /\ tdo' = tdo
    BY DEF Send
<1>2. /\ sent' \in Seq(Cmds) /\ Len(sent') = Len(sent) + 1
      /\ \A j \in 1 .. Len(sent) : sent'[j] = sent[j]
      /\ sent'[Len(sent) + 1] = s
      /\ \A k \in 1 .. Len(sent) + 1 : /\ PinsBefore(k)' = PinsBefore(k)
                                       /\ FallsBefore(k)' = FallsBefore(k)
                                       /\ ReadsBefore(k)' = ReadsBefore(k)
      /\ HistoryOK'
    BY <1>1, LongerHistory
<1>3. /\ inq \in Seq(Cmds) /\ inq' \in Seq(Cmds) /\ Len(inq') = Len(inq) + 1
      /\ \A j \in 1 .. Len(inq) : inq'[j] = inq[j]
      /\ inq'[Len(inq) + 1] = s
    BY <1>1, AppendProperties DEF IInv
<1>4. /\ Len(sent) \in Nat /\ Len(inq) \in Nat /\ cmd \in Cmds \cup {NoCmd}
      /\ Carried \in Nat
      /\ \A j \in 1 .. Len(inq) : inq[j] = sent[Len(sent) - Len(inq) + j]
      /\ cmd # NoCmd => cmd = sent[Carried + 1]
      /\ Serial(Carried, pins, tdo, answers, connected)
    BY DEF IInv, Waiting
<1>5. PICK n \in Nat : n = Carried
    BY <1>4
<1>6. /\ Carried' = n /\ n <= Len(sent)
      /\ cmd # NoCmd => n + 1 <= Len(sent)
      /\ Len(sent) - Len(inq) \in Nat
      /\ Len(sent') - Len(inq') = Len(sent) - Len(inq)
    <2>1. CASE cmd = NoCmd
        BY <1>1, <1>2, <1>3, <1>4, <1>5, <2>1 DEF Carried
    <2>2. CASE cmd # NoCmd
        BY <1>1, <1>2, <1>3, <1>4, <1>5, <2>2 DEF Carried
    <2> QED
        BY <2>1, <2>2
<1>7. Waiting'
    <2>1. ASSUME NEW j \in 1 .. Len(inq')
          PROVE  inq'[j] = sent'[Len(sent') - Len(inq') + j]
        <3>1. CASE j = Len(inq) + 1
            <4>1. Len(sent) - Len(inq) + j = Len(sent) + 1
                BY <1>4, <3>1
            <4> QED
                BY <1>2, <1>3, <1>6, <3>1, <4>1
        <3>2. CASE j \in 1 .. Len(inq)
            <4>1. Len(sent) - Len(inq) + j \in 1 .. Len(sent)
                BY <1>4, <1>6, <3>2
            <4> QED
                BY <1>2, <1>3, <1>4, <1>6, <3>2, <4>1
        <3> QED
            BY <1>3, <1>4, <3>1, <3>2
    <2>2. cmd' # NoCmd => cmd' = sent'[n + 1]
        BY <1>1, <1>2, <1>4, <1>5, <1>6
    <2> QED
        BY <1>6, <2>1, <2>2 DEF Waiting, NoCmd
<1>8. Serial(n, pins, tdo, answers, connected)'
    <2>1. /\ n + 1 \in 1 .. Len(sent) + 1
          /\ \A k \in 1 .. n : k \in 1 .. Len(sent) /\ k \in 1 .. Len(sent) + 1
        BY <1>4, <1>6
    <2>2. /\ PinsBefore(n + 1)' = PinsBefore(n + 1) /\ FallsBefore(n + 1)' = FallsBefore(n + 1)
          /\ ReadsBefore(n + 1)' = ReadsBefore(n + 1)
          /\ \A k \in 1 .. n : /\ sent'[k] = sent[k] /\ FallsBefore(k)' = FallsBefore(k)
                               /\ ReadsBefore(k)' = ReadsBefore(k)
        BY <1>2, <2>1
    <2>3. Serial(n, pins, tdo, answers, connected)
        BY <1>4, <1>5
    <2> QED
        BY <1>1, <2>2, <2>3 DEF Serial, Read, Quit
<1>9. Serial(Carried, pins, tdo, answers, connected)'
    BY <1>6, <1>8
<1> QED
    BY <1>1, <1>2, <1>3, <1>4, <1>7, <1>9 DEF IInv, NoCmd

(* The first state: nothing sent, nothing carried out.                     *)
LEMMA InitLemma == Init => IInv
<1> SUFFICES ASSUME Init PROVE IInv
    OBVIOUS
<1>1. /\ sent = <<>> /\ inq = <<>> /\ answers = <<>> /\ connected = TRUE
      /\ pins = reset_jtag_signals /\ cmd = NoCmd /\ tdo = 0
    BY DEF Init
<1>2. /\ sent \in Seq(Cmds) /\ inq \in Seq(Cmds) /\ answers \in Seq(Nat)
      /\ Len(sent) = 0 /\ Len(inq) = 0 /\ Len(answers) = 0
    BY <1>1, EmptySeq
<1>3. Carried = 0
    BY <1>1, <1>2 DEF Carried
<1>4. Waiting
    BY <1>1, <1>2, <1>3 DEF Waiting
<1>5. HistoryOK
    <2>1. \A k \in 1 .. Len(sent) + 1 : k = 1
        BY <1>2
    <2> QED
        BY <2>1, FirstLemma DEF HistoryOK
<1>6. Serial(0, pins, tdo, answers, connected)
    <2>1. 1 .. 0 = {} /\ 0 + 1 = 1
        OBVIOUS
    <2> QED
        BY <1>1, <1>2, <2>1, FirstLemma DEF Serial
<1> QED
    BY <1>1, <1>2, <1>3, <1>4, <1>5, <1>6 DEF IInv

(* The invariant holds of every behaviour.                                 *)
THEOREM InductiveInvariant == Spec => []IInv
<1>1. Init => IInv
    BY InitLemma
<1>2. IInv /\ [Next]_vars => IInv'
    <2> SUFFICES ASSUME IInv, [Next]_vars PROVE IInv'
        OBVIOUS
    <2>1. CASE TickWrite
        BY <2>1, WriteTick
    <2>2. CASE TickReset \/ TickRead \/ TickBlink \/ TickQuit
        BY <2>2, PlainTicks
    <2>3. ASSUME NEW s \in Sends, Send(s) PROVE IInv'
        BY <2>3, SendStep, JtagAssumption
    <2>4. CASE TickSpins \/ SocketSends \/ UNCHANGED vars
        <3>1. /\ sent' = sent /\ inq' = inq /\ answers' = answers /\ pins' = pins
              /\ connected' = connected /\ cmd' = cmd /\ tdo' = tdo
            BY <2>4 DEF TickSpins, SocketSends, vars
        <3>2. PICK n : n = Carried
            OBVIOUS
        <3>3. Carried' = n
            BY <3>1, <3>2 DEF Carried, NoCmd
        <3>4. Waiting'
            BY <3>1, <3>2, <3>3 DEF IInv, Waiting, NoCmd
        <3>5. Serial(n, pins', tdo', answers', connected')
            BY <3>1, <3>2 DEF IInv
        <3>6. Serial(n, pins, tdo, answers, connected)' /\ HistoryOK'
            BY <3>1, <3>5, SameHistory DEF IInv
        <3>7. Serial(Carried, pins, tdo, answers, connected)'
            BY <3>3, <3>6
        <3> QED
            BY <3>1, <3>4, <3>6, <3>7 DEF IInv, NoCmd
    <2> QED
        BY <2>1, <2>2, <2>3, <2>4 DEF Next, Tick
<1> QED
    BY <1>1, <1>2, PTL DEF Spec

(* Room is made before an answer is put in.                                *)
THEOREM RingInvariant == Spec => []RingInv
<1>1. Init => RingInv
    <2> SUFFICES ASSUME Init PROVE RingInv
        OBVIOUS
    <2>1. out = 0 /\ answers = <<>> /\ spinning = FALSE
        BY DEF Init
    <2>2. Len(answers) = 0 /\ RingMax \in Nat
        BY <2>1, EmptySeq, JtagAssumption
    <2>3. out \in 0 .. RingMax /\ out <= Len(answers)
        BY <2>1, <2>2
    <2>4. spinning \in BOOLEAN
        BY <2>1, Zenon
    <2> QED
        BY <2>3, <2>4, Zenon DEF RingInv
<1>2. IInv /\ RingInv /\ [Next]_vars => RingInv'
    <2> SUFFICES ASSUME IInv, RingInv, [Next]_vars PROVE RingInv'
        OBVIOUS
    <2>1. /\ answers \in Seq(Nat) /\ Len(answers) \in Nat /\ tdo \in Nat
          /\ Carried + 1 \in Nat \ {0}
        <3>1. Carried + 1 \in Nat \ {0} /\ Serial(Carried, pins, tdo, answers, connected)
            BY DEF IInv, Waiting
        <3> QED
            BY <3>1, CountStep DEF Serial
    <2>2. RingMax \in Nat \ {0} /\ out \in Nat /\ out <= RingMax /\ out <= Len(answers)
        BY JtagAssumption DEF RingInv
    <2>3. CASE Answer /\ spinning' = spinning
        <3>1. Len(answers') = Len(answers) + 1
            BY <2>1, <2>3, AppendProperties DEF Answer
        <3> QED
            BY <2>2, <2>3, <2>1, <3>1 DEF Answer, RingInv
    <2>4. CASE answers' = answers /\ out' = out /\ spinning' = spinning
        BY <2>4 DEF RingInv
    <2>5. CASE TickSpins
        BY <2>5 DEF TickSpins, RingInv
    <2>6. CASE SocketSends
        BY <2>1, <2>2, <2>6 DEF SocketSends, RingInv
    <2>7. CASE TickWrite /\ spinning' = spinning
        BY <2>3, <2>4, <2>7 DEF TickWrite
    <2>8. CASE (TickReset \/ TickRead \/ TickBlink \/ TickQuit) /\ spinning' = spinning
        BY <2>3, <2>4, <2>8 DEF TickReset, TickRead, TickBlink, TickQuit
    <2>9. ASSUME NEW s \in Sends, Send(s) PROVE RingInv'
        BY <2>4, <2>9 DEF Send
    <2>10. CASE UNCHANGED vars
        BY <2>4, <2>10 DEF vars
    <2> QED
        BY <2>5, <2>6, <2>7, <2>8, <2>9, <2>10 DEF Next, Tick
<1> QED
    BY <1>1, <1>2, InductiveInvariant, PTL DEF Spec
-----------------------------------------------------------------------------
(* Every pin is 0 or 1 at all times.                                       *)
LEMMA PinsType ==
    ASSUME IInv, NEW k \in 1 .. Len(sent) + 1
    PROVE  PinsBefore(k) \in [tck : {0, 1}, tms : {0, 1}, tdi : {0, 1},
                              trst_n : {0, 1}, srst_n : {0, 1}]
<1> DEFINE w == LastBefore("write", k)
           r == LastBefore("reset", k)
<1>1. sent \in Seq(Cmds) /\ Len(sent) \in Nat /\ k \in Nat /\ k - 1 <= Len(sent)
    BY DEF IInv
<1>2. /\ w \in {0} \cup {j \in 1 .. k - 1 : sent[j].op = "write"}
      /\ r \in {0} \cup {j \in 1 .. k - 1 : sent[j].op = "reset"}
    BY DEF IInv, HistoryOK, Kind
<1> HIDE DEF w, r
<1>3. /\ w # 0 => sent[w] \in Cmds /\ sent[w].op = "write"
      /\ r # 0 => sent[r] \in Cmds /\ sent[r].op = "reset"
    BY <1>1, <1>2
<1>4. /\ w # 0 => sent[w].tck \in {0, 1} /\ sent[w].tms \in {0, 1} /\ sent[w].tdi \in {0, 1}
      /\ r # 0 => sent[r].trst \in {0, 1} /\ sent[r].srst \in {0, 1}
    BY <1>3, CmdLemma
<1>5. \A i : i \in {0, 1} => 1 - i \in {0, 1}
    OBVIOUS
<1>6. /\ reset_jtag_signals.tck = 0 /\ reset_jtag_signals.tms = 0
      /\ reset_jtag_signals.tdi = 0 /\ reset_jtag_signals.trst_n = 0
      /\ reset_jtag_signals.srst_n \in {0, 1}
    BY DEF reset_jtag_signals
<1> QED
    BY <1>4, <1>5, <1>6 DEF PinsBefore, w, r

(* TypeOK: the pins never leave {0, 1} (a ~ for a ! in the reset command   *)
(* would take them there), TDO and the answers are counts of edges.        *)
THEOREM TypeCorrect == Spec => []TypeOK
<1>1. IInv /\ RingInv => TypeOK
    <2> SUFFICES ASSUME IInv, RingInv PROVE TypeOK
        OBVIOUS
    <2>1. /\ sent \in Seq(Cmds) /\ inq \in Seq(Cmds) /\ cmd \in Cmds \cup {NoCmd}
          /\ Len(sent) \in Nat /\ Len(inq) \in Nat /\ Carried \in Nat
          /\ Serial(Carried, pins, tdo, answers, connected)
        BY DEF IInv, Waiting
    <2>2. Carried + 1 \in 1 .. Len(sent) + 1 /\ Carried + 1 \in Nat \ {0}
        BY <2>1 DEF Carried
    <2>3. /\ pins = PinsBefore(Carried + 1) /\ tdo = FallsBefore(Carried + 1)
          /\ answers \in Seq(Nat)
        BY <2>1 DEF Serial
    <2>4. connected = (\A k \in 1 .. Carried : sent[k] # Quit)
        BY <2>1 DEF Serial
    <2>5. connected \in BOOLEAN
        BY <2>4, Zenon
    <2>6. tdo \in Nat
        BY <2>2, <2>3, CountStep
    <2> QED
        BY <2>1, <2>2, <2>3, <2>5, <2>6, PinsType DEF TypeOK, RingInv
<1> QED
    BY <1>1, InductiveInvariant, RingInvariant, PTL

(* AnswersInOrder: an 'R' answered while its write is still being carried  *)
(* out gets the bit that it would have got a tick later, for every mix of  *)
(* commands and every arrival of theirs.                                   *)
THEOREM AnswersAreSerial == Spec => []AnswersInOrder
<1>1. IInv => AnswersInOrder
    <2> SUFFICES ASSUME IInv PROVE AnswersInOrder
        OBVIOUS
    <2>1. /\ Len(sent) \in Nat /\ Len(inq) \in Nat /\ Carried \in Nat
          /\ Serial(Carried, pins, tdo, answers, connected)
        BY DEF IInv, Waiting
    <2>2. PICK n \in Nat : n = Carried /\ n <= Len(sent)
        BY <2>1 DEF Carried
    <2>3. /\ Len(answers) = ReadsBefore(n + 1)
          /\ \A k \in 1 .. n : sent[k] = Read => answers[ReadsBefore(k) + 1] = FallsBefore(k)
        BY <2>1, <2>2 DEF Serial
    <2>4. \A k \in Nat \ {0}, m \in Nat \ {0} : k <= m => ReadsBefore(k) <= ReadsBefore(m)
        BY ReadsGrow
    <2>5. ReadsBefore(n + 1) <= ReadsBefore(Len(sent) + 1)
        BY <2>1, <2>2, <2>4
    <2>6. ASSUME NEW k \in 1 .. Len(sent), sent[k] = Read, ReadsBefore(k) < Len(answers)
          PROVE  answers[ReadsBefore(k) + 1] = FallsBefore(k)
        <3>0. k \in Nat \ {0} /\ n + 1 \in Nat \ {0}
            BY <2>1
        <3>1. k \in Nat \ {0} /\ ReadsBefore(k) \in Nat /\ ReadsBefore(n + 1) \in Nat
            BY <3>0, CountStep
        <3>2. n + 1 <= k => ReadsBefore(n + 1) <= ReadsBefore(k)
            BY <2>4, <3>1
        <3>3. k <= n
            BY <2>3, <2>6, <3>1, <3>2
        <3> QED
            BY <2>3, <2>6, <3>1, <3>3
    <2> QED
        BY <2>3, <2>5, <2>6 DEF AnswersInOrder
<1> QED
    BY <1>1, InductiveInvariant, PTL

(* AllDone: whenever nothing waits, every command sent has been carried    *)
(* out, the one that was looked ahead at included.                         *)
THEOREM AllCarriedOut == Spec => []AllDone
<1>1. IInv => AllDone
    <2> SUFFICES ASSUME IInv, Idle
                 PROVE  /\ Len(answers) = ReadsBefore(Len(sent) + 1)
                        /\ pins = PinsBefore(Len(sent) + 1)
                        /\ tdo = FallsBefore(Len(sent) + 1)
                        /\ connected = (\A k \in 1 .. Len(sent) : sent[k] # Quit)
        BY DEF AllDone
    <2>1. Len(sent) \in Nat /\ Len(inq) = 0 /\ cmd = NoCmd
        BY EmptySeq DEF IInv, Idle
    <2>2. Carried = Len(sent)
        BY <2>1 DEF Carried
    <2>3. Serial(Len(sent), pins, tdo, answers, connected)
        BY <2>2 DEF IInv
    <2> QED
        BY <2>3 DEF Serial
<1> QED
    BY <1>1, InductiveInvariant, PTL

(* OnlyOverrunSpins: the simulation is caught by a full buf_out only when  *)
(* the debugger has asked for more answers than the ring holds beyond      *)
(* those sent to it; one that waits for its answers never stops it.        *)
THEOREM SpinsOnlyOverrun == Spec => OnlyOverrunSpins
<1>1. IInv /\ RingInv /\ [Next]_vars => [~spinning /\ spinning' => Overrun]_vars
    <2> SUFFICES ASSUME IInv, RingInv, TickSpins PROVE Overrun
        BY DEF Next, Tick, SocketSends, Send, vars
    <2>1. /\ answers \in Seq(Nat) /\ Len(answers) \in Nat /\ sent \in Seq(Cmds)
          /\ Len(sent) \in Nat /\ Carried \in Nat /\ Len(answers) = ReadsBefore(Carried + 1)
        BY DEF IInv, Waiting, Serial
    <2>2. out = RingMax /\ AnswerDue /\ RingMax \in Nat
        BY JtagAssumption DEF TickSpins
    <2>3. \E k \in Carried + 1 .. Len(sent) : sent[k] = Read
        <3> DEFINE g == get_cmd
        <3>1. g.cmd # NoCmd
            BY <2>2, IsCommand DEF AnswerDue
        <3>2. /\ Carried < Len(sent)
              /\ g.cmd = sent[Carried + 1] /\ g.cmd \in Cmds
              /\ g.rest \in Seq(Cmds) /\ Len(g.rest) = Len(sent) - (Carried + 1)
              /\ \A j \in 1 .. Len(g.rest) : g.rest[j] = sent[Carried + 1 + j]
            BY <3>1, GetLemma
        <3>3. g.cmd.op = "R" \/ lookahead(g.rest).read
            BY <2>2 DEF AnswerDue
        <3> HIDE DEF g
        <3>4. CASE g.cmd.op = "R"
            <4>1. sent[Carried + 1] = Read
                BY <3>2, <3>4, CmdLemma
            <4> QED
                BY <2>1, <3>2, <4>1
        <3>5. CASE lookahead(g.rest).read
            <4>1. g.rest # <<>> /\ Head(g.rest) = Read
                BY <3>5 DEF lookahead
            <4>2. Len(g.rest) > 0 /\ Head(g.rest) = g.rest[1]
                BY <3>2, <4>1, EmptySeq, HeadTailProperties
            <4>3. sent[Carried + 1 + 1] = Read /\ Carried + 1 + 1 <= Len(sent)
                BY <2>1, <3>2, <4>1, <4>2
            <4> QED
                BY <2>1, <4>3
        <3> QED
            BY <3>3, <3>4, <3>5
    <2>4. ReadsBefore(Len(sent) + 1) > ReadsBefore(Carried + 1)
        <3>1. PICK k \in Carried + 1 .. Len(sent) : sent[k] = Read
            BY <2>3
        <3>2. /\ k \in Nat \ {0} /\ k + 1 \in Nat \ {0} /\ Carried + 1 \in Nat \ {0}
              /\ Len(sent) + 1 \in Nat \ {0} /\ Carried + 1 <= k /\ k + 1 <= Len(sent) + 1
            BY <2>1
        <3>3. ReadsBefore(k + 1) = ReadsBefore(k) + 1
            BY <3>1, <3>2, CountStep
        <3>4. ReadsBefore(Carried + 1) <= ReadsBefore(k)
              /\ ReadsBefore(k + 1) <= ReadsBefore(Len(sent) + 1)
            BY <3>2, ReadsGrow
        <3>5. /\ ReadsBefore(k) \in Nat /\ ReadsBefore(Carried + 1) \in Nat
              /\ ReadsBefore(Len(sent) + 1) \in Nat
            BY <3>2, CountStep
        <3> QED
            BY <3>3, <3>4, <3>5
    <2>5. ReadsBefore(Len(sent) + 1) \in Nat
        <3>1. Len(sent) + 1 \in Nat \ {0}
            BY <2>1
        <3> QED
            BY <3>1, CountStep
    <2> DEFINE all == ReadsBefore(Len(sent) + 1)
               had == Len(answers)
    <2>6. all \in Nat /\ had \in Nat /\ all > had
        BY <2>1, <2>4, <2>5
    <2> HIDE DEF all, had
    <2>7. all - (had - RingMax) > RingMax
        BY <2>2, <2>6
    <2> QED
        BY <2>2, <2>7 DEF Overrun, all, had
<1> QED
    BY <1>1, InductiveInvariant, RingInvariant, PTL DEF Spec, OnlyOverrunSpins
=============================================================================
