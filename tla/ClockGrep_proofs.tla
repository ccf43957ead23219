-------------------------- MODULE ClockGrep_proofs --------------------------
(***************************************************************************)
(* Proofs about the interrupt system, for every set of devices and         *)
(* exceptions and every depth of nesting, and for the system composed with *)
(* the clock driver, which implements it; and about the program grep, for  *)
(* every buffer and all files: its buffer and what it prints.              *)
(***************************************************************************)
EXTENDS Clock, Grep, FiniteSetTheorems, TLAPS

(* A set of numbers that is not empty has a least one.                     *)
LEMMA LeastOf ==
    ASSUME NEW T \in SUBSET Nat, T # {}
    PROVE  \E k \in T : \A j \in T : k <= j
  <1>1. PICK k \in T : \A j \in T : ~(<<j, k>> \in OpToRel(<, Nat))
    BY NatLessThanWellFounded, WFMin, Zenon
  <1>2. \A j \in T : ~(j < k)
    BY <1>1, Zenon DEF OpToRel
  <1> QED
    BY <1>2

-----------------------------------------------------------------------------
(* The interrupt system and the clock.                                     *)

Marks == {"absent", "provisional", "irq", "tail"}
FrameSet == [line : Lines, at : Marks]

(* What a running handler's line has in service.                           *)
InService(l) ==
    IF l = KEYBOARD_IRQ THEN {KEYBOARD_IRQ}
    ELSE IF l = RTC_IRQ THEN {IRQ2, RTC_IRQ}
    ELSE IF l = 15 THEN {IRQ2} ELSE {}

(* Until the first shell runs nothing is accepted and nothing in service.  *)
BootInv == boot # "up" => ~iflag /\ frames = <<>> /\ isr = {} /\ ~frozen

(* Only the clock, the keyboard and the cascade are unmasked.              *)
MaskInv == boot # "i8259" => Lines \ {KEYBOARD_IRQ, IRQ2, RTC_IRQ} \subseteq imr

GateInv ==
    boot \in {"rtc", "terminal", "shell", "up"} => \A l \in InterruptGates : idt[l] = "irq"

(* A handler that has not enabled interrupts is the only one of its kind,  *)
(* and what is in service is its own.                                      *)
HandlerInv ==
    /\ iflag => isr = {} /\ \A i \in 1 .. Len(frames) : frames[i].at = "tail"
    /\ \A i \in 2 .. Len(frames) : frames[i].at = "tail"
    /\ ~iflag /\ boot = "up" /\ ~frozen =>
          /\ frames # <<>>
          /\ frames[1].at = "irq"
          /\ frames[1].line \in {KEYBOARD_IRQ, RTC_IRQ, 7, 15}
          /\ isr = InService(frames[1].line)
    /\ frozen => ~iflag /\ frames = <<>> /\ isr = {}

IrqInv == IrqTypeOK /\ BootInv /\ MaskInv /\ GateInv /\ HandlerInv

-----------------------------------------------------------------------------
(* The first n + 1 powers of 2.                                            *)
Powers(n, g) == g \in [0 .. n -> Nat] /\ g[0] = 1 /\ \A k \in 1 .. n : g[k] = 2 * g[k - 1]

(* They exist for every n,                                                 *)
LEMMA PowersExist == \A n \in Nat : \E g : Powers(n, g)
  <1> DEFINE T == {n \in Nat : ~\E g : Powers(n, g)}
  <1>1. SUFFICES ASSUME T # {} PROVE FALSE
    OBVIOUS
  <1>2. PICK n \in T : \A m \in T : n <= m
    BY <1>1, LeastOf, Zenon
  <1>3. n \in Nat /\ \A m \in Nat : m < n => \E g : Powers(m, g)
    BY <1>2
  <1>4. n # 0
    <2>1. Powers(0, [k \in 0 .. 0 |-> 1])
      BY DEF Powers
    <2> QED
      BY <1>2, <2>1
  <1>5. n - 1 \in Nat /\ n - 1 < n
    BY <1>3, <1>4
  <1>6. PICK g : Powers(n - 1, g)
    BY <1>3, <1>5
  <1>7. Powers(n, [k \in 0 .. n |-> IF k = n THEN 2 * g[n - 1] ELSE g[k]])
    BY <1>3, <1>4, <1>5, <1>6, SMTT(30) DEF Powers
  <1> QED
    BY <1>2, <1>7

(* and agree with each other,                                              *)
LEMMA PowersAgree ==
    ASSUME NEW n \in Nat, NEW m \in Nat, NEW g, NEW h, Powers(n, g), Powers(m, h)
    PROVE  \A k \in Nat : k <= n /\ k <= m => g[k] = h[k]
  <1> DEFINE T == {k \in Nat : k <= n /\ k <= m /\ g[k] # h[k]}
  <1>1. SUFFICES ASSUME T # {} PROVE FALSE
    OBVIOUS
  <1>2. PICK k \in T : \A j \in T : k <= j
    BY <1>1, LeastOf, Zenon
  <1>3. k \in Nat /\ k <= n /\ k <= m /\ g[k] # h[k]
    BY <1>2
  <1>4. k # 0
    BY <1>3 DEF Powers
  <1>5. k - 1 \in Nat /\ k - 1 <= n /\ k - 1 <= m /\ k - 1 < k
    BY <1>3, <1>4
  <1>6. g[k - 1] = h[k - 1]
    BY <1>2, <1>3, <1>5
  <1>7. g[k] = 2 * g[k - 1] /\ h[k] = 2 * h[k - 1]
    BY <1>3, <1>4 DEF Powers
  <1> QED
    BY <1>3, <1>6, <1>7

(* so that Pow2 is the function its recursion describes.                   *)
LEMMA Pow2Def == Pow2 = [k \in Nat |-> IF k = 0 THEN 1 ELSE 2 * Pow2[k - 1]]
  <1> DEFINE G(n) == CHOOSE g : Powers(n, g)
             W == [k \in Nat |-> G(k)[k]]
  <1>1. \A n \in Nat : Powers(n, G(n))
    BY PowersExist
  <1> HIDE DEF G
  <1>2. ASSUME NEW k \in Nat PROVE W[k] = IF k = 0 THEN 1 ELSE 2 * W[k - 1]
    <2>1. CASE k = 0
      BY <1>1, <2>1 DEF Powers
    <2>2. CASE k # 0
      <3>1. k - 1 \in Nat
        BY <2>2
      <3>2. G(k)[k - 1] = G(k - 1)[k - 1]
        BY <1>1, <3>1, PowersAgree
      <3>3. G(k)[k] = 2 * G(k)[k - 1]
        <4>1. Powers(k, G(k))
          BY <1>1
        <4> QED
          BY <2>2, <4>1 DEF Powers
      <3> QED
        BY <2>2, <3>1, <3>2, <3>3
    <2> QED
      BY <2>1, <2>2
  <1>3. W = [k \in Nat |-> IF k = 0 THEN 1 ELSE 2 * W[k - 1]]
    BY <1>2
  <1> HIDE DEF W
  <1>4. \E f : f = [k \in Nat |-> IF k = 0 THEN 1 ELSE 2 * f[k - 1]]
    BY <1>3
  <1> QED
    BY <1>4 DEF Pow2

(* Its values, one from another.                                           *)
LEMMA Pow2Step ==
    /\ Pow2[0] = 1
    /\ \A k \in Nat \ {0} : Pow2[k] = 2 * Pow2[k - 1]
  BY Pow2Def

(* They are positive numbers.                                              *)
LEMMA Pow2Positive == \A k \in Nat : Pow2[k] \in Nat \ {0}
  <1> DEFINE T == {k \in Nat : Pow2[k] \notin Nat \ {0}}
  <1>1. SUFFICES ASSUME T # {} PROVE FALSE
    OBVIOUS
  <1>2. PICK k \in T : \A j \in T : k <= j
    BY <1>1, LeastOf, Zenon
  <1>3. k \in Nat \ {0}
    BY <1>2, Pow2Step
  <1>4. k - 1 \in Nat /\ k - 1 < k
    BY <1>3
  <1>5. Pow2[k - 1] \in Nat \ {0}
    BY <1>2, <1>3, <1>4
  <1> QED
    BY <1>2, <1>3, <1>5, Pow2Step

(* The law of exponents.                                                   *)
LEMMA Pow2Sum == \A n \in Nat, j \in Nat : Pow2[j + n] = Pow2[j] * Pow2[n]
  <1> SUFFICES ASSUME NEW j \in Nat PROVE \A n \in Nat : Pow2[j + n] = Pow2[j] * Pow2[n]
    OBVIOUS
  <1> DEFINE T == {n \in Nat : Pow2[j + n] # Pow2[j] * Pow2[n]}
  <1>1. SUFFICES ASSUME T # {} PROVE FALSE
    BY Zenon
  <1>2. PICK n \in T : \A m \in T : n <= m
    BY <1>1, LeastOf, Zenon
  <1>3. n \in Nat \ {0}
    BY <1>2, Pow2Step, Pow2Positive
  <1>4. n - 1 \in Nat /\ n - 1 < n /\ j + n \in Nat \ {0} /\ j + n - 1 = j + (n - 1)
    BY <1>3
  <1>5. Pow2[j + (n - 1)] = Pow2[j] * Pow2[n - 1]
    BY <1>2, <1>3, <1>4
  <1>6. Pow2[j + n] = 2 * Pow2[j + (n - 1)] /\ Pow2[n] = 2 * Pow2[n - 1]
    BY <1>3, <1>4, Pow2Step
  <1>7. \A a, b \in Nat : 2 * (a * b) = a * (2 * b)
    OBVIOUS
  <1>8. Pow2[j + n] = Pow2[j] * Pow2[n]
    BY <1>4, <1>5, <1>6, <1>7, Pow2Positive
  <1> QED
    BY <1>2, <1>8

(* A smaller power of 2 divides a larger one.                              *)
LEMMA Pow2Divides ==
    ASSUME NEW j \in Nat, NEW k \in Nat, Pow2[j] <= Pow2[k]
    PROVE  j <= k /\ Pow2[j] * Pow2[k - j] = Pow2[k]
  <1>1. CASE j <= k
    <2>1. k - j \in Nat /\ j + (k - j) = k
      BY <1>1
    <2>2. Pow2[j + (k - j)] = Pow2[j] * Pow2[k - j]
      BY <2>1, Pow2Sum
    <2> QED
      BY <1>1, <2>1, <2>2
  <1>2. CASE ~(j <= k)
    <2>1. j - k - 1 \in Nat /\ (k + 1) + (j - k - 1) = j /\ k + 1 \in Nat \ {0} /\ (k + 1) - 1 = k
      BY <1>2
    <2>2. Pow2[(k + 1) + (j - k - 1)] = Pow2[k + 1] * Pow2[j - k - 1]
      BY <2>1, Pow2Sum
    <2>3. Pow2[k + 1] = 2 * Pow2[k]
      <3>1. Pow2[k + 1] = 2 * Pow2[(k + 1) - 1]
        BY <2>1, Pow2Step
      <3> QED
        BY <2>1, <3>1
    <2>4. \A a, b \in Nat \ {0} : ~((2 * a) * b <= a)
      OBVIOUS
    <2> QED
      BY <2>1, <2>2, <2>3, <2>4, Pow2Positive
  <1> QED
    BY <1>1, <1>2

(* Counting on modulo d.                                                   *)
LEMMA Counts ==
    ASSUME NEW d \in Nat \ {0}, NEW a \in Nat
    PROVE  (a + 1) % d = IF (a % d) + 1 = d THEN 0 ELSE (a % d) + 1
  <1>1. \A q \in Nat, s \in 0 .. d - 1 : (d * q + s) % d = s
    OBVIOUS
  <1>2. PICK q \in Nat, r \in 0 .. d - 1 : a = d * q + r /\ r = a % d
    OBVIOUS
  <1>3. CASE r + 1 = d
    <2>1. d * (q + 1) = d * q + d /\ d * q \in Nat
      OBVIOUS
    <2>4. \A x \in Nat : a = x + r => a + 1 = x + d
      BY <1>3
    <2>2. a + 1 = d * q + d
      BY <1>2, <2>1, <2>4
    <2>3. a + 1 = d * (q + 1) + 0
      BY <2>1, <2>2
    <2> QED
      BY <1>1, <1>2, <1>3, <2>3, SMTT(30)
  <1>4. CASE r + 1 # d
    <2>1. a + 1 = d * q + (r + 1) /\ r + 1 \in 0 .. d - 1
      BY <1>2, <1>4
    <2> QED
      BY <1>1, <1>2, <1>4, <2>1, Zenon
  <1> QED
    BY <1>3, <1>4

(* Starting again at a multiple of d does not disturb it.                  *)
LEMMA CountsRound ==
    ASSUME NEW d \in Nat \ {0}, NEW v \in Nat \ {0}, NEW a \in 0 .. d * v - 1
    PROVE  ((a + 1) % (d * v)) % d = (a + 1) % d
  <1>1. d * v \in Nat \ {0}
    OBVIOUS
  <1>2. CASE a + 1 < d * v
    <2>1. (a + 1) % (d * v) = a + 1
      BY <1>1, <1>2
    <2> QED
      BY <2>1
  <1>3. CASE a + 1 = d * v
    <2>1. (a + 1) % (d * v) = 0
      BY <1>1, <1>3
    <2>2. (d * v) % d = 0
      OBVIOUS
    <2>3. 0 % d = 0
      OBVIOUS
    <2> QED
      BY <1>3, <2>1, <2>2, <2>3
  <1> QED
    BY <1>1, <1>2, <1>3

(* MAX_FREQ is positive.                                                   *)
LEMMA MaxFreqPositive == MAX_FREQ \in Nat \ {0}
  <1>1. PICK k \in 0 .. BITS - 2 : MAX_FREQ = Pow2[k]
    BY RtcAssumption, Zenon
  <1>2. k \in Nat
    BY <1>1
  <1> QED
    BY <1>1, <1>2, Pow2Positive

-----------------------------------------------------------------------------
(* A frame put in front of the others moves them on by one.                *)
LEMMA PushFrame ==
    ASSUME NEW s \in Seq(FrameSet), NEW r \in FrameSet
    PROVE  /\ <<r>> \o s \in Seq(FrameSet)
           /\ Len(<<r>> \o s) = Len(s) + 1
           /\ (<<r>> \o s)[1] = r
           /\ \A i \in 2 .. Len(s) + 1 : (<<r>> \o s)[i] = s[i - 1]
    OBVIOUS

(* Taking the first frame away moves the others back by one.               *)
LEMMA PopFrame ==
    ASSUME NEW s \in Seq(FrameSet), s # <<>>
    PROVE  /\ Tail(s) \in Seq(FrameSet)
           /\ Len(Tail(s)) = Len(s) - 1
           /\ \A i \in 1 .. Len(s) - 1 : Tail(s)[i] = s[i + 1]
           /\ Head(s) = s[1] /\ s[1] \in FrameSet /\ 1 \in DOMAIN s
    OBVIOUS

(* The reset establishes the invariant.                                    *)
LEMMA IrqInvInit == PowerOn => IrqInv
  <1> SUFFICES ASSUME PowerOn PROVE IrqInv
    OBVIOUS
  <1> USE DEF PowerOn
  <1>1. IrqTypeOK
    <2>1. frames \in Seq(FrameSet)
      OBVIOUS
    <2> QED
      BY <2>1, Zenon DEF IrqTypeOK, FrameSet, Marks
  <1>2. BootInv /\ MaskInv /\ GateInv
    BY DEF BootInv, MaskInv, GateInv
  <1>3. HandlerInv
    BY DEF HandlerInv
  <1> QED
    BY <1>1, <1>2, <1>3 DEF IrqInv

(* The steps of entry keep it.                                             *)
LEMMA BootKeeps == IrqInv /\ Boot => IrqInv'
  <1> SUFFICES ASSUME IrqInv, Boot PROVE IrqInv'
    OBVIOUS
  <1> USE DEF IrqInv, picVars
  <1>1. frames' = frames /\ isr' = {} /\ frozen' = frozen /\ frames = <<>> /\ ~frozen
    BY DEF Boot, i8259_init, init_idt, rtc_init, terminal_init, FirstShell, BootInv
  <1>2. idt' \in [Gates -> {"absent", "provisional", "exception", "irq"}]
    BY DEF Boot, i8259_init, init_idt, rtc_init, terminal_init, FirstShell, IrqTypeOK
  <1>3. imr' \subseteq Lines
    BY DEF Boot, i8259_init, init_idt, rtc_init, terminal_init, FirstShell, IrqTypeOK,
           enable_irq
  <1>4. IrqTypeOK'
    <2>1. isr' \subseteq Lines
      BY <1>1
    <2>2. frames' \in Seq([line : Lines, at : {"absent", "provisional", "irq", "tail"}])
      BY <1>1 DEF IrqTypeOK
    <2>3. /\ boot' \in {"i8259", "idt", "rtc", "terminal", "shell", "up"}
          /\ irr' \subseteq Lines /\ unread' \subseteq Lines
          /\ periodic' \in BOOLEAN /\ iflag' \in BOOLEAN
      BY Zenon DEF Boot, i8259_init, init_idt, rtc_init, terminal_init, FirstShell, IrqTypeOK
    <2> QED
      BY <1>1, <1>2, <1>3, <2>1, <2>2, <2>3 DEF IrqTypeOK
  <1>5. BootInv'
    BY <1>1 DEF Boot, i8259_init, init_idt, rtc_init, terminal_init, FirstShell, BootInv
  <1>6. MaskInv'
    BY DEF Boot, i8259_init, init_idt, rtc_init, terminal_init, FirstShell, MaskInv,
           enable_irq, KEYBOARD_IRQ, RTC_IRQ, IRQ2, IRQ_AMNT
  <1>7. GateInv'
    <2>1. CASE init_idt
      BY <2>1 DEF init_idt, GateInv, Gates, InterruptGates, ExceptionGates, Lines, IRQ_AMNT
    <2>2. CASE ~init_idt
      BY <2>2 DEF Boot, i8259_init, rtc_init, terminal_init, FirstShell, GateInv
    <2> QED
      BY <2>1, <2>2
  <1>8. HandlerInv'
    <2>1. iflag' \/ boot' # "up"
      BY DEF Boot, i8259_init, init_idt, rtc_init, terminal_init, FirstShell
    <2>2. Len(frames') = 0
      BY <1>1
    <2> QED
      BY <1>1, <2>1, <2>2 DEF HandlerInv
  <1> QED
    BY <1>4, <1>5, <1>6, <1>7, <1>8

(* Entering the gate of a line keeps it, if the line is one of the four    *)
(* that come and what it takes into service is its own.                    *)
LEMMA EnterKeeps ==
    ASSUME IrqInv, NEW l \in {KEYBOARD_IRQ, RTC_IRQ, 7, 15}, Enter(l, InService(l)),
           irr' \subseteq Lines
    PROVE  IrqInv'
  <1> USE DEF IrqInv
  <1> DEFINE r == [line |-> l, at |-> idt[l]]
  <1>1. boot = "up" /\ ~frozen /\ isr = {} /\ iflag /\ ~iflag'
    BY DEF Enter, BootInv, HandlerInv
  <1>2. l \in InterruptGates /\ l \in Lines
    BY DEF KEYBOARD_IRQ, RTC_IRQ, InterruptGates, Lines, IRQ_AMNT
  <1>3. r \in FrameSet /\ r.at = "irq" /\ r.line = l
    BY <1>1, <1>2 DEF GateInv, FrameSet, Marks
  <1>4. frames \in Seq(FrameSet)
    BY DEF IrqTypeOK, FrameSet, Marks
  <1>5. frames' = <<r>> \o frames
    BY DEF Enter
  <1> HIDE DEF r
  <1>6. /\ frames' \in Seq(FrameSet)
        /\ Len(frames') = Len(frames) + 1
        /\ frames'[1] = r
        /\ \A i \in 2 .. Len(frames) + 1 : frames'[i] = frames[i - 1]
    BY <1>3, <1>4, <1>5, PushFrame
  <1>7. isr' = InService(l)
    BY <1>1 DEF Enter
  <1>8. InService(l) \subseteq Lines
    BY DEF InService, Lines, KEYBOARD_IRQ, RTC_IRQ, IRQ2, IRQ_AMNT
  <1>9. IrqTypeOK'
    BY <1>6, <1>7, <1>8, Zenon DEF Enter, IrqTypeOK, FrameSet, Marks
  <1>10. BootInv' /\ MaskInv' /\ GateInv'
    BY <1>1 DEF Enter, BootInv, MaskInv, GateInv
  <1>11. \A i \in 2 .. Len(frames') : frames'[i].at = "tail"
    <2>1. \A i \in 1 .. Len(frames) : frames[i].at = "tail"
      BY <1>1 DEF HandlerInv
    <2>2. \A i \in 2 .. Len(frames) + 1 : i - 1 \in 1 .. Len(frames)
      BY <1>4
    <2> QED
      BY <1>6, <2>1, <2>2
  <1>12. frames' # <<>>
    BY <1>4, <1>6
  <1>13. HandlerInv'
    BY <1>1, <1>3, <1>6, <1>7, <1>11, <1>12 DEF HandlerInv, Enter
  <1> QED
    BY <1>9, <1>10, <1>13

(* Requests, interrupts and spurious interrupts keep it.                   *)
LEMMA HardwareKeeps == IrqInv /\ Hardware => IrqInv'
  <1> SUFFICES ASSUME IrqInv, Hardware PROVE IrqInv'
    OBVIOUS
  <1> USE DEF IrqInv
  <1>1. ASSUME NEW l \in Devices, Raise(l) PROVE IrqInv'
    <2>1. l \in Lines
      BY <1>1, IrqAssumption
    <2>2. IrqTypeOK'
      BY <1>1, <2>1 DEF Raise, IrqTypeOK
    <2> QED
      BY <1>1, <2>2 DEF Raise, BootInv, MaskInv, GateInv, HandlerInv
  <1>2. ASSUME NEW l \in Devices, Interrupt(l) PROVE IrqInv'
    <2>1. l \in Lines /\ l # IRQ2
      BY <1>2, IrqAssumption
    <2>2. boot = "up"
      BY <1>2 DEF Interrupt, Enter, BootInv
    <2>3. l \in {KEYBOARD_IRQ, RTC_IRQ}
      BY <1>2, <2>1, <2>2 DEF Interrupt, Requests, MaskInv
    <2>4. (IF l >= IRQ_AMNT THEN {IRQ2, l} ELSE {l}) = InService(l)
      BY <2>3 DEF InService, KEYBOARD_IRQ, RTC_IRQ, IRQ_AMNT
    <2>5. Enter(l, InService(l)) /\ irr' \subseteq Lines
      BY <1>2, <2>4, Zenon DEF Interrupt, IrqTypeOK
    <2> QED
      BY <2>3, <2>5, EnterKeeps
  <1>3. CASE Spurious7
    <2>1. InService(7) = {}
      BY DEF InService, KEYBOARD_IRQ, RTC_IRQ
    <2> QED
      BY <1>3, <2>1, EnterKeeps, Zenon DEF Spurious7, IrqTypeOK
  <1>4. CASE Spurious15
    <2>1. InService(15) = {IRQ2}
      BY DEF InService, KEYBOARD_IRQ, RTC_IRQ
    <2> QED
      BY <1>4, <2>1, EnterKeeps, Zenon DEF Spurious15, IrqTypeOK
  <1> QED
    BY <1>1, <1>2, <1>3, <1>4 DEF Hardware

(* What a handler that is being served finds.                              *)
LEMMA Served ==
    ASSUME IrqInv, NEW l \in Lines, Serving(l)
    PROVE  /\ boot = "up" /\ ~iflag /\ ~frozen /\ frames # <<>>
           /\ frames[1].line = l /\ frames[1].at = "irq" /\ Head(frames) = frames[1]
           /\ l \in {KEYBOARD_IRQ, RTC_IRQ, 7, 15} /\ isr = InService(l)
  <1> USE DEF IrqInv, Serving
  <1>1. frames \in Seq(FrameSet) /\ frames # <<>>
    BY DEF IrqTypeOK, FrameSet, Marks
  <1>2. Head(frames) = frames[1] /\ Len(frames) >= 1
    BY <1>1
  <1>3. frames[1].line = l /\ frames[1].at = "irq"
    <2>1. frames[1] = [line |-> l, at |-> "irq"]
      BY <1>2
    <2> QED
      BY <2>1
  <1>4. ~iflag
    BY <1>2, <1>3 DEF HandlerInv
  <1>5. boot = "up"
    BY <1>1 DEF BootInv
  <1> QED
    <2> HIDE DEF Serving
    <2>1. ~frozen
      BY DEF Serving
    <2>2. /\ frames[1].line \in {KEYBOARD_IRQ, RTC_IRQ, 7, 15}
          /\ isr = InService(frames[1].line)
      BY <1>4, <1>5, <2>1 DEF HandlerInv
    <2> QED
      BY <1>1, <1>2, <1>3, <1>4, <1>5, <2>1, <2>2

(* After a handler of interrupts has returned to the one below, or to none,*)
(* with nothing in service.                                                *)
LEMMA ReturnKeeps ==
    ASSUME IrqInv, boot = "up", ~frozen, frames # <<>>, isr' = {}, iflag' = TRUE,
           frames' \in {Tail(frames), <<>>},
           UNCHANGED <<boot, idt, imr, irr, periodic, frozen>>, unread' \subseteq unread
    PROVE  IrqInv'
  <1> USE DEF IrqInv
  <1>1. frames \in Seq(FrameSet)
    BY DEF IrqTypeOK, FrameSet, Marks
  <1>2. frames' \in Seq(FrameSet)
    <2>1. Tail(frames) \in Seq(FrameSet)
      BY <1>1, PopFrame
    <2>2. <<>> \in Seq(FrameSet)
      OBVIOUS
    <2> QED
      BY <2>1, <2>2, Zenon
  <1>3. \A i \in 1 .. Len(frames') : frames'[i].at = "tail"
    <2>1. CASE frames' = <<>>
      BY <2>1
    <2>2. CASE frames' = Tail(frames)
      <3>1. /\ Len(frames') = Len(frames) - 1
            /\ \A i \in 1 .. Len(frames) - 1 : frames'[i] = frames[i + 1]
        BY <1>1, <2>2, PopFrame
      <3>2. \A i \in 1 .. Len(frames) - 1 : i + 1 \in 2 .. Len(frames)
        BY <1>1
      <3> QED
        BY <3>1, <3>2 DEF HandlerInv
    <2> QED
      BY <2>1, <2>2
  <1>4. \A i \in 2 .. Len(frames') : frames'[i].at = "tail"
    BY <1>2, <1>3
  <1>5. IrqTypeOK'
    BY <1>2 DEF IrqTypeOK, FrameSet, Marks
  <1>6. BootInv' /\ MaskInv' /\ GateInv'
    BY DEF BootInv, MaskInv, GateInv
  <1>7. HandlerInv'
    BY <1>3, <1>4 DEF HandlerInv
  <1> QED
    BY <1>5, <1>6, <1>7

(* The handlers keep it.                                                   *)
LEMMA HandlersKeep == IrqInv /\ Handlers => IrqInv'
  <1> SUFFICES ASSUME IrqInv, Handlers PROVE IrqInv'
    OBVIOUS
  <1>0. KEYBOARD_IRQ \in Lines /\ RTC_IRQ \in Lines
    BY DEF KEYBOARD_IRQ, RTC_IRQ, Lines, IRQ_AMNT
  <1>1. CASE ClockHandler
    <2>1. isr = {IRQ2, RTC_IRQ} /\ boot = "up" /\ ~frozen /\ frames # <<>>
      BY <1>0, <1>1, Served DEF ClockHandler, InService, KEYBOARD_IRQ, RTC_IRQ
    <2>2. isr' = {}
      BY <1>1, <2>1 DEF ClockHandler, send_eoi, RTC_IRQ, IRQ_AMNT
    <2> QED
      BY <1>1, <2>1, <2>2, ReturnKeeps DEF ClockHandler, Iret
  <1>2. CASE KeyHandler
    <2>1. isr = {KEYBOARD_IRQ} /\ boot = "up" /\ ~frozen /\ frames # <<>>
      BY <1>0, <1>2, Served DEF KeyHandler, InService
    <2>2. isr' = {}
      BY <1>2, <2>1 DEF KeyHandler, send_eoi, KEYBOARD_IRQ, IRQ_AMNT
    <2> QED
      BY <1>2, <2>1, <2>2, ReturnKeeps DEF KeyHandler
  <1>3. CASE OtherHandler
    <2> USE DEF IrqInv
    <2>1. PICK l \in Lines \ {PIT_IRQ, KEYBOARD_IRQ, RTC_IRQ} : Serving(l)
      BY <1>3 DEF OtherHandler
    <2>2. /\ boot = "up" /\ ~frozen /\ frames # <<>> /\ l \in {7, 15}
          /\ isr = InService(l)
      BY <2>1, Served
    <2>3. isr' = {}
      BY <1>3, <2>2 DEF OtherHandler, NonSpecificEoi, InService, KEYBOARD_IRQ, RTC_IRQ,
                        IRQ2, IRQ_AMNT
    <2>4. frames \in Seq(FrameSet) /\ 1 \in DOMAIN frames
      BY <2>2 DEF IrqTypeOK, FrameSet, Marks
    <2>5. frames' = [frames EXCEPT ![1].at = "tail"]
      BY <1>3 DEF OtherHandler
    <2>6. frames[1] \in FrameSet
      BY <2>4
    <2>7. [frames[1] EXCEPT !.at = "tail"] \in FrameSet
      BY <2>6 DEF FrameSet, Marks
    <2>8. frames' \in Seq(FrameSet) /\ Len(frames') = Len(frames)
      BY <2>4, <2>5, <2>7
    <2>9. \A i \in 1 .. Len(frames') : frames'[i].at = "tail"
      <3>1. frames'[1] = [frames[1] EXCEPT !.at = "tail"]
        BY <2>4, <2>5
      <3>2. frames'[1].at = "tail"
        BY <2>6, <3>1 DEF FrameSet
      <3>3. \A i \in 2 .. Len(frames) : frames'[i] = frames[i]
        BY <2>4, <2>5
      <3> QED
        BY <2>4, <2>8, <3>2, <3>3 DEF HandlerInv
    <2>10. \A i \in 2 .. Len(frames') : frames'[i].at = "tail"
      BY <2>8, <2>9
    <2>11. IrqTypeOK'
      BY <1>3, <2>3, <2>8 DEF OtherHandler, IrqTypeOK, FrameSet, Marks
    <2>12. BootInv' /\ MaskInv' /\ GateInv'
      BY <1>3, <2>2 DEF OtherHandler, BootInv, MaskInv, GateInv
    <2>13. HandlerInv'
      BY <1>3, <2>2, <2>3, <2>9, <2>10 DEF OtherHandler, HandlerInv
    <2> QED
      BY <2>11, <2>12, <2>13
  <1>4. CASE OtherReturns
    <2> USE DEF IrqInv
    <2>1. frames # <<>> /\ ~frozen /\ Head(frames).at = "tail"
      BY <1>4 DEF OtherReturns
    <2>2. Head(frames) = frames[1]
      BY <2>1 DEF IrqTypeOK
    <2>3. boot = "up"
      BY <2>1 DEF BootInv
    <2>4. isr = {}
      <3>1. frames[1].at # "irq"
        BY <2>1, <2>2
      <3> QED
        BY <2>1, <2>3, <3>1 DEF HandlerInv
    <2>5. isr' = {}
      BY <1>4, <2>4 DEF OtherReturns, picVars
    <2> QED
      BY <1>4, <2>1, <2>3, <2>5, ReturnKeeps DEF OtherReturns, Iret, picVars
  <1> QED
    BY <1>1, <1>2, <1>3, <1>4 DEF Handlers

(* An exception and its endless loop keep it.                              *)
LEMMA ExceptionKeeps ==
    ASSUME IrqInv, NEW e \in Exceptions, Exception(e)
    PROVE  IrqInv'
  <1> USE DEF IrqInv, Exception, picVars
  <1>1. isr = {}
    BY DEF HandlerInv
  <1>2. IrqTypeOK' /\ BootInv' /\ MaskInv' /\ GateInv'
    BY Zenon DEF IrqTypeOK, BootInv, MaskInv, GateInv
  <1>3. HandlerInv'
    BY <1>1 DEF HandlerInv
  <1> QED
    BY <1>2, <1>3

(* Every step keeps the invariant.                                         *)
LEMMA IrqInvStep == IrqInv /\ [IrqNext]_irqVars => IrqInv'
  <1> SUFFICES ASSUME IrqInv, [IrqNext]_irqVars PROVE IrqInv'
    OBVIOUS
  <1>1. CASE UNCHANGED irqVars
    BY <1>1 DEF irqVars, picVars, IrqInv, IrqTypeOK, BootInv, MaskInv, GateInv, HandlerInv
  <1>2. CASE Boot
    BY <1>2, BootKeeps
  <1>3. CASE Hardware
    BY <1>3, HardwareKeeps
  <1>4. CASE Handlers
    BY <1>4, HandlersKeep
  <1>5. CASE \E e \in Exceptions : Exception(e)
    BY <1>5, ExceptionKeeps
  <1>6. CASE Loop
    BY <1>1, <1>6 DEF Loop
  <1> QED
    BY <1>1, <1>2, <1>3, <1>4, <1>5, <1>6 DEF IrqNext

(* The interrupt system keeps its invariant.                               *)
THEOREM IrqInvariant == IrqSpec => []IrqInv
  BY IrqInvInit, IrqInvStep, PTL DEF IrqSpec

-----------------------------------------------------------------------------
(* The driver on top uses the interrupt system and never goes around it:   *)
(* every step of the composed system is one of the interrupt system or     *)
(* leaves that alone.                                                      *)
THEOREM ClockImplementsIrq == ClockSpec => IrqSpec
  <1>1. ClockInit => PowerOn
    BY DEF ClockInit
  <1>2. [ClockNext]_clockVars => [IrqNext]_irqVars
    <2> SUFFICES ASSUME [ClockNext]_clockVars PROVE [IrqNext]_irqVars
      OBVIOUS
    <2>1. CASE Tick
      BY <2>1 DEF Tick, IrqNext, Handlers
    <2>2. CASE Key
      BY <2>2 DEF Key, IrqNext, Handlers
    <2>3. CASE Run(Program)
      BY <2>3 DEF Run
    <2>4. CASE Boot \/ Hardware \/ OtherHandler \/ OtherReturns \/ Loop
               \/ \E e \in Exceptions : Exception(e)
      BY <2>4 DEF IrqNext, Handlers
    <2>5. CASE UNCHANGED clockVars
      BY <2>5 DEF clockVars
    <2> QED
      BY <2>1, <2>2, <2>3, <2>4, <2>5 DEF ClockNext
  <1> QED
    BY <1>1, <1>2, PTL DEF ClockSpec, IrqSpec

(* Types of the driver are kept by its own steps.                          *)
LEMMA DriverTypes ==
    ASSUME TypeOK, Handler \/ Program \/ (\E p \in Procs : Switch(p)) \/ UNCHANGED vars
    PROVE  TypeOK'
  <1> USE DEF TypeOK, NoGap
  <1>0. MAX_FREQ \in Nat \ {0}
    BY MaxFreqPositive
  <1>1. CASE Handler
    <2>1. clk' \in 0 .. MAX_FREQ - 1
      BY <1>0, <1>1 DEF Handler, NextClk
    <2>2. gap' \in Nat \cup {NoGap} /\ period' \in Nat \cup {NoGap}
      BY <1>1 DEF Handler
    <2>3. IR_flag' \in BOOLEAN /\ fault' \in BOOLEAN
      BY <1>1, Zenon DEF Handler
    <2> QED
      BY <1>1, <2>1, <2>2, <2>3 DEF Handler
  <1>2. CASE Program
    BY <1>2, Zenon DEF Program, Read, Spin, Return, Write, Goto
  <1>3. CASE \E p \in Procs : Switch(p)
    BY <1>3 DEF Switch
  <1>4. CASE UNCHANGED vars
    BY <1>4 DEF vars, prgVars
  <1> QED
    BY <1>1, <1>2, <1>3, <1>4

(* Types are kept, for every MAX_FREQ, width and set of frequencies.       *)
THEOREM ClockTypes == ClockSpec => []ClockTypeOK
  <1>1. ClockInit => TypeOK
    <2>1. MAX_FREQ \in Nat \ {0}
      BY MaxFreqPositive
    <2>2. 0 \in 0 .. MAX_FREQ - 1
      BY <2>1
    <2> QED
      BY <2>2, Zenon DEF ClockInit, Init, TypeOK
  <1>2. TypeOK /\ [ClockNext]_clockVars => TypeOK'
    <2> SUFFICES ASSUME TypeOK, [ClockNext]_clockVars PROVE TypeOK'
      OBVIOUS
    <2>1. Handler \/ Program \/ (\E p \in Procs : Switch(p)) \/ UNCHANGED vars
      BY DEF ClockNext, Tick, Key, Run, clockVars
    <2> QED
      BY <2>1, DriverTypes
  <1>3. IrqInv => IrqTypeOK
    BY DEF IrqInv
  <1> QED
    BY <1>1, <1>2, <1>3, ClockImplementsIrq, IrqInvariant, PTL DEF ClockSpec, ClockTypeOK

(* No handler begins before the first shell runs, although the lines are   *)
(* unmasked long before, and every handler was entered through a gate of   *)
(* setup_idt_interrupts.                                                   *)
THEOREM BootUndisturbed == ClockSpec => []ServedWhenUp
  <1>1. IrqInv => ServedWhenUp
    <2> SUFFICES ASSUME IrqInv, frames # <<>>
                 PROVE  /\ boot = "up"
                        /\ \A i \in 1 .. Len(frames) : frames[i].at \in {"irq", "tail"}
      BY DEF ServedWhenUp
    <2>1. boot = "up"
      BY DEF IrqInv, BootInv
    <2>2. CASE iflag
      BY <2>1, <2>2 DEF IrqInv, HandlerInv
    <2>3. CASE ~iflag
      <3>1. frames[1].at = "irq"
        BY <2>1, <2>3 DEF IrqInv, HandlerInv
      <3>2. \A i \in 1 .. Len(frames) : i = 1 \/ i \in 2 .. Len(frames)
        BY DEF IrqInv, IrqTypeOK
      <3> QED
        BY <2>1, <3>1, <3>2 DEF IrqInv, HandlerInv
    <2> QED
      BY <2>2, <2>3
  <1> QED
    BY <1>1, ClockImplementsIrq, IrqInvariant, PTL

(* No line stays in service while the processor accepts interrupts.        *)
THEOREM NoLineBlocked == ClockSpec => []LinesFree
  <1>1. IrqInv => LinesFree
    BY DEF IrqInv, HandlerInv, LinesFree
  <1> QED
    BY <1>1, ClockImplementsIrq, IrqInvariant, PTL

(* An end of interrupt, also the unspecific one, ends only the service of  *)
(* the handler that sends it.                                              *)
THEOREM EndsOwnService == ClockSpec => EoiOwn
  <1> DEFINE Own == boot = "up" =>
          \A l \in isr \ isr' :
             \/ l = Head(frames).line
             \/ l = IRQ2 /\ Head(frames).line >= IRQ_AMNT
  <1>1. IrqInv /\ [IrqNext]_irqVars => [Own]_irqVars
    <2> SUFFICES ASSUME IrqInv, IrqNext, boot = "up", NEW l \in isr \ isr'
                 PROVE  \/ l = Head(frames).line
                        \/ l = IRQ2 /\ Head(frames).line >= IRQ_AMNT
      OBVIOUS
    <2>0. KEYBOARD_IRQ \in Lines /\ RTC_IRQ \in Lines
      BY DEF KEYBOARD_IRQ, RTC_IRQ, Lines, IRQ_AMNT
    <2>1. CASE ClockHandler
      BY <2>0, <2>1, Served DEF ClockHandler, InService, KEYBOARD_IRQ, RTC_IRQ, IRQ_AMNT
    <2>2. CASE KeyHandler
      BY <2>0, <2>2, Served DEF KeyHandler, InService
    <2>3. CASE OtherHandler
      <3>1. PICK m \in Lines \ {PIT_IRQ, KEYBOARD_IRQ, RTC_IRQ} : Serving(m)
        BY <2>3 DEF OtherHandler
      <3>2. m \in {7, 15} /\ Head(frames).line = m /\ isr = InService(m)
        BY <3>1, Served
      <3> QED
        BY <3>2 DEF InService, KEYBOARD_IRQ, RTC_IRQ, IRQ_AMNT
    <2>4. CASE ~(ClockHandler \/ KeyHandler \/ OtherHandler)
      BY <2>4, Zenon DEF IrqNext, Boot, i8259_init, init_idt, rtc_init, terminal_init, FirstShell,
         Hardware, Raise, Interrupt, Spurious7, Spurious15, Enter, Handlers, OtherReturns,
         Exception, Loop, irqVars, picVars
    <2> QED
      BY <2>1, <2>2, <2>3, <2>4
  <1> QED
    BY <1>1, ClockImplementsIrq, IrqInvariant, PTL DEF EoiOwn, IrqSpec

-----------------------------------------------------------------------------
(* The frequency divides MAX_FREQ, and clk says how long ago the last      *)
(* virtual interrupt was.                                                  *)
FreqOK ==
    \/ virtual_freq = 0
    \/ \E j \in 0 .. BITS - 2, m \in Nat :
          virtual_freq = Pow2[j] /\ Pow2[j] * Pow2[m] = MAX_FREQ

TickInv ==
    /\ FreqOK /\ ~fault
    /\ gap # NoGap => virtual_freq # 0 /\ gap = clk % Divisor
    /\ period # NoGap => virtual_freq # 0 /\ period = Divisor

(* The divisor of the handler is the exact quotient.                       *)
LEMMA DivisorIs ==
    ASSUME FreqOK, virtual_freq # 0
    PROVE  Divisor \in Nat \ {0} /\ virtual_freq \in Nat \ {0} /\ Divisor * virtual_freq = MAX_FREQ
  <1>1. PICK j \in 0 .. BITS - 2, m \in Nat :
             virtual_freq = Pow2[j] /\ Pow2[j] * Pow2[m] = MAX_FREQ
    BY DEF FreqOK
  <1>2. j \in Nat
    BY <1>1
  <1>3. \A a, b \in Nat \ {0} : (a * b) \div a = b /\ a * b = b * a
    OBVIOUS
  <1>4. MAX_FREQ \div virtual_freq = Pow2[m] /\ Pow2[m] * virtual_freq = MAX_FREQ
    BY <1>1, <1>2, <1>3, Pow2Positive
  <1>5. Divisor = Pow2[m]
    BY <1>1, <1>2, <1>4, Pow2Positive DEF Divisor, Quotient
  <1> QED
    BY <1>1, <1>2, <1>4, <1>5, Pow2Positive

(* What rtc_write accepts, the least word aside, is 0 or a power of 2 that *)
(* divides MAX_FREQ.                                                       *)
LEMMA AcceptsIs ==
    ASSUME NEW f \in Frequencies, Accepts(f), -Pow2[BITS - 1] \notin Frequencies
    PROVE  f = 0 \/ \E j \in 0 .. BITS - 2, m \in Nat : f = Pow2[j] /\ Pow2[j] * Pow2[m] = MAX_FREQ
  <1> DEFINE P == Pow2[BITS - 1]
  <1>0. BITS \in Nat \ {0}
    BY RtcAssumption, Zenon
  <1>1. BITS \in Nat \ {0} /\ BITS - 1 \in Nat
    BY <1>0
  <1>2. P \in Nat \ {0} /\ Pow2[BITS] = 2 * P
    BY <1>1, Pow2Step, Pow2Positive
  <1>3. f \in -P .. P - 1 /\ f # -P
    BY RtcAssumption, Zenon
  <1>4. PICK top \in 0 .. BITS - 2 : MAX_FREQ = Pow2[top]
    BY RtcAssumption, Zenon
  <1>5. top \in Nat
    BY <1>4
  <1>6. SUFFICES ASSUME f # 0
                 PROVE  \E j \in 0 .. BITS - 2, m \in Nat : f = Pow2[j] /\ Pow2[j] * Pow2[m] = MAX_FREQ
    OBVIOUS
  <1>7. f % (2 * P) = IF f < 0 THEN f + 2 * P ELSE f
    <2> HIDE DEF P
    <2> QED
      BY <1>2, <1>3
  <1>8. PICK k \in 0 .. BITS - 1 : f % (2 * P) = Pow2[k]
    <2>1. f % (2 * P) # 0
      <3> HIDE DEF P
      <3> QED
        BY <1>2, <1>3, <1>6, <1>7
    <2> QED
      BY <1>2, <2>1 DEF Accepts, OneBit
  <1>9. k \in Nat
    BY <1>8
  <1>10. ~(f < 0)
    <2> SUFFICES ASSUME f < 0 PROVE FALSE
      OBVIOUS
    <2>1. P <= Pow2[k] /\ Pow2[k] # P
      <3> HIDE DEF P
      <3> QED
        BY <1>2, <1>3, <1>7, <1>8
    <2>2. BITS - 1 <= k
      BY <1>1, <1>9, <2>1, Pow2Divides
    <2>3. k = BITS - 1
      BY <1>1, <1>8, <2>2
    <2> QED
      BY <2>1, <2>3
  <1>11. f = Pow2[k] /\ f < P
    <2> HIDE DEF P
    <2> QED
      BY <1>2, <1>3, <1>7, <1>8, <1>10
  <1>12. k \in 0 .. BITS - 2
    <2>1. k # BITS - 1
      BY <1>2, <1>11
    <2> QED
      BY <1>1, <1>8, <2>1
  <1>13. Pow2[k] * Pow2[top - k] = MAX_FREQ /\ top - k \in Nat
    <2>1. Pow2[k] <= Pow2[top]
      BY <1>4, <1>11 DEF Accepts
    <2>2. k <= top /\ Pow2[k] * Pow2[top - k] = Pow2[top]
      BY <1>5, <1>9, <2>1, Pow2Divides
    <2> QED
      BY <1>4, <1>5, <1>9, <2>2
  <1> QED
    BY <1>11, <1>12, <1>13

(* The driver starts at a frequency that divides MAX_FREQ.                 *)
LEMMA TicksInit == Init => TickInv
  <1> SUFFICES ASSUME Init PROVE TickInv
    OBVIOUS
  <1>1. PICK j \in 0 .. BITS - 2 : DEF_FREQ = Pow2[j]
    BY RtcAssumption, Zenon
  <1>2. PICK top \in 0 .. BITS - 2 : MAX_FREQ = Pow2[top]
    BY RtcAssumption, Zenon
  <1>3. DEF_FREQ <= MAX_FREQ
    BY RtcAssumption, Zenon
  <1>4. j \in Nat /\ top \in Nat
    BY <1>1, <1>2
  <1>5. top - j \in Nat /\ Pow2[j] * Pow2[top - j] = MAX_FREQ
    <2>1. j <= top /\ Pow2[j] * Pow2[top - j] = Pow2[top]
      BY <1>1, <1>2, <1>3, <1>4, Pow2Divides
    <2> QED
      BY <1>2, <1>4, <2>1
  <1>6. FreqOK
    BY <1>1, <1>5 DEF Init, FreqOK
  <1> QED
    BY <1>6 DEF Init, TickInv

(* The driver's steps keep the ticks even.                                 *)
LEMMA TicksStep ==
    ASSUME TypeOK, TickInv, -Pow2[BITS - 1] \notin Frequencies,
           Handler \/ Program \/ (\E p \in Procs : Switch(p)) \/ UNCHANGED vars
    PROVE  TickInv'
  <1>1. ASSUME UNCHANGED <<clk, virtual_freq, gap, period, fault>> PROVE TickInv'
    BY <1>1 DEF TickInv, FreqOK, Divisor
  <1>2. CASE Handler
    <2> DEFINE d == Divisor
    <2>0. virtual_freq' = virtual_freq /\ Divisor' = d /\ FreqOK'
      BY <1>2 DEF Handler, Divisor, TickInv, FreqOK
    <2>1. CASE virtual_freq = 0
      <3>1. fault' = FALSE /\ gap' = NoGap /\ period' = period /\ period = NoGap
        BY <1>2, <2>1, Zenon DEF Handler, TickInv
      <3> QED
        BY <2>0, <3>1 DEF TickInv
    <2>2. CASE virtual_freq # 0
      <3>1. d \in Nat \ {0} /\ virtual_freq \in Nat \ {0} /\ d * virtual_freq = MAX_FREQ
        BY <2>2, DivisorIs DEF TickInv
      <3> HIDE DEF d
      <3>2. clk \in Nat /\ clk \in 0 .. d * virtual_freq - 1
        BY <3>1 DEF TypeOK
      <3>3. NextClk % d = IF (clk % d) + 1 = d THEN 0 ELSE (clk % d) + 1
        <4>1. ((clk + 1) % (d * virtual_freq)) % d = (clk + 1) % d
          BY <3>1, <3>2, CountsRound
        <4>2. (clk + 1) % d = IF (clk % d) + 1 = d THEN 0 ELSE (clk % d) + 1
          BY <3>1, <3>2, Counts, Zenon
        <4> QED
          BY <3>1, <4>1, <4>2 DEF NextClk
      <3>4. ~fault' /\ clk' = NextClk /\ clk % d \in Nat
        <4>1. clk % d \in Nat
          BY <3>1, <3>2
        <4>2. fault' = (virtual_freq # 0 /\ d = 0) /\ clk' = NextClk
          BY <1>2 DEF Handler, d
        <4> QED
          BY <3>1, <4>1, <4>2, Zenon
      <3>5. gap # NoGap => gap = clk % d
        BY DEF TickInv, d
      <3>6. period # NoGap => period = d
        BY DEF TickInv, d
      <3>7. CASE NextClk % d = 0
        <4>1. period' = (IF gap = NoGap THEN NoGap ELSE gap + 1) /\ gap' = 0
          BY <1>2, <2>2, <3>1, <3>7 DEF Handler, d
        <4>2. gap' = clk' % d
          BY <3>4, <3>7, <4>1
        <4>3. period' # NoGap => period' = d
          BY <3>3, <3>4, <3>5, <3>7, <4>1
        <4> QED
          BY <2>0, <2>2, <3>4, <4>2, <4>3 DEF TickInv
      <3>8. CASE NextClk % d # 0
        <4>1. gap' = (IF gap = NoGap THEN NoGap ELSE gap + 1) /\ period' = period
          BY <1>2, <2>2, <3>1, <3>8 DEF Handler, d
        <4>2. gap' # NoGap => gap' = clk' % d
          BY <3>3, <3>4, <3>5, <3>8, <4>1
        <4> QED
          BY <2>0, <2>2, <3>4, <3>6, <4>1, <4>2 DEF TickInv
      <3> QED
        BY <3>7, <3>8
    <2> QED
      BY <2>1, <2>2
  <1>3. ASSUME NEW f \in Frequencies, Write(f) PROVE TickInv'
    <2>1. FreqOK'
      BY <1>3, AcceptsIs DEF Write, FreqOK
    <2> QED
      BY <1>3, <2>1 DEF Write, TickInv
  <1>4. CASE Read \/ Spin \/ Return \/ (\E p \in Procs : Switch(p)) \/ UNCHANGED vars
    BY <1>1, <1>4 DEF Read, Spin, Return, Switch, vars
  <1> QED
    BY <1>2, <1>3, <1>4 DEF Program

(* So it holds at every moment of the composed system.                     *)
LEMMA TicksAlways ==
    ASSUME -Pow2[BITS - 1] \notin Frequencies
    PROVE  ClockSpec => [](TypeOK /\ TickInv)
  <1>1. TypeOK /\ TickInv /\ [ClockNext]_clockVars => TickInv'
    <2> SUFFICES ASSUME TypeOK, TickInv, [ClockNext]_clockVars PROVE TickInv'
      OBVIOUS
    <2>1. Handler \/ Program \/ (\E p \in Procs : Switch(p)) \/ UNCHANGED vars
      BY DEF ClockNext, Tick, Key, Run, clockVars
    <2> QED
      BY <2>1, TicksStep
  <1>2. ClockInit => TickInv
    BY TicksInit DEF ClockInit
  <1> QED
    BY <1>1, <1>2, ClockTypes, PTL DEF ClockSpec, ClockTypeOK

(* For every width of words and every MAX_FREQ that is a power of 2,       *)
(* virtual interrupts at an unchanged frequency come exactly               *)
(* MAX_FREQ / frequency ticks apart, whatever programs and terminals do in *)
(* between, if no program passes the least word to rtc_write.              *)
THEOREM TicksEven ==
    ASSUME -Pow2[BITS - 1] \notin Frequencies
    PROVE  ClockSpec => []EvenTicks
  <1>1. TypeOK /\ TickInv => EvenTicks
    BY DivisorIs DEF TickInv, EvenTicks
  <1> QED
    BY <1>1, TicksAlways, PTL

(* Under the same condition the frequency is always 0 or a power of 2, and *)
(* rtc_handler never divides by 0.                                         *)
THEOREM FrequencyStaysValid ==
    ASSUME -Pow2[BITS - 1] \notin Frequencies
    PROVE  ClockSpec => []FrequencyValid
  <1>1. TickInv => FrequencyValid
    BY DEF TickInv, FreqOK, FrequencyValid
  <1> QED
    BY <1>1, TicksAlways, PTL

-----------------------------------------------------------------------------
(* The buffer of grep.                                                     *)

(* While it scans, what is left of the buffer begins in it; a new line     *)
(* begins where there are bytes, unless it is the first.                   *)
BufferInv ==
    /\ last \in 0 .. BUFSIZE /\ line_start \in Nat
    /\ gpc = "scan" => line_start = 0 \/ line_start < last
    /\ gpc \in {"dir", "read"} => last < BUFSIZE
    /\ gpc = "edit" => last = 0

GrepInv ==
    /\ files \in Seq(Texts \cup {Unopenable})
    /\ fno \in Nat /\ (gpc \in {"read", "scan"} => fno \in 1 .. Len(files))
    /\ pos \in Nat /\ (gpc \in {"read", "scan"} => pos <= Len(files[fno]))
    /\ gpc \in {"edit", "dir", "read", "scan", "end"}
    /\ gpc \in {"edit", "dir"} => fno <= Len(files)
    /\ BufferInv

(* The first end of a line, or the end of the bytes, exists.               *)
LEMMA LineEnds ==
    ASSUME line_start \in Nat, last \in Nat, line_start <= last
    PROVE  /\ line_end \in line_start .. last
           /\ line_end = last \/ data[line_end] = EOL
           /\ \A i \in line_start .. line_end - 1 : data[i] # EOL
  <1> DEFINE T == {e \in line_start .. last : e = last \/ data[e] = EOL}
  <1>1. last \in T /\ T \in SUBSET Nat
    OBVIOUS
  <1>2. PICK e \in T : \A y \in T : e <= y
    <2> HIDE DEF T
    <2> QED
      BY <1>1, LeastOf
  <1>4. e \in line_start .. last /\ (e = last \/ data[e] = EOL)
    OBVIOUS
  <1>5. \A i \in line_start .. e - 1 : data[i] # EOL
    <2> SUFFICES ASSUME NEW i \in line_start .. e - 1, data[i] = EOL PROVE FALSE
      OBVIOUS
    <2>1. i \in T /\ i < e
      BY <1>4
    <2> QED
      BY <1>2, <1>4, <2>1
  <1> HIDE DEF T
  <1>6. \E x \in line_start .. last :
          /\ x = last \/ data[x] = EOL
          /\ \A i \in line_start .. x - 1 : data[i] # EOL
    BY <1>4, <1>5
  <1> QED
    BY <1>6, Zenon DEF line_end

(* Every file has a length.                                                *)
LEMMA TextLength == \A x \in Texts \cup {Unopenable} : Len(x) \in Nat
  <1>1. Len(Unopenable) \in Nat
    BY DEF Unopenable
  <1>2. ASSUME NEW x \in Texts PROVE Len(x) \in Nat
    <2>1. PICK n \in 0 .. MAX_TEXT : x \in [1 .. n -> Signs \cup {EOL}]
      BY <1>2 DEF Texts
    <2>2. n \in Nat
      BY GrepAssumption
    <2>3. x \in Seq(Signs \cup {EOL})
      BY <2>1, <2>2
    <2> QED
      BY <2>3
  <1> QED
    BY <1>1, <1>2

(* Every step keeps the bounds of the buffer.                              *)
LEMMA GrepInvStep == GrepInv /\ [GrepNext]_gVars => GrepInv'
  <1> SUFFICES ASSUME GrepInv, [GrepNext]_gVars PROVE GrepInv'
    OBVIOUS
  <1> USE DEF GrepInv, BufferInv
  <1>0. BUFSIZE \in Nat \ {0}
    BY GrepAssumption
  <1>1. ASSUME NEW t \in Texts \cup {Unopenable}, Create(t) PROVE GrepInv'
    <2>1. files' \in Seq(Texts \cup {Unopenable})
      BY <1>1 DEF Create
    <2>2. Len(files') = Len(files) + 1
      BY <1>1 DEF Create
    <2> QED
      BY <1>1, <2>1, <2>2 DEF Create
  <1>2. CASE Begin
    BY <1>0, <1>2 DEF Begin
  <1>3. CASE NextFile
    <2>1. fno' \in Nat /\ last' = 0 /\ pos' = 0 /\ gpc' \in {"read", "end"}
      BY <1>3 DEF NextFile
    <2>2. gpc' = "read" => fno' \in 1 .. Len(files)
      BY <1>3 DEF NextFile
    <2>3. gpc' = "read" => 0 <= Len(files[fno'])
      <3>1. ASSUME gpc' = "read" PROVE files[fno'] \in Texts \cup {Unopenable}
        BY <2>2, <3>1
      <3> QED
        BY <3>1, TextLength
    <2> QED
      BY <1>0, <1>3, <2>1, <2>2, <2>3 DEF NextFile
  <1>4. CASE Chunk
    <2> DEFINE len == Len(files[fno])
               rest == len - pos
               n == IF rest < BUFSIZE - last THEN rest ELSE BUFSIZE - last
    <2>1. fno \in 1 .. Len(files)
      BY <1>4 DEF Chunk
    <2>2. files[fno] \in Texts \cup {Unopenable}
      BY <2>1
    <2>3. len \in Nat /\ pos <= len
      BY <1>4, <2>2, TextLength DEF Chunk
    <2>4. pos' = pos + n /\ last' = last + n /\ line_start' = 0 /\ gpc' = "scan"
      BY <1>4 DEF Chunk
    <2> HIDE DEF len
    <2>5. n \in Nat /\ n <= rest /\ n <= BUFSIZE - last
      BY <1>0, <2>3
    <2>6. pos' \in Nat /\ pos' <= len /\ last' \in 0 .. BUFSIZE
      BY <1>0, <2>3, <2>4, <2>5
    <2> QED
      BY <1>4, <2>1, <2>4, <2>6 DEF Chunk, len
  <1>5. CASE Carry
    <2>1. /\ gpc = "scan" /\ line_start # 0 /\ line_start < last
          /\ last' = last - line_start /\ gpc' = "read"
      BY <1>5 DEF Carry, Unfinished
    <2>2. last' \in 0 .. BUFSIZE /\ last' < BUFSIZE
      BY <1>0, <2>1
    <2> QED
      BY <1>5, <2>1, <2>2 DEF Carry
  <1>6. CASE Search
    <2>1. line_end \in line_start .. last
      BY <1>0, <1>6, LineEnds DEF Search
    <2>2. line_start' = line_end + 1 /\ UNCHANGED <<files, fno, pos>>
      BY <1>6 DEF Search
    <2>3. CASE line_end + 1 >= last
      BY <1>0, <1>6, <2>1, <2>2, <2>3 DEF Search
    <2>4. CASE ~(line_end + 1 >= last)
      BY <1>0, <1>6, <2>1, <2>2, <2>4 DEF Search
    <2> QED
      BY <2>3, <2>4
  <1>7. CASE UNCHANGED gVars
    BY <1>7 DEF gVars
  <1> QED
    BY <1>1, <1>2, <1>3, <1>4, <1>5, <1>6, <1>7 DEF GrepNext, Grep

(* For every size of the buffer, whatever the files hold and however long  *)
(* their lines are, do_one_file never asks for more bytes than are free,   *)
(* and never for none, which it would take for the end of the file.        *)
THEOREM ReadsIntoRoom == GrepSpec => []GrepReadsOn
  <1>1. GrepInit => GrepInv
    BY GrepAssumption DEF GrepInit, GrepInv, BufferInv
  <1>2. GrepInv => GrepReadsOn
    BY GrepAssumption DEF GrepInv, BufferInv, GrepReadsOn
  <1> QED
    BY <1>1, <1>2, GrepInvStep, PTL DEF GrepSpec

-----------------------------------------------------------------------------
(* What grep prints.                                                       *)

Chars == Signs \cup {EOL, EOS}

Fitting == \A n \in 1 .. Len(files) : Fits(files[n])

(* The bytes of the file that have been searched.                          *)
Done == pos - last + (IF gpc = "scan" THEN line_start ELSE 0)

(* The buffer holds the next bytes of the file; what has been searched     *)
(* are whole lines.                                                        *)
DataInv ==
    gpc \in {"read", "scan"} =>
        /\ data[BUFSIZE] # EOL
        /\ last <= pos
        /\ \A i \in 0 .. last - 1 :
              i >= Done - (pos - last) => data[i] = files[fno][pos - last + i + 1]
        /\ Done \in {0, Len(files[fno])} \/ files[fno][Done] = EOL
        /\ gpc = "scan" /\ (last < BUFSIZE \/ cnt = 0) => pos = Len(files[fno])

(* The hits of the first n files, those of file f that begin at p or       *)
(* before, and those found by now.                                         *)
HitsIn(n) == UNION {HitsOf(f) : f \in 1 .. n}

HitsTo(f, p) == {h \in HitsOf(f) : h[2][1] <= p}

SoFar ==
    HitsIn(IF gpc \in {"edit", "dir"} THEN fno ELSE fno - 1)
    \cup IF gpc \in {"read", "scan"} THEN HitsTo(fno, Done) ELSE {}

OutTypes ==
    data \in [0 .. BUFSIZE -> Chars] /\ out \in Seq(Nat \X Seq(Chars)) /\ cnt \in Nat

OutInv ==
    /\ OutTypes
    /\ gpc = "edit" => fno = 0 /\ out = <<>>
    /\ Fitting => DataInv /\ IsFiniteSet(SoFar) /\ HasPrinted(SoFar)

(* Between two ends of lines there is one line.                            *)
LEMMA NextLine ==
    ASSUME NEW T, Len(T) \in Nat, NEW p \in Nat, NEW q \in Nat, p < q, q <= Len(T) + 1,
           p = 0 \/ T[p] = EOL, q = Len(T) + 1 \/ T[q] = EOL,
           \A i \in p + 1 .. q - 1 : T[i] # EOL
    PROVE  /\ <<p + 1, q>> \in LineSpans(T)
           /\ \A k \in LineSpans(T) : p < k[1] /\ k[1] <= q => k = <<p + 1, q>>
  <1>1. <<p + 1, q>> \in LineSpans(T)
    BY DEF LineSpans
  <1>2. ASSUME NEW k \in LineSpans(T), p < k[1], k[1] <= q PROVE k = <<p + 1, q>>
    <2>1. /\ k \in (1 .. Len(T) + 1) \X (1 .. Len(T) + 1)
          /\ k[1] <= k[2]
          /\ k[1] = 1 \/ T[k[1] - 1] = EOL
          /\ k[2] = Len(T) + 1 \/ T[k[2]] = EOL
          /\ \A i \in k[1] .. k[2] - 1 : T[i] # EOL
      BY DEF LineSpans
    <2>2. k[1] \in 1 .. Len(T) + 1 /\ k[2] \in 1 .. Len(T) + 1 /\ k = <<k[1], k[2]>>
      BY <2>1
    <2>3. k[1] = p + 1
      <3>1. k[1] - 1 \in p + 1 .. q - 1 => T[k[1] - 1] # EOL
        OBVIOUS
      <3> QED
        BY <1>2, <2>1, <2>2, <3>1
    <2>4. ~(k[2] < q)
      <3>1. k[2] \in p + 1 .. q - 1 => T[k[2]] # EOL
        OBVIOUS
      <3> QED
        BY <2>1, <2>2, <2>3, <3>1
    <2>5. ~(k[2] > q)
      BY <1>2, <2>1, <2>2
    <2> QED
      BY <2>2, <2>3, <2>4, <2>5
  <1> QED
    BY <1>1, <1>2

(* In a file whose lines fit, bytes without an end of line fit.            *)
LEMMA LineLength ==
    ASSUME NEW T, Len(T) \in Nat, Fits(T), NEW p \in Nat, NEW r \in Nat, p <= r, r <= Len(T),
           p = 0 \/ T[p] = EOL, \A i \in p + 1 .. r : T[i] # EOL
    PROVE  r - p < BUFSIZE
  <1> DEFINE D == {i \in r + 1 .. Len(T) + 1 : i = Len(T) + 1 \/ T[i] = EOL}
  <1>1. D \in SUBSET Nat /\ Len(T) + 1 \in D
    OBVIOUS
  <1>2. PICK q \in D : \A j \in D : q <= j
    <2> HIDE DEF D
    <2> QED
      BY <1>1, LeastOf
  <1>3. q \in r + 1 .. Len(T) + 1 /\ (q = Len(T) + 1 \/ T[q] = EOL)
    BY <1>2
  <1>4. \A i \in p + 1 .. q - 1 : T[i] # EOL
    <2> SUFFICES ASSUME NEW i \in p + 1 .. q - 1, T[i] = EOL PROVE FALSE
      OBVIOUS
    <2>1. i \in r + 1 .. Len(T) + 1 /\ i < q
      BY <1>3
    <2>2. i \in D
      BY <2>1
    <2> QED
      BY <1>2, <1>3, <2>1, <2>2
  <1>5. <<p + 1, q>> \in LineSpans(T)
    BY <1>3, <1>4, NextLine
  <1>6. q - (p + 1) < BUFSIZE
    BY <1>5, Zenon DEF Fits
  <1> QED
    BY <1>3, <1>6, GrepAssumption

(* The list o is the lines hits of the files fs, in their order.           *)
Lists(o, fs, hits) ==
    /\ Len(o) = Cardinality(hits)
    /\ \A h \in hits : o[Cardinality({g \in hits : Earlier(g, h)}) + 1]
                          = <<h[1], LineAt(fs[h[1]], h[2])>>

(* A line that is later than all others is printed behind them.            *)
LEMMA OneMore ==
    ASSUME NEW S, NEW o \in Seq(S), NEW fs, NEW P, IsFiniteSet(P), Lists(o, fs, P),
           NEW h, <<h[1], LineAt(fs[h[1]], h[2])>> \in S,
           \A x \in P : Earlier(x, h) /\ ~Earlier(h, x) /\ ~Earlier(x, x), ~Earlier(h, h)
    PROVE  /\ IsFiniteSet(P \cup {h})
           /\ Lists(Append(o, <<h[1], LineAt(fs[h[1]], h[2])>>), fs, P \cup {h})
  <1> DEFINE v == <<h[1], LineAt(fs[h[1]], h[2])>>
             Before(x) == {g \in P : Earlier(g, x)}
  <1>1. h \notin P
    OBVIOUS
  <1>2. IsFiniteSet(P \cup {h}) /\ Cardinality(P \cup {h}) = Cardinality(P) + 1
    BY <1>1, FS_AddElement, Zenon
  <1>3. Cardinality(P) \in Nat /\ Len(o) = Cardinality(P)
    BY FS_CardinalityType DEF Lists
  <1> HIDE DEF v
  <1>4. Append(o, v) \in Seq(S) /\ Len(Append(o, v)) = Len(o) + 1 /\ Append(o, v)[Len(o) + 1] = v
    BY DEF v
  <1>5. \A i \in 1 .. Len(o) : Append(o, v)[i] = o[i]
    BY DEF v
  <1>6. {g \in P \cup {h} : Earlier(g, h)} = P
    OBVIOUS
  <1>7. ASSUME NEW x \in P PROVE {g \in P \cup {h} : Earlier(g, x)} = Before(x)
    OBVIOUS
  <1>8. ASSUME NEW x \in P PROVE Cardinality(Before(x)) + 1 \in 1 .. Len(o)
    <2>1. Before(x) \subseteq P /\ Before(x) # P
      BY Zenon
    <2>2. Cardinality(Before(x)) \in Nat /\ Cardinality(Before(x)) < Cardinality(P)
      <3> HIDE DEF Before
      <3> QED
        BY <1>3, <2>1, FS_Subset, FS_CardinalityType
    <2> QED
      BY <1>3, <2>2
  <1>9. ASSUME NEW x \in P
        PROVE  Append(o, v)[Cardinality({g \in P \cup {h} : Earlier(g, x)}) + 1]
                  = <<x[1], LineAt(fs[x[1]], x[2])>>
    <2>1. o[Cardinality(Before(x)) + 1] = <<x[1], LineAt(fs[x[1]], x[2])>>
      BY DEF Lists
    <2> HIDE DEF Before
    <2> QED
      BY <1>5, <1>7, <1>8, <2>1, Zenon
  <1>10. Append(o, v)[Cardinality({g \in P \cup {h} : Earlier(g, h)}) + 1] = v
    BY <1>3, <1>4, <1>6, Zenon
  <1>11. Lists(Append(o, v), fs, P \cup {h})
    BY <1>2, <1>3, <1>4, <1>9, <1>10, Zenon DEF Lists, v
  <1> QED
    BY <1>2, <1>11 DEF v

(* Files are sequences.                                                    *)
LEMMA FileText ==
    ASSUME GrepInv, NEW f \in 1 .. Len(files)
    PROVE  files[f] \in Seq(Chars) /\ Len(files[f]) \in Nat
  <1>1. files[f] \in Texts \cup {Unopenable}
    BY DEF GrepInv
  <1>2. Unopenable \in Seq(Chars)
    BY DEF Unopenable, Chars
  <1>3. ASSUME NEW x \in Texts PROVE x \in Seq(Chars)
    <2>1. PICK n \in 0 .. MAX_TEXT : x \in [1 .. n -> Signs \cup {EOL}]
      BY <1>3 DEF Texts
    <2>2. n \in Nat
      BY GrepAssumption
    <2>3. x \in [1 .. n -> Chars]
      BY <2>1 DEF Chars
    <2> QED
      BY <2>2, <2>3
  <1>4. files[f] \in Seq(Chars)
    BY <1>1, <1>2, <1>3
  <1> QED
    BY <1>4

(* What a hit is: a line of its file that is not empty.                    *)
LEMMA HitIs ==
    ASSUME NEW f, NEW h \in HitsOf(f), Len(files[f]) \in Nat
    PROVE  /\ h = <<f, h[2]>> /\ h[1] = f
           /\ h[2] \in LineSpans(files[f]) /\ Matches(LineAt(files[f], h[2]))
           /\ h[2][1] \in 1 .. Len(files[f])
  <1>1. PICK l \in LineSpans(files[f]) : Matches(LineAt(files[f], l)) /\ h = <<f, l>>
    BY DEF HitsOf
  <1>2. h[1] = f /\ h[2] = l
    BY <1>1
  <1>3. /\ l[1] \in 1 .. Len(files[f]) + 1 /\ l[2] \in 1 .. Len(files[f]) + 1
        /\ l[1] <= l[2]
    BY DEF LineSpans
  <1>4. ASSUME l[1] = Len(files[f]) + 1 PROVE FALSE
    <2>1. l[2] - 1 = Len(files[f]) /\ Len(files[f]) < l[1]
      BY <1>3, <1>4
    <2>2. Len(LineAt(files[f], l)) = 0
      BY <1>3, <2>1 DEF LineAt
    <2>3. PICK check \in 1 .. Len(LineAt(files[f], l)) : TRUE
      BY <1>1 DEF Matches
    <2> QED
      BY <2>2, <2>3
  <1> QED
    BY <1>1, <1>2, <1>3, <1>4

(* The hits depend on the files and the pattern only.                      *)
LEMMA HitsFixed ==
    ASSUME files' = files, search' = search
    PROVE  /\ Fitting' = Fitting /\ \A f : HitsOf(f)' = HitsOf(f)
           /\ \A f, p : HitsTo(f, p)' = HitsTo(f, p)
           /\ \A n : HitsIn(n)' = HitsIn(n)
  <1>1. Fitting' = Fitting
    BY DEF Fitting
  <1>2. \A line : Matches(line)' = Matches(line)
    BY DEF Matches, MatchAt
  <1>3. ASSUME NEW f PROVE HitsOf(f)' = HitsOf(f)
    BY <1>2 DEF HitsOf, Matches, MatchAt
  <1>4. ASSUME NEW f, NEW p PROVE HitsTo(f, p)' = HitsTo(f, p)
    BY <1>3 DEF HitsTo
  <1>5. ASSUME NEW n PROVE HitsIn(n)' = HitsIn(n)
    BY <1>3 DEF HitsIn
  <1> QED
    BY <1>1, <1>3, <1>4, <1>5

(* So what was found and printed stays so while neither changes.           *)
LEMMA OutSame ==
    ASSUME files' = files, search' = search, out' = out, SoFar' = SoFar,
           IsFiniteSet(SoFar), HasPrinted(SoFar)
    PROVE  IsFiniteSet(SoFar)' /\ HasPrinted(SoFar)'
  BY DEF HasPrinted

(* Opening the next file.                                                  *)
LEMMA NextFilePrints ==
    ASSUME GrepInv, OutInv, NextFile, EOL \notin Garbage
    PROVE  OutInv'
  <1>1. /\ files' = files /\ search' = search /\ out' = out /\ cnt' = cnt
        /\ gpc = "dir" /\ gpc' \in {"read", "end"} /\ fno' = fno + 1
        /\ pos' = 0 /\ last' = 0
    BY DEF NextFile
  <1>2. BUFSIZE \in Nat \ {0} /\ fno \in Nat
    BY GrepAssumption DEF GrepInv
  <1>3. PICK g \in Garbage : data' = [i \in 0 .. BUFSIZE |-> g]
    BY DEF NextFile
  <1>4. g \in Chars /\ g # EOL
    BY GrepAssumption DEF Chars
  <1>5. OutTypes'
    BY <1>1, <1>3, <1>4 DEF OutInv, OutTypes
  <1>6. SUFFICES ASSUME Fitting' PROVE DataInv' /\ IsFiniteSet(SoFar)' /\ HasPrinted(SoFar)'
    BY <1>1, <1>5 DEF OutInv
  <1>7. /\ Fitting /\ \A f : HitsOf(f)' = HitsOf(f)
        /\ \A n : HitsIn(n)' = HitsIn(n)
    BY <1>1, <1>6, HitsFixed, Zenon
  <1>8. DataInv'
    BY <1>1, <1>2, <1>3, <1>4 DEF DataInv, Done
  <1>9. ASSUME gpc' = "read", NEW h \in HitsOf(fno + 1), h[2][1] <= 0 PROVE FALSE
    <2>1. fno + 1 \in 1 .. Len(files)
      BY <1>1, <1>9, GrepInvStep DEF GrepNext, Grep, GrepInv
    <2>2. Len(files[fno + 1]) \in Nat
      BY <2>1, FileText
    <2> QED
      BY <1>9, <2>2, HitIs, SMTT(30)
  <1>10. SoFar' = SoFar
    <2>1. SoFar = HitsIn(fno)
      BY <1>1 DEF SoFar
    <2>2. Done' = 0
      BY <1>1 DEF Done
    <2>3. gpc' = "read" => HitsTo(fno, Done)' = {}
      BY <1>1, <1>7, <1>9, <2>2 DEF HitsTo
    <2>4. fno' - 1 = fno /\ gpc' \notin {"edit", "dir", "scan"}
      BY <1>1, <1>2
    <2>5. SoFar' = HitsIn(fno - 1)' \cup IF gpc' = "read" THEN HitsTo(fno, Done)' ELSE {}
      BY <2>4 DEF SoFar
    <2>6. HitsIn(fno - 1)' = HitsIn(fno)
      BY <1>7, <2>4
    <2> QED
      BY <2>1, <2>3, <2>5, <2>6
  <1> QED
    BY <1>1, <1>7, <1>8, <1>10, OutSame DEF OutInv

(* A read.                                                                 *)
LEMMA ChunkPrints ==
    ASSUME GrepInv, OutInv, Chunk
    PROVE  OutInv'
  <1> DEFINE T == files[fno]
             rest == Len(T) - pos
             n == IF rest < BUFSIZE - last THEN rest ELSE BUFSIZE - last
  <1>1. /\ files' = files /\ search' = search /\ out' = out /\ fno' = fno
        /\ gpc = "read" /\ gpc' = "scan" /\ line_start' = 0
        /\ cnt' = n /\ pos' = pos + n /\ last' = last + n
        /\ data' = [i \in 0 .. BUFSIZE |->
                      IF i \in last .. last + n - 1 THEN T[pos + i - last + 1] ELSE data[i]]
    BY DEF Chunk
  <1>2. /\ BUFSIZE \in Nat \ {0} /\ fno \in 1 .. Len(files) /\ pos \in Nat /\ last \in Nat
        /\ last < BUFSIZE /\ pos <= Len(T)
    BY <1>1, GrepAssumption DEF GrepInv, BufferInv
  <1>3. T \in Seq(Chars) /\ Len(T) \in Nat
    BY <1>2, FileText
  <1> HIDE DEF T
  <1>4. n \in Nat /\ n <= rest /\ n <= BUFSIZE - last /\ (n < BUFSIZE - last \/ n = 0 => n = rest)
    BY <1>2, <1>3
  <1> HIDE DEF n
  <1>5. OutTypes'
    <2>1. \A i \in 0 .. BUFSIZE : i \in last .. last + n - 1 => T[pos + i - last + 1] \in Chars
      <3> SUFFICES ASSUME NEW i \in last .. last + n - 1 PROVE T[pos + i - last + 1] \in Chars
        OBVIOUS
      <3>1. pos + i - last + 1 \in 1 .. Len(T)
        BY <1>2, <1>3, <1>4
      <3> QED
        BY <1>3, <3>1
    <2> QED
      BY <1>1, <1>4, <2>1 DEF OutInv, OutTypes
  <1>6. SUFFICES ASSUME Fitting' PROVE DataInv' /\ IsFiniteSet(SoFar)' /\ HasPrinted(SoFar)'
    BY <1>1, <1>5 DEF OutInv
  <1>7. /\ Fitting /\ \A f : HitsOf(f)' = HitsOf(f)
        /\ \A j : HitsIn(j)' = HitsIn(j)
    BY <1>1, <1>6, HitsFixed, Zenon
  <1>8. /\ data[BUFSIZE] # EOL /\ last <= pos
        /\ \A i \in 0 .. last - 1 : data[i] = T[pos - last + i + 1]
        /\ pos - last \in {0, Len(T)} \/ T[pos - last] = EOL
    BY <1>1, <1>2, <1>7 DEF OutInv, DataInv, Done, T
  <1>9. Done = pos - last /\ Done' = pos - last /\ pos' - last' = pos - last
    BY <1>1, <1>2, <1>4 DEF Done
  <1>10. DataInv'
    <2>1. data'[BUFSIZE] # EOL /\ last' <= pos'
      <3>1. BUFSIZE \in 0 .. BUFSIZE /\ BUFSIZE \notin last .. last + n - 1
        BY <1>2, <1>4
      <3> QED
        BY <1>1, <1>2, <1>4, <1>8, <3>1
    <2>2. ASSUME NEW i \in 0 .. last' - 1 PROVE data'[i] = T[pos - last + i + 1]
      <3>1. i \in 0 .. BUFSIZE
        BY <1>1, <1>2, <1>4, SMTT(30)
      <3>2. CASE i < last
        BY <1>1, <1>2, <1>8, <3>1, <3>2
      <3>3. CASE ~(i < last)
        <4>1. i \in last .. last + n - 1 /\ pos + i - last + 1 = pos - last + i + 1
          BY <1>1, <1>2, <1>4, <3>3
        <4> QED
          BY <1>1, <3>1, <4>1
      <3> QED
        BY <3>2, <3>3
    <2>3. last' < BUFSIZE \/ cnt' = 0 => pos' = Len(T)
      BY <1>1, <1>2, <1>3, <1>4
    <2>4. T = files'[fno']
      BY <1>1 DEF T
    <2> QED
      BY <1>1, <1>8, <1>9, <2>1, <2>2, <2>3, <2>4, Zenon DEF DataInv
  <1>11. SoFar' = SoFar
    BY <1>1, <1>7, <1>9, Zenon DEF SoFar, HitsTo
  <1> QED
    BY <1>1, <1>7, <1>10, <1>11, OutSame DEF OutInv

(* The line found next, T being the file: it ends at an end of line or at  *)
(* the end of the file.                                                    *)
LEMMA LineFound ==
    ASSUME GrepInv, OutInv, Fitting, gpc = "scan", NEW T, T = files[fno]
    PROVE  /\ T \in Seq(Chars) /\ Len(T) \in Nat /\ pos \in 0 .. Len(T)
           /\ BUFSIZE \in Nat \ {0} /\ last \in 0 .. BUFSIZE /\ last <= pos
           /\ line_start \in Nat /\ line_end \in line_start .. last
           /\ \A i \in line_start .. last - 1 : data[i] = T[pos - last + i + 1]
           /\ line_end < last => T[pos - last + line_end + 1] = EOL
           /\ \A i \in pos - last + line_start + 1 .. pos - last + line_end : T[i] # EOL
           /\ line_end = last /\ ~Unfinished => pos = Len(T)
  <1>1. /\ fno \in 1 .. Len(files) /\ pos \in Nat /\ last \in 0 .. BUFSIZE /\ line_start \in Nat
        /\ line_start = 0 \/ line_start < last
        /\ pos <= Len(T) /\ BUFSIZE \in Nat \ {0}
    BY GrepAssumption DEF GrepInv, BufferInv
  <1>2. T \in Seq(Chars) /\ Len(T) \in Nat
    BY <1>1, FileText
  <1>3. /\ line_end \in line_start .. last
        /\ line_end = last \/ data[line_end] = EOL
        /\ \A i \in line_start .. line_end - 1 : data[i] # EOL
    BY <1>1, LineEnds
  <1>4. Done = pos - last + line_start
    BY DEF Done
  <1>5. /\ data[BUFSIZE] # EOL /\ last <= pos
        /\ \A i \in 0 .. last - 1 : i >= Done - (pos - last) => data[i] = T[pos - last + i + 1]
        /\ Done \in {0, Len(T)} \/ T[Done] = EOL
        /\ last < BUFSIZE \/ cnt = 0 => pos = Len(T)
    BY DEF OutInv, DataInv
  <1>6. \A i \in line_start .. last - 1 : data[i] = T[pos - last + i + 1]
    BY <1>1, <1>4, <1>5
  <1>7. line_end < last => T[pos - last + line_end + 1] = EOL
    BY <1>1, <1>3, <1>6, SMTT(30)
  <1>8. \A i \in pos - last + line_start + 1 .. pos - last + line_end : T[i] # EOL
    <2> SUFFICES ASSUME NEW i \in pos - last + line_start + 1 .. pos - last + line_end
                 PROVE  T[i] # EOL
      OBVIOUS
    <2> DEFINE j == i - (pos - last) - 1
    <2>1. /\ j \in line_start .. line_end - 1 /\ j \in line_start .. last - 1
          /\ pos - last + j + 1 = i
      BY <1>1, <1>3
    <2> HIDE DEF j
    <2> QED
      BY <1>3, <1>6, <2>1
  <1>9. ASSUME line_end = last, ~Unfinished, pos # Len(T) PROVE FALSE
    <2>1. last = BUFSIZE /\ cnt # 0
      BY <1>1, <1>5, <1>9
    <2>2. line_start = 0
      BY <1>5, <1>9, <2>1 DEF Unfinished
    <2>3. Done = pos - last /\ Done \in Nat /\ Done <= pos /\ Done # Len(T)
      BY <1>1, <1>2, <1>4, <1>5, <2>1, <2>2
    <2>4. \A i \in Done + 1 .. pos : T[i] # EOL
      BY <1>1, <1>8, <1>9, <2>2, <2>3
    <2>5. Fits(T)
      BY <1>1 DEF Fitting
    <2>6. pos - Done < BUFSIZE
      BY <1>1, <1>2, <1>5, <2>3, <2>4, <2>5, LineLength, Zenon
    <2> QED
      BY <1>1, <2>1, <2>3, <2>6
  <1> QED
    BY <1>1, <1>2, <1>3, <1>5, <1>6, <1>7, <1>8, <1>9

(* The beginning of a line moved to the front of the buffer.               *)
LEMMA CarryPrints ==
    ASSUME GrepInv, OutInv, Carry
    PROVE  OutInv'
  <1> DEFINE T == files[fno]
             k == line_end - line_start
  <1>1. /\ files' = files /\ search' = search /\ out' = out /\ fno' = fno
        /\ gpc = "scan" /\ gpc' = "read" /\ line_start # 0 /\ data[line_end] # EOL
        /\ cnt' = cnt /\ pos' = pos /\ last' = last - line_start
        /\ data' = [i \in 0 .. BUFSIZE |->
                      IF i < k THEN data[line_start + i]
                      ELSE IF i \in {k, line_end} THEN EOS ELSE data[i]]
    BY DEF Carry, Unfinished
  <1>2. /\ pos \in Nat /\ last \in 0 .. BUFSIZE /\ line_start \in Nat /\ line_start < last
        /\ BUFSIZE \in Nat
    BY <1>1, GrepAssumption DEF GrepInv, BufferInv
  <1>3. line_end = last /\ k = last'
    BY <1>1, <1>2, LineEnds
  <1> HIDE DEF k
  <1>4. OutTypes'
    <2>1. \A i \in 0 .. BUFSIZE : i < k => line_start + i \in 0 .. BUFSIZE
      BY <1>1, <1>2, <1>3
    <2>2. EOS \in Chars /\ data \in [0 .. BUFSIZE -> Chars]
      BY DEF Chars, OutInv, OutTypes
    <2>3. data' \in [0 .. BUFSIZE -> Chars]
      BY <1>1, <2>1, <2>2
    <2> QED
      BY <1>1, <2>3 DEF OutInv, OutTypes
  <1>5. SUFFICES ASSUME Fitting' PROVE DataInv' /\ IsFiniteSet(SoFar)' /\ HasPrinted(SoFar)'
    BY <1>1, <1>4 DEF OutInv
  <1>6. /\ Fitting /\ \A f : HitsOf(f)' = HitsOf(f)
        /\ \A n : HitsIn(n)' = HitsIn(n)
    BY <1>1, <1>5, HitsFixed, Zenon
  <1>7. /\ last <= pos /\ \A i \in line_start .. last - 1 : data[i] = T[pos - last + i + 1]
    BY <1>1, <1>6, LineFound
  <1>8. /\ data[BUFSIZE] # EOL
        /\ Done \in {0, Len(T)} \/ T[Done] = EOL
    BY <1>1, <1>6, Zenon DEF OutInv, DataInv
  <1> HIDE DEF T
  <1>9. Done = pos - last + line_start /\ Done' = Done /\ pos' - last' = Done
    BY <1>1, <1>2 DEF Done
  <1>10. DataInv'
    <2>1. data'[BUFSIZE] # EOL
      <3>1. BUFSIZE \in 0 .. BUFSIZE /\ ~(BUFSIZE < k) /\ EOS # EOL
        BY <1>1, <1>2, <1>3 DEF EOS, EOL
      <3> QED
        BY <1>1, <1>8, <3>1
    <2>2. ASSUME NEW i \in 0 .. last' - 1 PROVE data'[i] = T[Done + i + 1]
      <3>1. /\ i \in 0 .. BUFSIZE /\ i < k /\ line_start + i \in line_start .. last - 1
            /\ pos - last + (line_start + i) + 1 = Done + i + 1
        BY <1>1, <1>2, <1>3, <1>9
      <3>2. data'[i] = data[line_start + i]
        BY <1>1, <3>1
      <3> QED
        BY <1>7, <3>1, <3>2
    <2>3. T = files'[fno'] /\ last' <= pos'
      BY <1>1, <1>2, <1>7 DEF T
    <2> QED
      BY <1>1, <1>8, <1>9, <2>1, <2>2, <2>3, Zenon DEF DataInv
  <1>11. SoFar' = SoFar
    BY <1>1, <1>6, <1>9 DEF SoFar, HitsTo
  <1> QED
    BY <1>1, <1>6, <1>10, <1>11, OutSame DEF OutInv

(* After a line has been searched, the buffer holds what follows it.       *)
LEMMA SearchData ==
    ASSUME GrepInv, OutInv, Search
    PROVE  OutTypes' /\ (Fitting => DataInv')
  <1> DEFINE T == files[fno]
  <1>1. /\ files' = files /\ fno' = fno /\ cnt' = cnt /\ pos' = pos
        /\ gpc = "scan" /\ ~Unfinished /\ line_start' = line_end + 1
        /\ data' = [data EXCEPT ![line_end] = EOS]
        /\ out' = IF Matches(Line) THEN Append(out, <<fno, Line>>) ELSE out
        /\ line_end + 1 >= last => last' = 0 /\ gpc' \in {"dir", "read"}
        /\ ~(line_end + 1 >= last) => last' = last /\ gpc' = "scan"
    BY DEF Search
  <1>2. /\ last \in 0 .. BUFSIZE /\ line_start \in Nat /\ line_end \in line_start .. last
        /\ BUFSIZE \in Nat /\ fno \in Nat
    BY <1>1, GrepAssumption, LineEnds DEF GrepInv, BufferInv
  <1>3. EOS \in Chars /\ EOS # EOL
    BY DEF Chars, EOS, EOL
  <1>4. data \in [0 .. BUFSIZE -> Chars] /\ out \in Seq(Nat \X Seq(Chars)) /\ cnt \in Nat
    BY DEF OutInv, OutTypes
  <1>5. OutTypes'
    <2>1. data' \in [0 .. BUFSIZE -> Chars]
      BY <1>1, <1>3, <1>4, Zenon
    <2>2. line_end - line_start \in Nat
      BY <1>2
    <2>3. Line \in [1 .. line_end - line_start -> Chars]
      BY <1>2, <1>4 DEF Line
    <2>4. Line \in Seq(Chars)
      BY <2>2, <2>3
    <2>5. out' \in Seq(Nat \X Seq(Chars))
      <3>1. <<fno, Line>> \in Nat \X Seq(Chars)
        BY <1>2, <2>4
      <3> HIDE DEF T
      <3> QED
        BY <1>1, <1>4, <3>1
    <2> QED
      BY <1>1, <1>4, <2>1, <2>5 DEF OutTypes
  <1>6. ASSUME Fitting PROVE DataInv'
    <2>1. /\ Len(T) \in Nat /\ pos \in 0 .. Len(T) /\ last <= pos
          /\ \A i \in line_start .. last - 1 : data[i] = T[pos - last + i + 1]
          /\ line_end < last => T[pos - last + line_end + 1] = EOL
          /\ line_end = last => pos = Len(T)
      BY <1>1, <1>6, LineFound
    <2>2. /\ data[BUFSIZE] # EOL /\ (last < BUFSIZE \/ cnt = 0 => pos = Len(T))
      BY <1>1, <1>6 DEF OutInv, DataInv
    <2> HIDE DEF T
    <2>3. T = files'[fno']
      BY <1>1 DEF T
    <2>4. data'[BUFSIZE] # EOL
      BY <1>1, <1>2, <1>3, <1>4, <2>2
    <2>5. CASE line_end + 1 >= last
      <3>1. last' = 0 /\ gpc' # "scan" /\ pos' = pos
        BY <1>1, <2>5
      <3>2. Done' = pos
        BY <2>1, <3>1 DEF Done
      <3>3. pos = Len(T) \/ T[pos] = EOL
        <4>1. line_end # last => line_end < last /\ pos - last + line_end + 1 = pos
          BY <1>2, <2>1, <2>5
        <4> QED
          BY <2>1, <4>1
      <3> QED
        BY <2>1, <2>3, <2>4, <3>1, <3>2, <3>3 DEF DataInv
    <2>6. CASE ~(line_end + 1 >= last)
      <3>1. last' = last /\ gpc' = "scan" /\ pos' = pos /\ cnt' = cnt
        BY <1>1, <2>6
      <3>2. Done' = pos - last + line_end + 1 /\ Done' - (pos - last) = line_end + 1
        BY <1>1, <1>2, <2>1, <3>1 DEF Done
      <3>3. T[Done'] = EOL
        BY <1>2, <2>1, <2>6, <3>2
      <3>4. ASSUME NEW i \in 0 .. last - 1, i >= line_end + 1
            PROVE  data'[i] = T[pos - last + i + 1]
        <4>1. i \in line_start .. last - 1 /\ i \in 0 .. BUFSIZE /\ i # line_end
          BY <1>2, <3>4, SMTT(30)
        <4> QED
          BY <1>1, <1>4, <2>1, <4>1
      <3> QED
        BY <2>1, <2>2, <2>3, <2>4, <3>1, <3>2, <3>3, <3>4 DEF DataInv
    <2> QED
      BY <2>5, <2>6
  <1> QED
    BY <1>5, <1>6

(* The hits up to the end q of the next line l, which begins behind p, are *)
(* the hits before it, and l when it has the pattern.                      *)
LEMMA HitsGrow ==
    ASSUME NEW f, NEW p \in Nat, NEW q \in Nat, Len(files[f]) \in Nat, p < q,
           q <= Len(files[f]) + 1, p = 0 \/ p = Len(files[f]) \/ files[f][p] = EOL,
           q = Len(files[f]) + 1 \/ files[f][q] = EOL,
           \A i \in p + 1 .. q - 1 : files[f][i] # EOL
    PROVE  IF p < Len(files[f]) /\ Matches(LineAt(files[f], <<p + 1, q>>))
           THEN HitsTo(f, q) = HitsTo(f, p) \cup {<<f, <<p + 1, q>>>>}
           ELSE HitsTo(f, q) = HitsTo(f, p)
  <1> USE DEF HitsTo
  <1> DEFINE new == HitsTo(f, q)
             old == HitsTo(f, p)
             T == files[f]
             l == <<p + 1, q>>
  <1>1. ASSUME NEW h \in HitsOf(f)
        PROVE  /\ h = <<f, h[2]>> /\ h[2] \in LineSpans(T) /\ Matches(LineAt(T, h[2]))
               /\ h[2][1] \in 1 .. Len(T)
    BY <1>1, HitIs, Zenon
  <1>2. old \subseteq new
    BY <1>1, SMTT(30)
  <1>3. CASE p < Len(T)
    <2>1. l \in LineSpans(T) /\ \A k \in LineSpans(T) : p < k[1] /\ k[1] <= q => k = l
      <3>1. p = 0 \/ T[p] = EOL
        BY <1>3, SMTT(30)
      <3> QED
        BY <3>1, NextLine, Zenon
    <2>2. ASSUME NEW h \in new, h \notin old PROVE h = <<f, l>> /\ Matches(LineAt(T, l))
      BY <1>1, <2>1, <2>2
    <2>3. ASSUME Matches(LineAt(T, l)) PROVE <<f, l>> \in new
      <3>1. <<f, l>> \in HitsOf(f)
        BY <2>1, <2>3, Zenon DEF HitsOf
      <3> QED
        BY <3>1
    <2> HIDE DEF l
    <2> QED
      BY <1>2, <1>3, <2>2, <2>3 DEF l
  <1>4. CASE ~(p < Len(T))
    <2>1. \A h \in new : h \in old
      BY <1>1, <1>4
    <2> QED
      BY <1>2, <1>4, <2>1, Zenon
  <1> QED
    BY <1>3, <1>4

(* A line searched is printed when it has the pattern.                     *)
LEMMA SearchPrints ==
    ASSUME GrepInv, OutInv, Search, Fitting
    PROVE  IsFiniteSet(SoFar)' /\ HasPrinted(SoFar)'
  <1> DEFINE T == files[fno]
             p == pos - last + line_start
             q == pos - last + line_end + 1
             l == <<p + 1, q>>
  <1>1. /\ files' = files /\ search' = search /\ fno' = fno /\ cnt' = cnt /\ pos' = pos
        /\ gpc = "scan" /\ ~Unfinished /\ line_start' = line_end + 1
        /\ out' = IF Matches(Line) THEN Append(out, <<fno, Line>>) ELSE out
        /\ line_end + 1 >= last => last' = 0 /\ gpc' = IF cnt = 0 THEN "dir" ELSE "read"
        /\ ~(line_end + 1 >= last) => last' = last /\ gpc' = "scan"
    BY DEF Search
  <1>2. /\ T \in Seq(Chars) /\ Len(T) \in Nat /\ pos \in 0 .. Len(T)
        /\ last \in Nat /\ last <= pos /\ line_start \in Nat /\ line_end \in line_start .. last
        /\ \A i \in line_start .. last - 1 : data[i] = T[pos - last + i + 1]
        /\ line_end < last => T[q] = EOL
        /\ \A i \in p + 1 .. q - 1 : T[i] # EOL
        /\ line_end = last => pos = Len(T)
    <2>1. /\ T \in Seq(Chars) /\ Len(T) \in Nat /\ pos \in 0 .. Len(T)
          /\ BUFSIZE \in Nat \ {0} /\ last \in 0 .. BUFSIZE /\ last <= pos
          /\ line_start \in Nat /\ line_end \in line_start .. last
          /\ \A i \in line_start .. last - 1 : data[i] = T[pos - last + i + 1]
          /\ line_end < last => T[pos - last + line_end + 1] = EOL
          /\ \A i \in pos - last + line_start + 1 .. pos - last + line_end : T[i] # EOL
          /\ line_end = last => pos = Len(T)
      BY <1>1, LineFound, Zenon
    <2> HIDE DEF T
    <2>2. q - 1 = pos - last + line_end
      BY <2>1
    <2>3. \A i \in p + 1 .. q - 1 : T[i] # EOL
      <3>1. p + 1 .. q - 1 = pos - last + line_start + 1 .. pos - last + line_end
        BY <2>2, Zenon
      <3> HIDE DEF p, q
      <3> QED
        BY <2>1, <3>1, Zenon
    <2>4. last \in Nat /\ line_start \in Nat
      BY <2>1
    <2>5. \A i \in line_start .. last - 1 : data[i] = T[pos - last + i + 1]
      BY <2>1, Zenon
    <2>6. line_end < last => T[q] = EOL
      BY <2>1, Zenon
    <2> HIDE DEF p, q
    <2> QED
      BY <2>1, <2>3, <2>4, <2>5, <2>6, Zenon
  <1>3. /\ p \in {0, Len(T)} \/ T[p] = EOL
        /\ cnt = 0 => pos = Len(T)
        /\ fno \in 1 .. Len(files) /\ out \in Seq(Nat \X Seq(Chars))
        /\ IsFiniteSet(SoFar) /\ HasPrinted(SoFar)
    BY <1>1 DEF OutInv, OutTypes, DataInv, Done, GrepInv
  <1> HIDE DEF T
  <1>4. /\ \A f : HitsOf(f)' = HitsOf(f) /\ \A d : HitsTo(f, d)' = HitsTo(f, d)
        /\ \A n : HitsIn(n)' = HitsIn(n)
    BY <1>1, HitsFixed
  <1>5. /\ p \in Nat /\ q \in Nat /\ p < q /\ q <= Len(T) + 1 /\ p <= Len(T)
        /\ q = Len(T) + 1 \/ T[q] = EOL
    <2>1. line_end = last => q = Len(T) + 1
      BY <1>2
    <2>2. line_end < last => q <= Len(T) /\ T[q] = EOL
      BY <1>2, SMTT(30)
    <2> QED
      BY <1>2, <2>1, <2>2
  <1>6. \A h \in HitsOf(fno) : h[2][1] \in 1 .. Len(T) /\ h[1] = fno
    BY <1>2, HitIs DEF T
  <1>7. SoFar = HitsIn(fno - 1) \cup HitsTo(fno, p)
    <2>1. Done = p
      BY <1>1 DEF Done
    <2> HIDE DEF p
    <2> QED
      BY <1>1, <2>1 DEF SoFar
  <1>8. SoFar' = HitsIn(fno - 1) \cup HitsTo(fno, q)
    <2>1. Done' = IF q <= Len(T) THEN q ELSE Len(T)
      BY <1>1, <1>2, <1>3, SMTT(30) DEF Done
    <2>2. \A h \in HitsOf(fno) : h[2][1] <= Done' <=> h[2][1] <= q
      BY <1>5, <1>6, <2>1
    <2>3. HitsIn(fno - 1)' = HitsIn(fno - 1) /\ HitsIn(fno)' = HitsIn(fno)
      BY <1>1, <1>4
    <2>4. CASE gpc' = "dir"
      <3>1. Done' = Len(T)
        BY <1>1, <1>2, <1>3, <2>4 DEF Done
      <3>2. HitsTo(fno, q) = HitsOf(fno)
        BY <1>6, <2>2, <3>1 DEF HitsTo
      <3>3. SoFar' = HitsIn(fno)'
        BY <1>1, <2>4 DEF SoFar
      <3>4. 1 .. fno = (1 .. fno - 1) \cup {fno}
        BY <1>3
      <3>5. HitsIn(fno) = HitsIn(fno - 1) \cup HitsOf(fno)
        BY <3>4 DEF HitsIn
      <3> QED
        BY <2>3, <3>2, <3>3, <3>5, Zenon
    <2>5. CASE gpc' \in {"read", "scan"}
      <3>1. HitsTo(fno, Done)' = HitsTo(fno, q)
        BY <1>1, <1>4, <2>2 DEF HitsTo
      <3>2. SoFar' = HitsIn(fno - 1)' \cup HitsTo(fno, Done)'
        BY <1>1, <2>5, Zenon DEF SoFar
      <3> QED
        BY <2>3, <3>1, <3>2
    <2> QED
      BY <1>1, <2>4, <2>5
  <1>9. IF p < Len(T) /\ Matches(LineAt(T, l))
        THEN HitsTo(fno, q) = HitsTo(fno, p) \cup {<<fno, l>>} ELSE HitsTo(fno, q) = HitsTo(fno, p)
    <2>1. \A i \in p + 1 .. q - 1 : T[i] # EOL
      BY <1>2
    <2>2. p = 0 \/ p = Len(T) \/ T[p] = EOL
      BY <1>3
    <2>3. Len(T) \in Nat
      BY <1>2
    <2> HIDE DEF p, q
    <2> QED
      BY <1>5, <2>1, <2>2, <2>3, HitsGrow, Zenon DEF T
  <1>10. Line = LineAt(T, l)
    <2> DEFINE N == line_end - line_start
    <2>1. N \in Nat /\ q - 1 = p + N /\ p + N <= Len(T)
      <3>1. N \in Nat /\ q - 1 = p + N
        BY <1>2
      <3> HIDE DEF p, q, N
      <3> QED
        BY <1>2, <1>5, <3>1
    <2>2. ASSUME NEW i \in 1 .. N PROVE data[line_start + i - 1] = T[p + i]
      <3>1. /\ line_start + i - 1 \in line_start .. last - 1
            /\ pos - last + (line_start + i - 1) + 1 = p + i
        BY <1>2, <2>1
      <3> QED
        BY <1>2, <3>1
    <2>3. Line = [i \in 1 .. N |-> T[p + i]]
      BY <2>2 DEF Line
    <2> HIDE DEF p, q, N
    <2>4. SubSeq(T, p + 1, p + N) = [i \in 1 .. N |-> T[p + i]]
      BY <1>2, <1>5, <2>1
    <2> QED
      BY <2>1, <2>3, <2>4 DEF LineAt
  <1>11. Matches(Line) => p < Len(T)
    <2> SUFFICES ASSUME ~(p < Len(T)), Matches(Line) PROVE FALSE
      OBVIOUS
    <2>1. line_end - line_start = 0
      BY <1>2, <1>5
    <2>2. Line = <<>>
      BY <2>1 DEF Line
    <2>3. Len(Line) = 0
      BY <2>2
    <2> QED
      BY <2>3 DEF Matches
  <1> HIDE DEF p, q
  <1>12. CASE ~Matches(Line)
    <2>1. SoFar' = SoFar /\ out' = out
      BY <1>1, <1>7, <1>8, <1>9, <1>10, <1>12
    <2> QED
      BY <1>1, <1>3, <2>1, OutSame
  <1>13. CASE Matches(Line)
    <2> DEFINE h == <<fno, l>>
    <2>1. PICK P : P = SoFar
      OBVIOUS
    <2>2. SoFar' = P \cup {h}
      BY <1>7, <1>8, <1>9, <1>10, <1>11, <1>13, <2>1
    <2>3. /\ IsFiniteSet(P) /\ Lists(out, files, P)
      BY <1>3, <2>1, Zenon DEF HasPrinted, Lists
    <2>4. /\ h[1] = fno /\ h[2] = l /\ h[2][1] = p + 1
          /\ <<h[1], LineAt(files[h[1]], h[2])>> = <<fno, Line>>
      BY <1>10 DEF T
    <2>5. ASSUME NEW x \in P
          PROVE  x[1] \in Nat /\ x[2][1] \in Nat /\ (x[1] < fno \/ (x[1] = fno /\ x[2][1] <= p))
      <3>1. CASE x \in HitsTo(fno, p)
        BY <1>2, <1>3, <1>6, <3>1 DEF HitsTo
      <3>2. CASE x \in HitsIn(fno - 1)
        <4>1. PICK f \in 1 .. fno - 1 : x \in HitsOf(f)
          BY <3>2 DEF HitsIn
        <4>2. f \in 1 .. Len(files) /\ f < fno /\ f \in Nat
          BY <1>3
        <4>3. Len(files[f]) \in Nat
          BY <4>2, FileText
        <4>4. x[1] = f /\ x[2][1] \in 1 .. Len(files[f])
          BY <4>1, <4>3, HitIs, Zenon
        <4> QED
          BY <4>2, <4>3, <4>4
      <3> QED
        BY <1>7, <2>1, <3>1, <3>2
    <2> HIDE DEF h
    <2>6. ASSUME NEW x \in P PROVE Earlier(x, h) /\ ~Earlier(h, x) /\ ~Earlier(x, x)
      BY <1>3, <1>5, <2>4, <2>5, SMTT(30) DEF Earlier
    <2>7. ~Earlier(h, h)
      BY <1>3, <1>5, <2>4 DEF Earlier
    <2>8. <<fno, Line>> \in Nat \X Seq(Chars)
      <3>1. SubSeq(T, p + 1, q - 1) \in Seq(Chars)
        <4>1. p + 1 \in 1 .. Len(T) + 1 /\ q - 1 \in 0 .. Len(T)
          BY <1>2, <1>5
        <4> QED
          BY <1>2, <4>1
      <3>2. Line \in Seq(Chars)
        BY <1>10, <3>1 DEF LineAt
      <3> QED
        BY <1>3, <3>2
    <2>9. /\ IsFiniteSet(P \cup {h})
          /\ Lists(Append(out, <<fno, Line>>), files, P \cup {h})
      BY <1>3, <2>3, <2>4, <2>6, <2>7, <2>8, OneMore, Zenon
    <2>10. out' = Append(out, <<fno, Line>>)
      BY <1>1, <1>13
    <2> QED
      BY <1>1, <2>2, <2>9, <2>10, Zenon DEF HasPrinted, Lists
  <1> QED
    BY <1>12, <1>13

(* Every step keeps it.                                                    *)
LEMMA OutStep ==
    ASSUME EOL \notin Garbage
    PROVE  GrepInv /\ OutInv /\ [GrepNext]_gVars => OutInv'
  <1> SUFFICES ASSUME GrepInv, OutInv, [GrepNext]_gVars PROVE OutInv'
    OBVIOUS
  <1>1. CASE Begin \/ \E t \in Texts \cup {Unopenable} : Create(t)
    <2>1. /\ gpc = "edit" /\ gpc' \in {"edit", "dir"}
          /\ UNCHANGED <<fno, data, out, cnt>>
      BY <1>1 DEF Begin, Create
    <2>2. OutTypes' /\ fno' = 0 /\ out' = <<>>
      BY <2>1 DEF OutInv, OutTypes
    <2>3. DataInv'
      BY <2>1 DEF DataInv
    <2>4. SoFar' = {}
      BY <2>1, <2>2, SMTT(30) DEF SoFar, HitsIn
    <2>5. IsFiniteSet(SoFar)' /\ HasPrinted(SoFar)'
      BY <2>2, <2>4, FS_EmptySet DEF HasPrinted
    <2> QED
      BY <2>2, <2>3, <2>5 DEF OutInv
  <1>2. CASE NextFile
    BY <1>2, NextFilePrints
  <1>3. CASE Chunk
    BY <1>3, ChunkPrints
  <1>4. CASE Carry
    BY <1>4, CarryPrints
  <1>5. CASE Search
    <2>1. Fitting' = Fitting /\ gpc' # "edit"
      BY <1>5, HitsFixed DEF Search
    <2> QED
      BY <1>5, <2>1, SearchData, SearchPrints DEF OutInv
  <1>6. CASE UNCHANGED gVars
    <2> USE <1>6 DEF gVars
    <2>1. OutTypes' /\ (DataInv => DataInv') /\ Done' = Done
      BY DEF OutInv, OutTypes, DataInv, Done
    <2>2. /\ Fitting' = Fitting /\ \A f : HitsOf(f)' = HitsOf(f)
          /\ \A n : HitsIn(n)' = HitsIn(n)
      BY HitsFixed
    <2>3. SoFar' = SoFar
      BY <2>1, <2>2 DEF SoFar, HitsTo
    <2> QED
      BY <2>1, <2>2, <2>3, OutSame, Zenon DEF OutInv
  <1> QED
    BY <1>1, <1>2, <1>3, <1>4, <1>5, <1>6 DEF GrepNext, Grep

(* For every size of the buffer, every pattern and all files whose lines   *)
(* are shorter than the buffer, grep prints the lines that hold the        *)
(* pattern, each once, in full and in order, unless the byte behind the    *)
(* buffer, which do_one_file does not initialise, is an end of line.       *)
THEOREM PrintsLines ==
    ASSUME EOL \notin Garbage
    PROVE  GrepSpec => []GrepPrintsLines
  <1>1. GrepInit => GrepInv
    BY GrepAssumption DEF GrepInit, GrepInv, BufferInv
  <1>2. GrepInit => OutInv
    <2> SUFFICES ASSUME GrepInit PROVE OutInv
      OBVIOUS
    <2>1. OutTypes /\ DataInv /\ SoFar = {} /\ out = <<>> /\ fno = 0
      BY SMTT(30) DEF GrepInit, OutTypes, DataInv, SoFar, HitsIn, Chars
    <2>2. IsFiniteSet(SoFar) /\ HasPrinted(SoFar)
      BY <2>1, FS_EmptySet DEF HasPrinted
    <2> QED
      BY <2>1, <2>2 DEF OutInv
  <1>3. GrepInv /\ OutInv => GrepPrintsLines
    <2> SUFFICES ASSUME OutInv, gpc = "end", Fitting
                 PROVE  HasPrinted(UNION {HitsOf(f) : f \in 1 .. fno - 1})
      BY DEF GrepPrintsLines, Fitting
    <2>1. SoFar = HitsIn(fno - 1)
      BY DEF SoFar
    <2> QED
      BY <2>1 DEF OutInv, HitsIn
  <1> QED
    BY <1>1, <1>2, <1>3, GrepInvStep, OutStep, PTL DEF GrepSpec
=============================================================================
