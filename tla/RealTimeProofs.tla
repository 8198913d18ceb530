--------------------------- MODULE RealTimeProofs ---------------------------
(***************************************************************************)
(* The proofs of Paced, for every length of a second and every waiting     *)
(* time, and of Commanded, for every number of slaves, all amplitudes and  *)
(* every value of the sine.  The checksum is recursive over the bytes of a *)
(* command; as a command has eight, the recursion is unfolded (Summable).  *)
(***************************************************************************)
EXTENDS RealTimeProperties, TLAPS

\* The readings of the clock and the ends of the waits are in order, and the
\* deadline is that of a reading, not older than the wait before the last.
Timed ==
  /\ loop \in {"realTimeLoop", "monitorChanges"}
  /\ at \in {"start", "top", "wait", "work", "exit"}
  /\ clock \in Nat /\ now \in 0..clock
  /\ ended \in Int /\ last \in Int /\ lastButOne \in Int
  /\ ended <= clock /\ last <= ended
  /\ at = "wait" => ended <= now
  /\ at = "work" => last <= now
  /\ at = "start" => loop = "realTimeLoop" /\ last + WaitTime <= 0
  /\ \E reading \in 0..clock :
       /\ timer = Deadline(reading)
       /\ loop = "realTimeLoop" /\ at # "start" => last <= reading
       /\ loop = "monitorChanges" /\ at = "wait" => ended <= reading

\* That a wait ended at its deadline means what Paced says of it.
WaitedOut ==
  at = "work" /\ waited =>
    ended >= WaitTime + (IF loop = "realTimeLoop" THEN lastButOne ELSE last)

LEMMA Waiting == WaitTime \in 1 .. SECOND - 1
  BY RealTimeAssumption DEF WaitTime

\* A deadline is due one waiting time after its reading.
LEMMA DueAfter ==
  ASSUME NEW x \in Nat
  PROVE  Due(Deadline(x)) = x + WaitTime
<1> DEFINE q == x \div SECOND
           r == x % SECOND
<1>1. x = SECOND * q + r /\ q \in Int /\ r \in Int
  BY RealTimeAssumption
<1>2. Due(Deadline(x)) = q * SECOND + (r + WaitTime)
  BY DEF Due, Deadline
<1>3. q * SECOND = SECOND * q
  BY <1>1, RealTimeAssumption
<1> HIDE DEF q, r
<1> QED BY <1>1, <1>2, <1>3, Waiting, RealTimeAssumption

\* A deadline that is no valid time is due in the first waiting time of a second.
LEMMA InvalidDue ==
  ASSUME NEW x \in Nat, ~Valid(Deadline(x))
  PROVE  Due(Deadline(x)) % SECOND < WaitTime
<1> DEFINE S == SECOND
           r == x % S
           q == x \div S
<1>1. x = S * q + r /\ q \in Int /\ r \in 0 .. S - 1
  BY RealTimeAssumption
<1>2. r + WaitTime >= S
  <2>1. ~(r + WaitTime < S)
    BY DEF Valid, Deadline
  <2> HIDE DEF r
  <2> QED BY <2>1, <1>1, Waiting, RealTimeAssumption
<1>3. x + WaitTime = S * (q + 1) + (r + WaitTime - S)
  BY <1>1, Waiting, RealTimeAssumption
<1>4. r + WaitTime - S \in 0 .. S - 1
  BY <1>1, <1>2, Waiting, RealTimeAssumption
<1>5. ASSUME NEW a \in Int, NEW b \in 0 .. S - 1
      PROVE  (S * a + b) % S = b
  BY <1>5, RealTimeAssumption
<1>6. (x + WaitTime) % S = r + WaitTime - S
  BY <1>1, <1>3, <1>4, <1>5
<1>7. Due(Deadline(x)) % S = r + WaitTime - S
  BY <1>6, DueAfter
<1> HIDE DEF r
<1> QED BY <1>1, <1>7, Waiting, RealTimeAssumption

-----------------------------------------------------------------------------

LEMMA TimedInit == Init => Timed /\ WaitedOut
  BY Waiting DEF Init, Timed, WaitedOut, WaitTime

LEMMA TimedStep == Timed /\ WaitedOut /\ [Next]_vars => Timed' /\ WaitedOut'
<1> SUFFICES ASSUME Timed, WaitedOut, [Next]_vars
             PROVE  Timed' /\ WaitedOut'
  OBVIOUS
<1>1. CASE Tick
  BY <1>1, Waiting DEF Tick, Timed, WaitedOut, WaitTime, Deadline, packing, asked
<1>2. CASE Start
  BY <1>2, Waiting DEF Start, Timed, WaitedOut, WaitTime, Deadline, packing, asked
<1>3. CASE Top
  BY <1>3, Waiting DEF Top, Timed, WaitedOut, WaitTime, Deadline, packing, asked
<1>4. CASE Wait
  <2>1. PICK x \in 0..clock :
          /\ timer = Deadline(x)
          /\ loop = "realTimeLoop" => last <= x
          /\ loop = "monitorChanges" => ended <= x
    BY <1>4 DEF Wait, Timed
  <2>2. Due(timer) = x + WaitTime
    BY <2>1, DueAfter DEF Timed
  <2>3. WaitTime' = WaitTime /\ \A y : Deadline(y)' = Deadline(y)
    BY <1>4 DEF Wait, WaitTime, Deadline
  <2>4. Timed'
    BY <1>4, <2>1, <2>3 DEF Wait, Timed, asked
  <2>5. WaitedOut'
    <3>1. waited' => clock >= x + WaitTime
      BY <1>4, <2>2 DEF Wait
    <3>2. ended' = clock /\ last' = ended /\ lastButOne' = last /\ loop' = loop
      BY <1>4 DEF Wait
    <3>3. waited' => ended' >= WaitTime + (IF loop = "realTimeLoop" THEN last ELSE ended)
      BY <2>1, <3>1, <3>2, Waiting DEF Timed
    <3> QED BY <2>3, <3>2, <3>3 DEF WaitedOut
  <2> QED BY <2>4, <2>5
<1>5. CASE Pack
  BY <1>5 DEF Pack, Packs, Timed, WaitedOut, WaitTime, Deadline, time, asked
<1>6. CASE Worked
  BY <1>6 DEF Worked, Packs, Timed, WaitedOut, WaitTime, Deadline, time, asked
<1>7. CASE Choose \/ Enter \/ Stop
  BY <1>7 DEF Choose, Enter, Stop, Timed, WaitedOut, WaitTime, Deadline, time, packing
<1>8. CASE UNCHANGED vars
  BY <1>8 DEF vars, Timed, WaitedOut, WaitTime, Deadline, time, packing, asked
<1> QED BY <1>1, <1>2, <1>3, <1>4, <1>5, <1>6, <1>7, <1>8 DEF Next, Finished

LEMMA TimedPaced == Timed /\ WaitedOut => Paced
<1> SUFFICES ASSUME Timed, WaitedOut
             PROVE  Paced
  OBVIOUS
<1>1. PICK x \in 0..clock : timer = Deadline(x)
  BY DEF Timed
<1>2. x \in Nat /\ clock \in Nat /\ x <= clock
  BY DEF Timed
<1>3. Due(timer) <= clock + WaitTime
  BY <1>1, <1>2, DueAfter, Waiting
<1>4. ~Valid(timer) => Due(timer) % SECOND < WaitTime
  BY <1>1, <1>2, InvalidDue
<1> QED BY <1>3, <1>4 DEF Paced, WaitedOut

\* A wait of realTimeLoop that ends at its deadline ends a waiting time after the
\* wait before the last one, a wait of monitorChanges after the last one; whatever
\* the scheduler does and however long the work takes.
THEOREM PacedAlways == Spec => []Paced
<1>1. Init => Timed /\ WaitedOut
  BY TimedInit
<1>2. Timed /\ WaitedOut /\ [Next]_vars => (Timed /\ WaitedOut)'
  BY TimedStep
<1>3. Timed /\ WaitedOut => Paced
  BY TimedPaced
<1> QED BY <1>1, <1>2, <1>3, PTL DEF Spec

-----------------------------------------------------------------------------
(* The inductive invariant behind Commanded. *)

Numbers ==
  /\ at \in {"start", "top", "wait", "work", "exit"}
  /\ i \in 0..N /\ this \in 0..1
  /\ target_slave \in Nat /\ current_amplitude \in Nat
  /\ targets \subseteq Nat /\ entered \subseteq Nat
  /\ command \in [0..1 -> [Slaves -> {Off} \cup {Commanding(n) : n \in Nat}]]

\* While the image is packed, the target and the amplitude of the moment are among
\* those of this image.
Noted ==
  at = "work" => target_slave \in targets /\ current_amplitude \in entered

\* The commands packed so far: none is left from the image packed two cycles ago.
PackedSoFar ==
  Packs => \A s \in Slaves : s < i =>
    LET c == command[this][s] IN
    \/ c = Off /\ targets # {s}
    \/ /\ s \in targets
       /\ \E a \in entered : \E n \in 0..a : c = Commanding(n)

Image == Numbers /\ Noted /\ PackedSoFar

LEMMA ImageInit == Init => Image
  BY RealTimeAssumption DEF Init, Image, Numbers, Noted, PackedSoFar, Packs, Slaves

\* The sine stays between nothing and the amplitude.
LEMMA Scaled ==
  ASSUME NEW a \in Nat, NEW k \in 0 .. SineSteps
  PROVE  (a * k) \div SineSteps \in 0..a
<1> DEFINE m == SineSteps
           q == (a * k) \div m
           r == (a * k) % m
<1>1. m \in Nat \ {0} /\ k \in Nat /\ k <= m
  BY RealTimeAssumption
<1>2. a * k \in Nat
  BY <1>1
<1>3. a * k = m * q + r /\ q \in Int /\ r \in 0 .. m - 1
  BY <1>1, <1>2
<1>4. a * k <= m * a
  BY <1>1
<1> HIDE DEF m, r, q
<1>5. ASSUME q > a PROVE FALSE
  <2>1. m * q >= m * (a + 1)
    BY <1>1, <1>3, <1>5
  <2> QED BY <1>1, <1>3, <1>4, <2>1
<1>6. ASSUME q < 0 PROVE FALSE
  <2>1. m * q <= m * (0 - 1)
    BY <1>1, <1>3, <1>6
  <2> QED BY <1>1, <1>2, <1>3, <2>1
<1> QED BY <1>3, <1>5, <1>6 DEF q, m

\* A turn of packCommand's loop adds the command of the next slave.
LEMMA PackImage == Image /\ Pack => Image'
<1> SUFFICES ASSUME Image, Pack
             PROVE  Image'
  OBVIOUS
<1>1. i \in Slaves /\ i \in Nat /\ N \in Nat /\ this \in 0..1 /\ Packs
  BY RealTimeAssumption DEF Image, Numbers, Pack, Packs, Slaves
<1>2. PICK n \in Currents :
        command' = [command EXCEPT ![this][i] = IF i = target_slave THEN Commanding(n) ELSE Off]
  BY DEF Pack
<1>3. n \in 0..current_amplitude
  BY <1>2, Scaled DEF Currents, Image, Numbers
<1>4. i' = i + 1 /\ UNCHANGED <<loop, at, this, run, target_slave, current_amplitude, targets, entered>>
  BY DEF Pack, asked
<1> DEFINE packed == IF i = target_slave THEN Commanding(n) ELSE Off
           Commands == {Off} \cup {Commanding(m) : m \in Nat}
<1>5. packed \in Commands
  BY <1>3 DEF Image, Numbers
<1>6. command \in [0..1 -> [Slaves -> Commands]]
  BY DEF Image, Numbers
<1> HIDE DEF packed, Commands
<1>7. command' = [command EXCEPT ![this] = [command[this] EXCEPT ![i] = packed]]
  BY <1>2 DEF packed
<1>8. command' \in [0..1 -> [Slaves -> Commands]]
  BY <1>1, <1>5, <1>6, <1>7
<1>9. Numbers' /\ Noted'
  <2>1. i' \in 0..N
    BY <1>1, <1>4 DEF Pack
  <2> QED BY <1>4, <1>8, <2>1 DEF Image, Numbers, Noted, Commands
<1>10. command'[this][i] = packed /\ \A s \in Slaves : s # i => command'[this][s] = command[this][s]
  BY <1>1, <1>6, <1>7
<1>11. PackedSoFar'
  <2> SUFFICES ASSUME NEW s \in Slaves, s < i + 1
               PROVE  LET c == command'[this][s] IN
                      \/ c = Off /\ targets # {s}
                      \/ /\ s \in targets
                         /\ \E a \in entered : \E m \in 0..a : c = Commanding(m)
    BY <1>4 DEF PackedSoFar
  <2>1. CASE s = i
    <3>1. at = "work"
      BY <1>1 DEF Packs
    <3>2. target_slave \in targets /\ current_amplitude \in entered
      BY <3>1 DEF Image, Noted
    <3>3. CASE i = target_slave
      BY <1>3, <1>10, <2>1, <3>2, <3>3 DEF packed
    <3>4. CASE i # target_slave
      BY <1>10, <2>1, <3>2, <3>4 DEF packed
    <3> QED BY <3>3, <3>4
  <2>2. CASE s # i
    <3>1. s < i
      BY <1>1, <2>2 DEF Slaves
    <3> QED BY <1>1, <1>10, <2>2, <3>1 DEF Image, PackedSoFar
  <2> QED BY <2>1, <2>2
<1> QED BY <1>9, <1>11 DEF Image

LEMMA ImageStep == Image /\ [Next]_vars => Image'
<1> SUFFICES ASSUME Image, [Next]_vars
             PROVE  Image'
  OBVIOUS
<1> USE DEF Image
<1>1. CASE Tick
  BY <1>1 DEF Tick, Numbers, Noted, PackedSoFar, Packs, packing, asked
<1>2. CASE Start
  BY <1>2 DEF Start, Numbers, Noted, PackedSoFar, Packs, packing, asked
<1>3. CASE Top
  BY <1>3 DEF Top, Numbers, Noted, PackedSoFar, Packs, packing, asked
<1>4. CASE Wait
  BY <1>4, RealTimeAssumption DEF Wait, Numbers, Noted, PackedSoFar, Packs, asked, Slaves
<1>5. CASE Pack
  BY <1>5, PackImage
<1>6. CASE Worked
  BY <1>6 DEF Worked, Numbers, Noted, PackedSoFar, Packs, asked
<1>7. CASE Choose
  <2>1. PICK s \in 0..N \cup {target_slave} : target_slave' = s /\ targets' = targets \cup {s}
    BY <1>7 DEF Choose
  <2>2. UNCHANGED <<loop, at, i, this, command, current_amplitude, entered>>
    BY <1>7 DEF Choose, packing
  <2>3. s \in Nat
    BY RealTimeAssumption DEF Numbers
  <2>4. Numbers' /\ Noted'
    BY <2>1, <2>2, <2>3 DEF Numbers, Noted
  <2>5. PackedSoFar'
    <3>1. ASSUME Packs, NEW u, targets \cup {s} = {u} PROVE targets = {u}
      BY <3>1 DEF Noted, Packs
    <3> QED BY <2>1, <2>2, <3>1 DEF PackedSoFar, Packs
  <2> QED BY <2>4, <2>5
<1>8. CASE Enter
  <2>1. PICK a \in Amplitudes : current_amplitude' = a /\ entered' = entered \cup {a}
    BY <1>8 DEF Enter
  <2>2. UNCHANGED <<loop, at, i, this, command, target_slave, targets>>
    BY <1>8 DEF Enter, packing
  <2>3. a \in Nat
    BY RealTimeAssumption
  <2>4. Numbers' /\ Noted'
    BY <2>1, <2>2, <2>3 DEF Numbers, Noted
  <2>5. PackedSoFar'
    BY <2>1, <2>2 DEF PackedSoFar, Packs
  <2> QED BY <2>4, <2>5
<1>9. CASE Stop
  BY <1>9 DEF Stop, Numbers, Noted, PackedSoFar, Packs, packing
<1>10. CASE UNCHANGED vars
  BY <1>10 DEF vars, Numbers, Noted, PackedSoFar, Packs, packing, asked
<1> QED BY <1>1, <1>2, <1>3, <1>4, <1>5, <1>6, <1>7, <1>8, <1>9, <1>10 DEF Next, Finished

-----------------------------------------------------------------------------
(* The checksum of a command. *)

\* What the loop of computeChecksum has after n bytes, for each n.
Sums(checksum, data, length) ==
  checksum = [n \in 0 .. length |-> IF n = 0 THEN Bits(66)
                                    ELSE Xor(rotateRight8(checksum[n - 1]), data[n])]

\* The recursion over the bytes of a command, with and without the last, has a
\* solution.
LEMMA Summable ==
  ASSUME NEW data
  PROVE  (\E f : Sums(f, data, 8)) /\ (\E f : Sums(f, data, 7))
<1> DEFINE next(c, n) == Xor(rotateRight8(c), data[n])
           c0 == Bits(66)
           c1 == next(c0, 1)
           c2 == next(c1, 2)
           c3 == next(c2, 3)
           c4 == next(c3, 4)
           c5 == next(c4, 5)
           c6 == next(c5, 6)
           c7 == next(c6, 7)
           c8 == next(c7, 8)
           f == [n \in 0..8 |->
                   CASE n = 0 -> c0 [] n = 1 -> c1 [] n = 2 -> c2 [] n = 3 -> c3 [] n = 4 -> c4
                     [] n = 5 -> c5 [] n = 6 -> c6 [] n = 7 -> c7 [] n = 8 -> c8]
           g == [n \in 0..7 |-> f[n]]
<1>1. /\ f[0] = c0 /\ f[1] = c1 /\ f[2] = c2 /\ f[3] = c3 /\ f[4] = c4
      /\ f[5] = c5 /\ f[6] = c6 /\ f[7] = c7 /\ f[8] = c8
  <2> HIDE DEF c0, c1, c2, c3, c4, c5, c6, c7, c8
  <2> QED OBVIOUS
<1>2. ASSUME NEW n \in 0..8
      PROVE  f[n] = IF n = 0 THEN Bits(66) ELSE next(f[n - 1], n)
  <2> HIDE DEF f, next
  <2>1. n = 0 \/ n = 1 \/ n = 2 \/ n = 3 \/ n = 4 \/ n = 5 \/ n = 6 \/ n = 7 \/ n = 8
    OBVIOUS
  <2> QED BY <1>1, <2>1
<1>3. f = [n \in 0..8 |-> f[n]] /\ g = [n \in 0..7 |-> f[n]]
  OBVIOUS
<1> HIDE DEF f
<1>4. Sums(f, data, 8)
  BY <1>2, <1>3 DEF Sums
<1>5. Sums(g, data, 7)
  <2>1. ASSUME NEW n \in 0..7
        PROVE  f[n] = IF n = 0 THEN Bits(66) ELSE Xor(rotateRight8(g[n - 1]), data[n])
    BY <1>2
  <2> QED BY <2>1 DEF Sums
<1> QED BY <1>4, <1>5

\* computeChecksum over a whole command, or all but its last byte, is the last of
\* these sums.
LEMMA Summed ==
  ASSUME NEW data, NEW length \in {7, 8}
  PROVE  \E f : Sums(f, data, length) /\ computeChecksum(data, length) = f[length]
<1> DEFINE f == CHOOSE f : Sums(f, data, length)
<1>1. Sums(f, data, length)
  BY Summable
<1>2. computeChecksum(data, length) = f[length]
  BY DEF computeChecksum, Sums
<1> QED BY <1>1, <1>2

\* One turn of the loop.
LEMMA Turned ==
  ASSUME NEW f, NEW data, NEW length \in {7, 8}, Sums(f, data, length), NEW n \in 1 .. length
  PROVE  f[0] = Bits(66) /\ f[n] = Xor(rotateRight8(f[n - 1]), data[n])
<1> DEFINE e(k) == IF k = 0 THEN Bits(66) ELSE Xor(rotateRight8(f[k - 1]), data[k])
<1>1. f = [k \in 0 .. length |-> e(k)]
  BY DEF Sums
<1> HIDE DEF e
<1>2. f[0] = e(0) /\ f[n] = e(n)
  BY <1>1
<1> QED BY <1>2 DEF e

\* Commands that agree in all bytes but the last agree in their sums up to there.
LEMMA SameSums ==
  ASSUME NEW f, NEW data, NEW k \in {7, 8}, Sums(f, data, k),
         NEW g, NEW other, NEW l \in {7, 8}, Sums(g, other, l),
         \A n \in 1..7 : data[n] = other[n]
  PROVE  f[7] = g[7]
<1>1. f[0] = g[0]
  BY Turned
<1>2. ASSUME NEW n \in 1..7, f[n - 1] = g[n - 1] PROVE f[n] = g[n]
  BY <1>2, Turned
<1>3. f[1] = g[1]
  BY <1>1, <1>2
<1>4. f[2] = g[2]
  BY <1>2, <1>3
<1>5. f[3] = g[3]
  BY <1>2, <1>4
<1>6. f[4] = g[4]
  BY <1>2, <1>5
<1>7. f[5] = g[5]
  BY <1>2, <1>6
<1>8. f[6] = g[6]
  BY <1>2, <1>7
<1> QED BY <1>2, <1>8

\* packCommand's checksum makes the sum over the whole command zero.
LEMMA ChecksumCloses ==
  ASSUME NEW mode, NEW current
  PROVE  LET c == rotateRight8(computeChecksum(WG0XCommand(mode, current, {}), 7))
         IN  computeChecksum(WG0XCommand(mode, current, c), 8) = {}
<1> DEFINE open == WG0XCommand(mode, current, {})
           c == rotateRight8(computeChecksum(open, 7))
           closed == WG0XCommand(mode, current, c)
<1>1. (\A n \in 1..7 : open[n] = closed[n]) /\ closed[8] = c
  BY DEF WG0XCommand
<1> HIDE DEF open, closed
<1>2. PICK f : Sums(f, open, 7) /\ computeChecksum(open, 7) = f[7]
  BY Summed
<1>3. PICK g : Sums(g, closed, 8) /\ computeChecksum(closed, 8) = g[8]
  BY Summed
<1>4. f[7] = g[7]
  BY <1>1, <1>2, <1>3, SameSums
<1>5. g[8] = Xor(rotateRight8(g[7]), closed[8])
  BY <1>3, Turned
<1>6. g[8] = Xor(c, c)
  BY <1>1, <1>2, <1>4, <1>5
<1>7. Xor(c, c) = {}
  BY DEF Xor
<1> QED BY <1>3, <1>6, <1>7 DEF open, closed

\* A rotation loses nothing.
LEMMA RotatedIn ==
  ASSUME NEW c, NEW d, c \subseteq 0..7, d \subseteq 0..7, rotateRight8(c) = rotateRight8(d)
  PROVE  c \subseteq d
<1> SUFFICES ASSUME NEW b \in c
             PROVE  b \in d
  OBVIOUS
<1>1. (b + 7) % 8 \in rotateRight8(d)
  BY DEF rotateRight8
<1>2. PICK e \in d : (b + 7) % 8 = (e + 7) % 8
  BY <1>1 DEF rotateRight8
<1>3. b \in 0..7 /\ e \in 0..7
  BY <1>2
<1> QED BY <1>2, <1>3

LEMMA RotatedApart ==
  ASSUME NEW c, NEW d, c \subseteq 0..7, d \subseteq 0..7, c # d
  PROVE  rotateRight8(c) # rotateRight8(d)
  BY RotatedIn

\* What a slave can rely on: if one byte of a command is damaged on the way, be it
\* the checksum itself, the sum over the command is another one, so that a slave that
\* finds zero has not received a damaged byte (wg05.cpp:189-206).
THEOREM DamageDetected ==
  ASSUME NEW sent, NEW received, NEW k \in 1..8,
         \A n \in 1..8 : sent[n] \subseteq 0..7 /\ received[n] \subseteq 0..7,
         \A n \in 1..8 : sent[n] = received[n] <=> n # k
  PROVE  computeChecksum(sent, 8) # computeChecksum(received, 8)
<1>1. PICK f : Sums(f, sent, 8) /\ computeChecksum(sent, 8) = f[8]
  BY Summed
<1>2. PICK g : Sums(g, received, 8) /\ computeChecksum(received, 8) = g[8]
  BY Summed
<1> DEFINE Parted(n) == /\ f[n] \subseteq 0..15 /\ g[n] \subseteq 0..15
                        /\ n >= 1 => f[n] \subseteq 0..7 /\ g[n] \subseteq 0..7
                        /\ f[n] = g[n] <=> n < k
<1>3. Parted(0)
  <2>1. f[0] = Bits(66) /\ g[0] = Bits(66)
    BY <1>1, <1>2, Turned
  <2> QED BY <2>1 DEF Bits
<1>4. ASSUME NEW n \in 1..8, Parted(n - 1) PROVE Parted(n)
  <2>1. f[n] = Xor(rotateRight8(f[n - 1]), sent[n]) /\ g[n] = Xor(rotateRight8(g[n - 1]), received[n])
    BY <1>1, <1>2, Turned
  <2>2. ASSUME NEW c, c \subseteq 0..15 PROVE rotateRight8(c) \subseteq 0..7
    BY <2>2 DEF rotateRight8
  <2>3. f[n] \subseteq 0..7 /\ g[n] \subseteq 0..7
    <3>1. rotateRight8(f[n - 1]) \subseteq 0..7 /\ rotateRight8(g[n - 1]) \subseteq 0..7
      BY <1>4, <2>2
    <3> QED BY <2>1, <3>1 DEF Xor
  <2>4. ASSUME NEW b, NEW c, NEW d, Xor(b, d) = Xor(c, d) PROVE b = c
    BY <2>4 DEF Xor
  <2>5. ASSUME NEW b, NEW c, NEW d, Xor(b, c) = Xor(b, d) PROVE c = d
    BY <2>5 DEF Xor
  <2>6. CASE n < k
    BY <1>4, <2>1, <2>3, <2>6
  <2>7. CASE n = k
    BY <1>4, <2>1, <2>3, <2>5, <2>7
  <2>8. CASE n > k
    <3>1. f[n - 1] # g[n - 1] /\ f[n - 1] \subseteq 0..7 /\ g[n - 1] \subseteq 0..7
      BY <1>4, <2>8
    <3>2. rotateRight8(f[n - 1]) # rotateRight8(g[n - 1])
      BY <3>1, RotatedApart
    <3>3. sent[n] = received[n]
      BY <2>8
    <3>4. f[n] # g[n]
      <4> SUFFICES ASSUME f[n] = g[n] PROVE FALSE
        OBVIOUS
      <4>1. Xor(rotateRight8(f[n - 1]), sent[n]) = Xor(rotateRight8(g[n - 1]), sent[n])
        BY <2>1, <3>3
      <4>2. rotateRight8(f[n - 1]) = rotateRight8(g[n - 1])
        BY <2>4, <4>1
      <4> QED BY <3>2, <4>2
    <3> QED BY <2>3, <2>8, <3>4
  <2> QED BY <2>6, <2>7, <2>8
<1> HIDE DEF Parted
<1>5. Parted(1)
  BY <1>3, <1>4
<1>6. Parted(2)
  BY <1>4, <1>5
<1>7. Parted(3)
  BY <1>4, <1>6
<1>8. Parted(4)
  BY <1>4, <1>7
<1>9. Parted(5)
  BY <1>4, <1>8
<1>10. Parted(6)
  BY <1>4, <1>9
<1>11. Parted(7)
  BY <1>4, <1>10
<1>12. Parted(8)
  BY <1>4, <1>11
<1> QED BY <1>1, <1>2, <1>12 DEF Parted

-----------------------------------------------------------------------------

LEMMA ImageCommanded == Image => Commanded
<1> SUFFICES ASSUME Image, Packed, NEW s \in Slaves, command[this][s] # Off \/ targets = {s}
             PROVE  LET c == command[this][s] IN
                    /\ c # Off
                    /\ s \in targets
                    /\ computeChecksum(WG0XCommand(c.mode, c.current, c.checksum), 8) = {}
                    /\ (\A a \in entered : a < 32768) => \E a \in entered : c.current \in 0..a
  BY DEF Commanded
<1>0. PICK a \in entered : s \in targets /\ \E n \in 0..a : command[this][s] = Commanding(n)
  BY RealTimeAssumption DEF Image, PackedSoFar, Packed, Slaves
<1>1. PICK n \in 0..a : command[this][s] = Commanding(n)
  BY <1>0
<1>2. a \in Nat /\ n \in Nat /\ n <= a
  BY DEF Image, Numbers
<1> DEFINE c == Commanding(n)
<1>3. /\ c.mode = MODE_ENABLE + MODE_CURRENT /\ c.current = Int16(n)
      /\ c.checksum = rotateRight8(computeChecksum(WG0XCommand(c.mode, c.current, {}), 7))
  BY DEF Commanding
<1>4. c # Off
  BY <1>3 DEF Off, MODE_ENABLE, MODE_CURRENT
<1> HIDE DEF c
<1>5. computeChecksum(WG0XCommand(c.mode, c.current, c.checksum), 8) = {}
  BY <1>3, ChecksumCloses
<1>6. a < 32768 => c.current \in 0..a
  BY <1>2, <1>3 DEF Int16
<1> QED BY <1>0, <1>1, <1>4, <1>5, <1>6 DEF c

\* Whenever the image of the commands is exchanged, a slave is commanded only if it
\* was the target while the image was packed, every other command is cleared, and
\* a commanded slave finds a closing checksum and a current that was asked for.
THEOREM CommandedAlways == Spec => []Commanded
<1>1. Init => Image
  BY ImageInit
<1>2. Image /\ [Next]_vars => Image'
  BY ImageStep
<1>3. Image => Commanded
  BY ImageCommanded
<1> QED BY <1>1, <1>2, <1>3, PTL DEF Spec
=============================================================================
