---------------------------- MODULE VolumeProofs -----------------------------
(***************************************************************************)
(* Proofs about Volume, for any geometry of the disk and any size of the    *)
(* table.                                                                   *)
(***************************************************************************)
EXTENDS Volume, SequenceTheorems, TLAPS

\* Euclidean division.
LEMMA DivMod ==
    ASSUME NEW a \in Nat, NEW n \in Nat \ {0}
    PROVE  /\ a \div n \in Nat /\ a % n \in 0 .. n - 1
           /\ a = (a \div n) * n + (a % n)
OBVIOUS

\* Distributivity, which the provers need spelled out.
LEMMA Distributes ==
    ASSUME NEW a \in Int, NEW b \in Int, NEW n \in Int
    PROVE  /\ (a + b) * n = a * n + b * n
           /\ (a - b) * n = a * n - b * n
OBVIOUS

\* A product of natural numbers is one.
LEMMA ProductNat ==
    ASSUME NEW a \in Nat, NEW n \in Nat
    PROVE  a * n \in Nat
OBVIOUS

\* The bytes of an entry keep every coordinate and every size a user gives.
LEMMA SavedExactly ==
    ASSUME NEW fc \in Cyl, NEW fs \in Sec, NEW size \in Size
    PROVE  LET v == [cyl |-> fc, sec |-> fs, nsector |-> size]
           IN  Saved(v) = v /\ v \in VolumeEntry
<1> DEFINE v == [cyl |-> fc, sec |-> fs, nsector |-> size]
<1>1. fc \in 0 .. Byte - 1 /\ fs \in 0 .. Byte - 1 /\ Byte \in Nat \ {0}
    BY DiskAssumption DEF Cyl, Sec
<1>2. fc % Byte = fc /\ fs % Byte = fs
    BY <1>1
<1>3. DEFINE q == Byte * Byte
<1>4. q \in Nat \ {0} /\ size \in 0 .. q - 1
    BY <1>1, DiskAssumption
<1>5. size % q = size
    <2> HIDE DEF q
    <2> QED
        BY <1>4
<1> QED
    BY <1>1, <1>2, <1>4, <1>5 DEF Saved, VolumeEntry

\* convert_bloc goes through the disk one sector at a time from the first sector
\* of the volume on, for every bloc and whatever the geometry: two blocs of a
\* volume are never the same sector.
THEOREM ConvertExact ==
    ASSUME NEW v \in VolumeEntry, NEW b \in Nat
    PROVE  /\ Rank(ConvertBloc(v, b)) = Rank(v) + b
           /\ ConvertBloc(v, b).sec \in Sec
           /\ ConvertBloc(v, b).cyl \in Nat /\ ConvertBloc(v, b).cyl >= v.cyl
<1> DEFINE a == v.sec + b
           d == a \div NSec
           m == a % NSec
           p == ConvertBloc(v, b)
<1>1. a \in Nat /\ v.cyl \in Nat /\ v.sec \in Nat /\ NSec \in Nat \ {0}
    BY DiskAssumption DEF VolumeEntry
<1>2. d \in Nat /\ m \in 0 .. NSec - 1 /\ a = d * NSec + m
    BY <1>1, DivMod
<1>3. p.cyl = v.cyl + d /\ p.sec = m
    BY DEF ConvertBloc
<1>4. Rank(p) = p.cyl * NSec + p.sec /\ Rank(v) = v.cyl * NSec + v.sec
    BY DEF Rank
<1> HIDE DEF d, m, p
<1>5. (v.cyl + d) * NSec = v.cyl * NSec + d * NSec
    BY <1>1, <1>2, Distributes
<1>6. v.cyl * NSec \in Nat /\ d * NSec \in Nat
    BY <1>1, <1>2, ProductNat
<1>7. Rank(p) = Rank(v) + b
    BY <1>1, <1>2, <1>3, <1>4, <1>5, <1>6
<1>8. p.sec \in Sec /\ p.cyl \in Nat /\ p.cyl >= v.cyl
    BY <1>1, <1>2, <1>3 DEF Sec
<1> QED
    BY <1>7, <1>8 DEF p

-----------------------------------------------------------------------------

\* Removing a volume keeps the rest in order, possibly with the last entry twice.
LEMMA ShiftKeeps ==
    ASSUME TypeOK, NEW k \in 1 .. Len(table)
    PROVE  /\ Shift(table, k) \in Seq(VolumeEntry)
           /\ Len(Shift(table, k)) = Len(table) - 1
           /\ \A i \in 1 .. Len(table) - 1 : \E f \in {i, i + 1} :
                 /\ f \in 1 .. Len(table) /\ Shift(table, k)[i] = table[f]
                 /\ i >= k /\ i <= MaxVol - 2 <=> f = i + 1
<1> DEFINE n == Len(table) - 1
<1>1. n \in Nat /\ MaxVol \in Nat
    BY DiskAssumption DEF TypeOK
<1>2. \A i \in 1 .. n : i \in 1 .. Len(table) /\ i + 1 \in 1 .. Len(table)
    BY <1>1
<1>3. \A i \in 1 .. Len(table) : table[i] \in VolumeEntry
    BY DEF TypeOK
<1>4. Shift(table, k) \in [1 .. n -> VolumeEntry]
    BY <1>2, <1>3 DEF Shift
<1>5. Shift(table, k) \in Seq(VolumeEntry) /\ Len(Shift(table, k)) = n
    BY <1>1, <1>4
<1> QED
    BY <1>1, <1>2, <1>5 DEF Shift

\* A volume accepted further on than v, from the same sector number, begins after
\* the last sector of v.
LEMMA AcceptedBehind ==
    ASSUME NEW v \in VolumeEntry, NEW u \in VolumeEntry, Behind(u, v),
           ConvertCylSec(v, u.cyl, u.sec) = -1
    PROVE  Disjoint(v, u)
<1> DEFINE gap == (u.cyl - v.cyl) * NSec
<1>1. /\ u.cyl \in Nat /\ v.cyl \in Nat /\ v.sec \in Nat /\ u.sec = v.sec
      /\ u.cyl - v.cyl \in Nat \ {0} /\ NSec \in Nat \ {0}
      /\ v.nsector \in Nat /\ u.nsector \in Nat
    BY DiskAssumption DEF VolumeEntry, Behind
<1>2. gap \in Nat /\ gap > 0
    BY <1>1
<1>3. gap = u.cyl * NSec - v.cyl * NSec /\ u.cyl * NSec \in Nat /\ v.cyl * NSec \in Nat
    BY <1>1
<1>4. gap > v.nsector
    BY <1>1, <1>2 DEF ConvertCylSec
<1>5. Rank(u) = Rank(v) + gap /\ Rank(v) \in Nat
    BY <1>1, <1>3 DEF Rank
<1> QED
    BY <1>1, <1>2, <1>4, <1>5 DEF Disjoint, Sectors

VolInv == TypeOK /\ AppendedApart

\* An empty table satisfies the invariant.
LEMMA InitVolInv == Init => VolInv
<1> SUFFICES ASSUME Init PROVE VolInv
    OBVIOUS
<1>1. table = <<>> /\ Len(table) = 0
    BY DEF Init
<1>2. lost \in BOOLEAN /\ wild \in BOOLEAN
    BY Zenon DEF Init
<1> QED
    BY <1>1, <1>2, DiskAssumption DEF VolInv, TypeOK, AppendedApart

\* frmt empties the table.
LEMMA FrmtKeeps == VolInv /\ Frmt => VolInv'
<1> SUFFICES ASSUME VolInv, Frmt PROVE VolInv'
    OBVIOUS
<1>1. table' = <<>> /\ Len(table') = 0
    BY DEF Frmt
<1>2. lost' \in BOOLEAN /\ wild' \in BOOLEAN
    BY Zenon DEF Frmt, VolInv, TypeOK
<1> QED
    BY <1>1, <1>2, DiskAssumption DEF VolInv, TypeOK, AppendedApart

\* mkvol appends a volume that its two lookups did not refuse.
LEMMA MkvolKeeps ==
    ASSUME VolInv, NEW fc \in Cyl, NEW fs \in Sec, NEW size \in Size,
           Mkvol(fc, fs, size)
    PROVE  VolInv'
<1> DEFINE u == [cyl |-> fc, sec |-> fs, nsector |-> size]
           n == Len(table)
<1>1. table' = Append(table, u) /\ u \in VolumeEntry
    BY SavedExactly DEF Mkvol, CreateVolume
<1>2. table \in Seq(VolumeEntry) /\ n \in Nat /\ n < MaxVol
    BY DiskAssumption DEF VolInv, TypeOK, Mkvol
<1>3. /\ table' \in Seq(VolumeEntry) /\ Len(table') = n + 1
      /\ \A i \in 1 .. n : table'[i] = table[i]
      /\ table'[n + 1] = u
    BY <1>1, <1>2
<1>4. TypeOK'
    <2>1. lost' \in BOOLEAN /\ wild' \in BOOLEAN
        BY Zenon DEF Mkvol, VolInv, TypeOK
    <2> QED
        BY <2>1, <1>2, <1>3, DiskAssumption DEF TypeOK
<1>5. ASSUME NEW i \in 1 .. n + 1, NEW j \in 1 .. n + 1, i < j,
             Behind(table'[j], table'[i])
      PROVE  Disjoint(table'[i], table'[j])
    <2>1. i \in 1 .. n /\ table'[i] = table[i] /\ table[i] \in VolumeEntry
        BY <1>2, <1>3, <1>5
    <2>2. CASE j = n + 1
        <3>1. ConvertCylSec(table[i], u.cyl, u.sec) = -1
            BY <2>1 DEF Mkvol, Possible
        <3> HIDE DEF u
        <3> QED
            BY <1>1, <1>3, <1>5, <2>1, <2>2, <3>1, AcceptedBehind
    <2>3. CASE j # n + 1
        BY <1>2, <1>3, <1>5, <2>1, <2>3 DEF VolInv, AppendedApart
    <2> QED
        BY <2>2, <2>3
<1> QED
    BY <1>3, <1>4, <1>5 DEF VolInv, AppendedApart

\* rvol keeps the order of the entries it leaves.
LEMMA RvolKeeps ==
    ASSUME VolInv, NEW k \in 1 .. MaxVol, Rvol(k)
    PROVE  VolInv'
<1>1. TypeOK /\ k \in 1 .. Len(table) /\ table' = Shift(table, k)
    BY DEF VolInv, Rvol
<1>2. /\ table' \in Seq(VolumeEntry) /\ Len(table') = Len(table) - 1
      /\ \A i \in 1 .. Len(table) - 1 : \E f \in {i, i + 1} :
            /\ f \in 1 .. Len(table) /\ table'[i] = table[f]
            /\ i >= k /\ i <= MaxVol - 2 <=> f = i + 1
    BY <1>1, ShiftKeeps
<1>3. TypeOK'
    <2>1. lost' \in BOOLEAN /\ wild' \in BOOLEAN
        BY Zenon DEF Rvol, VolInv, TypeOK
    <2> QED
        BY <2>1, <1>1, <1>2, DiskAssumption DEF TypeOK
<1>4. ASSUME NEW i \in 1 .. Len(table'), NEW j \in 1 .. Len(table'), i < j,
             Behind(table'[j], table'[i])
      PROVE  Disjoint(table'[i], table'[j])
    <2>1. PICK f \in {i, i + 1} : f \in 1 .. Len(table) /\ table'[i] = table[f]
        BY <1>2
    <2>2. PICK g \in {j, j + 1} : g \in 1 .. Len(table) /\ table'[j] = table[g]
        BY <1>2
    <2>3. f # g
        <3>1. table'[i] \in VolumeEntry
            BY <1>2
        <3> QED
            BY <1>4, <2>1, <2>2, <3>1 DEF Behind, VolumeEntry
    <2>4. f < g
        BY <1>4, <2>1, <2>2, <2>3
    <2> QED
        BY <1>4, <2>1, <2>2, <2>4 DEF VolInv, AppendedApart
<1> QED
    BY <1>3, <1>4 DEF VolInv, AppendedApart

\* mknfs leaves the table alone.
LEMMA MknfsKeeps ==
    ASSUME VolInv, NEW k \in 1 .. MaxVol, NEW h \in Header, Mknfs(k, h)
    PROVE  VolInv'
<1>1. table' = table
    BY DEF Mknfs
<1>2. lost' \in BOOLEAN /\ wild' \in BOOLEAN
    <2>1. wild \in BOOLEAN
        BY DEF VolInv, TypeOK
    <2>2. PICK v \in Entry(k) :
             lost' = (0 \in Written(v, IF k = 1 THEN v ELSE table[1], h))
        BY Zenon DEF Mknfs
    <2>3. wild' = (wild \/ k > Len(table))
        BY Zenon DEF Mknfs
    <2>4. lost' \in BOOLEAN
        <3>1. PICK w : lost' = (0 \in w)
            BY <2>2, Zenon
        <3> QED
            BY <3>1, SMT
    <2>5. wild' \in BOOLEAN
        BY <2>1, <2>3
    <2> QED
        BY <2>4, <2>5
<1> QED
    BY <1>1, <1>2 DEF VolInv, TypeOK, AppendedApart

\* The invariant is inductive.
LEMMA NextVolInv == VolInv /\ [Next]_vars => VolInv'
<1> SUFFICES ASSUME VolInv, [Next]_vars PROVE VolInv'
    OBVIOUS
<1>1. CASE UNCHANGED vars
    BY <1>1 DEF vars, VolInv, TypeOK, AppendedApart
<1>2. CASE Next
    BY <1>2, FrmtKeeps, MkvolKeeps, RvolKeeps, MknfsKeeps DEF Next
<1> QED
    BY <1>1, <1>2

\* The table of the MBR keeps its form for any disk and any number of entries.
THEOREM TableTyped == Spec => []TypeOK
<1>1. VolInv => TypeOK
    BY DEF VolInv
<1> QED
    BY <1>1, InitVolInv, NextVolInv, PTL DEF Spec

\* What mkvol's two lookups guarantee, for any disk: a volume created after
\* another, further on and from the same sector number, shares no sector with it.
THEOREM AppendedVolumesApart == Spec => []AppendedApart
<1>1. VolInv => AppendedApart
    BY DEF VolInv
<1> QED
    BY <1>1, InitVolInv, NextVolInv, PTL DEF Spec

\* A number below n is what is left over by any number of times n.
LEMMA Quotient ==
    ASSUME NEW q \in Nat, NEW m \in Nat, NEW n \in Nat \ {0}, m < n
    PROVE  (q * n + m) \div n = q /\ (q * n + m) % n = m
<1> DEFINE a == q * n + m
           d == a \div n
           e == a % n
<1>1. q * n \in Nat /\ a \in Nat
    BY ProductNat
<1>2. d \in Nat /\ e \in 0 .. n - 1 /\ a = d * n + e
    <2> HIDE DEF a
    <2> QED
        BY <1>1, DivMod
<1> HIDE DEF d, e
<1>3. (d - q) * n = m - e
    <2>1. (d - q) * n = d * n - q * n /\ d * n \in Nat
        BY <1>2, Distributes, ProductNat
    <2> QED
        BY <1>1, <1>2, <2>1
<1>4. d - q = 0
    <2>1. CASE d - q >= 1
        <3>1. d - q \in Nat /\ (d - q - 1) * n \in Nat /\ (d - q) * n = (d - q - 1) * n + n
            BY <1>2, <2>1, ProductNat, Distributes
        <3> QED
            BY <1>2, <1>3, <3>1
    <2>2. CASE d - q <= -1
        <3>1. (q - d - 1) * n \in Nat /\ (d - q) * n = - ((q - d - 1) * n) - n
            <4>1. q - d - 1 \in Nat
                BY <1>2, <2>2
            <4>2. (q - d - 1) * n \in Nat
                BY <4>1, ProductNat
            <4>3. (q - d - 1 + 1) * n = (q - d - 1) * n + 1 * n
                BY <4>1, Distributes
            <4>4. (0 - (q - d)) * n = 0 * n - (q - d) * n
                BY <1>2, Distributes
            <4>5. q - d - 1 + 1 = q - d /\ 0 - (q - d) = d - q /\ 0 * n = 0 /\ 1 * n = n
                BY <1>2
            <4> DEFINE x == (q - d - 1) * n
                       y == (q - d) * n
                       z == (d - q) * n
            <4>6. y = x + n /\ z = 0 - y /\ x \in Nat
                BY <4>2, <4>3, <4>4, <4>5
            <4> HIDE DEF x, y, z
            <4>7. z = - x - n
                BY <4>6
            <4> QED
                BY <4>2, <4>7 DEF x, z
        <3> QED
            BY <1>2, <1>3, <3>1
    <2> QED
        BY <1>2, <2>1, <2>2
<1>5. d = q
    BY <1>2, <1>4
<1>6. e = m
    BY <1>1, <1>2, <1>5
<1> QED
    BY <1>5, <1>6 DEF d, e

\* convert_bloc of what convert_cyl_sec gives for a sector of the disk.
LEMMA BlocOfLookup ==
    ASSUME NEW v \in VolumeEntry, NEW cyl \in Cyl, NEW sec \in Sec,
           ConvertCylSec(v, cyl, sec) # -1
    PROVE  ConvertBloc(v, ConvertCylSec(v, cyl, sec)) = [cyl |-> cyl, sec |-> sec]
<1> DEFINE q == cyl - v.cyl
           b == q * NSec + sec - v.sec
<1>1. /\ v.cyl \in Nat /\ v.sec \in Nat /\ cyl \in Nat /\ sec \in Nat
      /\ NSec \in Nat \ {0} /\ sec < NSec
    BY DiskAssumption DEF VolumeEntry, Cyl, Sec
<1>2. ConvertCylSec(v, cyl, sec) = b /\ ~(cyl < v.cyl)
    BY DEF ConvertCylSec
<1>3. q \in Nat /\ q * NSec \in Nat
    BY <1>1, <1>2, ProductNat
<1>4. v.sec + b = q * NSec + sec
    BY <1>1, <1>3
<1>5. (v.sec + b) \div NSec = q /\ (v.sec + b) % NSec = sec
    <2>1. (q * NSec + sec) \div NSec = q /\ (q * NSec + sec) % NSec = sec
        <3> HIDE DEF q
        <3> QED
            BY <1>1, <1>3, Quotient
    <2> HIDE DEF b
    <2> QED
        BY <1>4, <2>1
<1>6. v.cyl + q = cyl
    BY <1>1
<1> QED
    BY <1>2, <1>5, <1>6 DEF ConvertBloc

\* Every bloc that convert_cyl_sec gives for a sector of the disk is the one whose
\* sector that is, for any geometry.
THEOREM AnswersRight == Spec => []AnswerRight
<1>1. TypeOK => AnswerRight
    <2> SUFFICES ASSUME TypeOK, NEW i \in 1 .. Len(table), NEW cyl \in Cyl, NEW sec \in Sec,
                        ConvertCylSec(table[i], cyl, sec) # -1
                 PROVE  ConvertBloc(table[i], ConvertCylSec(table[i], cyl, sec))
                           = [cyl |-> cyl, sec |-> sec]
        BY DEF AnswerRight
    <2> QED
        BY BlocOfLookup DEF TypeOK
<1> QED
    BY <1>1, TableTyped, PTL

-----------------------------------------------------------------------------

\* mknfs writes over the MBR only through a volume that begins on it.
LEMMA LostStep ==
    ASSUME TypeOK, LostExplained, [Next]_vars
    PROVE  LostExplained'
<1>1. CASE UNCHANGED vars \/ Frmt
  BY <1>1 DEF LostExplained, vars, Frmt
<1>2. ASSUME NEW fc \in Cyl, NEW fs \in Sec, NEW size \in Size, Mkvol(fc, fs, size)
      PROVE  LostExplained'
  BY <1>2 DEF LostExplained, Mkvol
<1>3. ASSUME NEW k \in 1 .. MaxVol, Rvol(k)
      PROVE  LostExplained'
  BY <1>3 DEF LostExplained, Rvol
<1>4. ASSUME NEW k \in 1 .. MaxVol, NEW h \in Header, Mknfs(k, h), lost', ~wild'
      PROVE  \E i \in 1 .. Len(table') : Rank(table'[i]) = 0
  <2> DEFINE v == table[k]
             f == IF k = 1 THEN v ELSE table[1]
  <2>1. /\ k \in 1 .. Len(table) /\ 1 \in 1 .. Len(table) /\ table' = table
        /\ v \in VolumeEntry /\ f \in {v, table[1]} /\ f \in VolumeEntry
    <3>1. ~(k > Len(table)) /\ table' = table
      BY <1>4, Zenon DEF Mknfs
    <3>2. Len(table) \in Nat
      BY DEF TypeOK
    <3> QED
      BY <3>1, <3>2 DEF TypeOK
  <2>2. 0 \in Written(v, f, h)
    <3>1. Entry(k) = {v}
      BY <2>1 DEF Entry
    <3>2. PICK u \in Entry(k) : lost' = (0 \in Written(u, IF k = 1 THEN u ELSE table[1], h))
      BY <1>4, Zenon DEF Mknfs
    <3>3. u = v
      BY <3>1, <3>2
    <3> QED
      BY <1>4, <3>2, <3>3
  <2> HIDE DEF v, f
  <2>3. PICK x \in {v, f}, b \in Nat : Rank(ConvertBloc(x, b)) = 0
    <3>1. Byte * Byte \in Nat
      BY DiskAssumption, ProductNat
    <3>2. SaveBlocs(v, h) \subseteq Nat /\ InodeBlocs(v, h) \subseteq Nat
      BY <3>1 DEF SaveBlocs, InodeBlocs, Header
    <3> QED
      BY <2>2, <3>2 DEF Written, Ranks
  <2>4. Rank(x) + b = 0
    BY <2>1, <2>3, ConvertExact
  <2>5. Rank(x) \in Nat
    <3>1. x.cyl \in Nat /\ x.sec \in Nat /\ NSec \in Nat
      BY <2>1, <2>3, DiskAssumption DEF VolumeEntry
    <3> QED
      BY <3>1, ProductNat DEF Rank
  <2>6. Rank(x) = 0
    BY <2>4, <2>5
  <2> QED
    BY <2>1, <2>3, <2>6 DEF v
<1> QED
  BY <1>1, <1>2, <1>3, <1>4 DEF Next, LostExplained

\* For any disk, any table and whatever the first volume shows it, mknfs only loses the table of the volumes to a volume
\* whose first sector is the MBR, or through an entry that was never filled.
THEOREM TableLostExplained == Spec => []LostExplained
<1>1. Init => LostExplained
  BY DEF Init, LostExplained
<1>2. TypeOK /\ LostExplained /\ [Next]_vars => LostExplained'
  BY LostStep
<1> QED
  BY <1>1, <1>2, TableTyped, PTL DEF Spec

\* rvol's loop closes the gap, for any number of entries less than the table holds.
LEMMA ShiftRemoves ==
    ASSUME TypeOK, Len(table) < MaxVol, NEW k \in 1 .. Len(table)
    PROVE  Shift(table, k) = SubSeq(table, 1, k - 1) \o SubSeq(table, k + 1, Len(table))
<1> DEFINE n == Len(table)
           a == SubSeq(table, 1, k - 1)
           b == SubSeq(table, k + 1, n)
<1>1. n \in Nat /\ MaxVol \in Nat /\ table \in Seq(VolumeEntry)
  BY DiskAssumption DEF TypeOK
<1>2. a \in Seq(VolumeEntry) /\ Len(a) = k - 1 /\ \A i \in 1 .. k - 1 : a[i] = table[i]
  BY <1>1
<1>3. b \in Seq(VolumeEntry) /\ Len(b) = n - k /\ \A i \in 1 .. n - k : b[i] = table[k + i]
  BY <1>1
<1> HIDE DEF a, b
<1> DEFINE s == a \o b
<1>4. /\ s \in Seq(VolumeEntry) /\ Len(s) = Len(a) + Len(b)
      /\ \A i \in 1 .. Len(a) + Len(b) : s[i] = IF i <= Len(a) THEN a[i] ELSE b[i - Len(a)]
  BY <1>2, <1>3, ConcatProperties, Zenon
<1> HIDE DEF s
<1>5. Len(a) + Len(b) = n - 1 /\ s \in [1 .. n - 1 -> VolumeEntry]
  BY <1>1, <1>2, <1>3, <1>4, LenProperties
<1>6. ASSUME NEW i \in 1 .. n - 1
      PROVE  s[i] = IF i \in k .. MaxVol - 2 THEN table[i + 1] ELSE table[i]
  <2>1. CASE i <= k - 1
    BY <1>1, <1>2, <1>4, <1>5, <2>1
  <2>2. CASE i > k - 1
    <3>0. ~(i <= Len(a)) /\ i \in 1 .. Len(a) + Len(b) /\ k \in Int
      BY <1>1, <1>2, <1>5, <2>2
    <3>1. s[i] = b[i - Len(a)] /\ i - Len(a) = i - (k - 1) /\ i - (k - 1) \in 1 .. n - k
      BY <1>1, <1>2, <1>4, <2>2, <3>0
    <3>2. k + (i - (k - 1)) = i + 1 /\ i \in k .. MaxVol - 2
      BY <1>1, <2>2
    <3> QED
      BY <1>3, <3>1, <3>2
  <2> QED
    BY <1>1, <2>1, <2>2
<1>7. s = Shift(table, k)
  BY <1>5, <1>6 DEF Shift
<1> QED
  BY <1>7 DEF a, b, s

\* For any table that is not full, removing a volume takes out its entry and leaves
\* the others as they were, in their order.
THEOREM RemovesOnlyOne == Spec => RemovesOne
<1>1. ASSUME TypeOK, NEW k \in 1 .. MaxVol, Len(table) < MaxVol, Rvol(k)
      PROVE  table' = SubSeq(table, 1, k - 1) \o SubSeq(table, k + 1, Len(table))
  BY <1>1, ShiftRemoves DEF Rvol
<1>2. TypeOK => [\A k \in 1 .. MaxVol : Len(table) < MaxVol /\ Rvol(k) =>
         table' = SubSeq(table, 1, k - 1) \o SubSeq(table, k + 1, Len(table))]_vars
  BY <1>1
<1> QED
  BY <1>2, TableTyped, PTL DEF RemovesOne
=============================================================================
