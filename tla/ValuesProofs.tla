---------------------------- MODULE ValuesProofs ----------------------------
(***************************************************************************)
(* What the conversions of lib/base*.c and lib/inet*.c do to every object  *)
(* of the C types, of which TLC tries some.                                *)
(***************************************************************************)
EXTENDS Values, SequenceTheorems, TLAPS

-----------------------------------------------------------------------------
(* A bisection of a table that is in the order of strcmp finds what a      *)
(* search of the whole table would.                                        *)

Texts == {Strings[n] : n \in DOMAIN Strings}

Intervals(tab) == (1 .. Len(tab) + 1) \X (0 .. Len(tab))
Size(i) == i[2] - i[1] + 1

\* The body of Bisect, for a function f in the place of the recursion.
Halve(tab, s, f, i) ==
    LET mid == (i[1] + i[2]) \div 2
    IN  IF i[1] > i[2] THEN {}
        ELSE IF Rank(s) = Rank(tab[mid].str) THEN {tab[mid].value}
        ELSE IF Rank(s) < Rank(tab[mid].str) THEN f[<<i[1], mid - 1>>]
        ELSE f[<<mid + 1, i[2]>>]

Sorted(tab) ==
    \A m, n \in 1 .. Len(tab) : m < n => Rank(tab[m].str) < Rank(tab[n].str)

IsTable(tab) ==
    /\ Len(tab) \in Nat /\ Len(tab) <= 5
    /\ \A n \in 1 .. Len(tab) : tab[n].str \in Texts
    /\ Sorted(tab)

LEMMA TheStrings ==
    /\ Strings[1] = "" /\ Strings[2] = "115200" /\ Strings[3] = "19200" /\ Strings[4] = "38400"
    /\ Strings[5] = "57600" /\ Strings[6] = "9600" /\ Strings[7] = "IPv4" /\ Strings[8] = "IPv6"
    /\ Strings[9] = "detected" /\ Strings[10] = "disable" /\ Strings[11] = "down"
    /\ Strings[12] = "enable" /\ Strings[13] = "off" /\ Strings[14] = "on" /\ Strings[15] = "up"
    /\ Strings[16] = "zz"
    BY DEF Strings
LEMMA SixteenStrings == Len(Strings) = 16 /\ DOMAIN Strings = 1 .. 16
    BY DEF Strings

LEMMA UpTo16 == \A n \in 1 .. 16 :
    n \in {1, 2, 3, 4, 5, 6, 7, 8, 9, 10, 11, 12, 13, 14, 15, 16}
    OBVIOUS

\* s is one of the strings, at one place.
OnlyAt(s, k) == \A n \in 1 .. 16 : Strings[n] = s <=> n = k

\* The order of strcmp, string by string.
LEMMA Ranks ==
    /\ Rank("115200") = 2 /\ Rank("19200") = 3 /\ Rank("38400") = 4 /\ Rank("57600") = 5
    /\ Rank("9600") = 6 /\ Rank("IPv4") = 7 /\ Rank("IPv6") = 8 /\ Rank("detected") = 9
    /\ Rank("disable") = 10 /\ Rank("down") = 11 /\ Rank("enable") = 12 /\ Rank("off") = 13
    /\ Rank("on") = 14 /\ Rank("up") = 15
<1>1. \A s : \A k \in 1 .. 16 : OnlyAt(s, k) => Rank(s) = k
    BY SixteenStrings DEF Rank, OnlyAt
<1>2. /\ OnlyAt("115200", 2)
      /\ OnlyAt("19200", 3)
      /\ OnlyAt("38400", 4)
      /\ OnlyAt("57600", 5)
      /\ OnlyAt("9600", 6)
      /\ OnlyAt("IPv4", 7)
      /\ OnlyAt("IPv6", 8)
    BY TheStrings, UpTo16 DEF OnlyAt
<1>3. /\ OnlyAt("detected", 9)
      /\ OnlyAt("disable", 10)
      /\ OnlyAt("down", 11)
      /\ OnlyAt("enable", 12)
      /\ OnlyAt("off", 13)
      /\ OnlyAt("on", 14)
      /\ OnlyAt("up", 15)
    BY TheStrings, UpTo16 DEF OnlyAt
<1> QED
    BY <1>1, <1>2, <1>3

LEMMA TextRank ==
    \A s \in Texts : Rank(s) \in 1 .. 16 /\ Strings[Rank(s)] = s
    BY SixteenStrings DEF Rank, Texts

\* The middle of an interval that is not empty.
LEMMA Middle ==
    ASSUME NEW lo \in Nat, NEW hi \in Nat, lo <= hi
    PROVE  (lo + hi) \div 2 \in lo .. hi
    OBVIOUS

\* The lengths of the two parts of an interval, against its own.
LEMMA Shorter ==
    ASSUME NEW lo \in Int, NEW hi \in Int, NEW mid \in Int, lo <= mid, mid <= hi
    PROVE  /\ hi - lo + 1 \in Int
           /\ (mid - 1) - lo + 1 \in Int /\ (mid - 1) - lo + 1 < hi - lo + 1
           /\ hi - (mid + 1) + 1 \in Int /\ hi - (mid + 1) + 1 < hi - lo + 1
    OBVIOUS

\* What is left to search is shorter, wherever the interval is parted.
LEMMA Parted ==
    ASSUME NEW tab, Len(tab) \in Nat, NEW i \in Intervals(tab), NEW mid \in i[1] .. i[2]
    PROVE  /\ mid \in 1 .. Len(tab)
           /\ <<i[1], mid - 1>> \in Intervals(tab) /\ Size(<<i[1], mid - 1>>) < Size(i)
           /\ <<mid + 1, i[2]>> \in Intervals(tab) /\ Size(<<mid + 1, i[2]>>) < Size(i)
           /\ Size(i) \in Int /\ Size(<<i[1], mid - 1>>) \in Int /\ Size(<<mid + 1, i[2]>>) \in Int
<1>1. i[1] \in 1 .. Len(tab) + 1 /\ i[2] \in 0 .. Len(tab)
    BY DEF Intervals
<1>2. mid \in Int /\ i[1] <= mid /\ mid <= i[2]
    BY <1>1
<1>3. mid \in 1 .. Len(tab)
    BY <1>1, <1>2
<1>4. /\ mid - 1 \in 0 .. Len(tab) /\ mid + 1 \in 1 .. Len(tab) + 1
    BY <1>1, <1>2
<1>5. <<i[1], mid - 1>> \in Intervals(tab)
    BY <1>1, <1>4, Zenon DEF Intervals
<1>6. <<mid + 1, i[2]>> \in Intervals(tab)
    BY <1>1, <1>4, Zenon DEF Intervals
<1>7. /\ Size(i) = i[2] - i[1] + 1
      /\ Size(<<i[1], mid - 1>>) = (mid - 1) - i[1] + 1
      /\ Size(<<mid + 1, i[2]>>) = i[2] - (mid + 1) + 1
    BY DEF Size
<1>8. i[1] \in Int /\ i[2] \in Int
    BY <1>1
<1>9. /\ Size(i) \in Int
      /\ Size(<<i[1], mid - 1>>) \in Int /\ Size(<<i[1], mid - 1>>) < Size(i)
      /\ Size(<<mid + 1, i[2]>>) \in Int /\ Size(<<mid + 1, i[2]>>) < Size(i)
    <2>1. /\ i[2] - i[1] + 1 \in Int
          /\ (mid - 1) - i[1] + 1 \in Int /\ (mid - 1) - i[1] + 1 < i[2] - i[1] + 1
          /\ i[2] - (mid + 1) + 1 \in Int /\ i[2] - (mid + 1) + 1 < i[2] - i[1] + 1
        BY <1>2, <1>8, Shorter, Zenon
    <2> QED
        BY <1>7, <2>1, Zenon
<1> QED
    BY <1>3, <1>5, <1>6, <1>9

\* Parted in the middle, as the bisection does.
LEMMA Halves ==
    ASSUME NEW tab, Len(tab) \in Nat, NEW i \in Intervals(tab), i[1] <= i[2],
           NEW mid, mid = (i[1] + i[2]) \div 2
    PROVE  /\ mid \in i[1] .. i[2] /\ mid \in 1 .. Len(tab)
           /\ <<i[1], mid - 1>> \in Intervals(tab) /\ Size(<<i[1], mid - 1>>) < Size(i)
           /\ <<mid + 1, i[2]>> \in Intervals(tab) /\ Size(<<mid + 1, i[2]>>) < Size(i)
           /\ Size(i) \in Int /\ Size(<<i[1], mid - 1>>) \in Int /\ Size(<<mid + 1, i[2]>>) \in Int
<1>1. i[1] \in Nat /\ i[2] \in Nat
    BY DEF Intervals
<1>2. mid \in i[1] .. i[2]
    BY <1>1, Middle
<1> HIDE DEF Intervals, Size
<1> QED
    BY <1>2, Parted

\* Two functions that agree on intervals of k entries give two that agree on
\* those of k + 1.
LEMMA HalveAgrees ==
    ASSUME NEW tab, Len(tab) \in Nat, NEW s, NEW f, NEW g, NEW k \in Nat,
           \A i \in Intervals(tab) : Size(i) <= k => f[i] = g[i]
    PROVE  \A i \in Intervals(tab) :
               Size(i) <= k + 1 => Halve(tab, s, f, i) = Halve(tab, s, g, i)
<1> SUFFICES ASSUME NEW i \in Intervals(tab), Size(i) <= k + 1
             PROVE  Halve(tab, s, f, i) = Halve(tab, s, g, i)
    OBVIOUS
<1>1. CASE i[1] > i[2]
    BY <1>1 DEF Halve
<1>2. CASE ~(i[1] > i[2])
    <2> DEFINE mid == (i[1] + i[2]) \div 2
    <2>0. i[1] <= i[2]
        BY <1>2 DEF Intervals
    <2>1. /\ <<i[1], mid - 1>> \in Intervals(tab) /\ Size(<<i[1], mid - 1>>) <= k
          /\ <<mid + 1, i[2]>> \in Intervals(tab) /\ Size(<<mid + 1, i[2]>>) <= k
        BY <2>0, Halves
    <2>2. f[<<i[1], mid - 1>>] = g[<<i[1], mid - 1>>] /\ f[<<mid + 1, i[2]>>] = g[<<mid + 1, i[2]>>]
        BY <2>1
    <2> QED
        BY <2>2 DEF Halve
<1> QED
    BY <1>1, <1>2

\* The recursion is well founded: there is a function that its body maps to
\* itself, reached from any by as many rounds as the longest table has entries.
LEMMA FixedPoint ==
    ASSUME NEW tab, Len(tab) \in Nat, Len(tab) <= 5, NEW s
    PROVE  \E f : f = [i \in Intervals(tab) |-> Halve(tab, s, f, i)]
<1> DEFINE F(f) == [i \in Intervals(tab) |-> Halve(tab, s, f, i)]
           Agree(f, g, k) == \A i \in Intervals(tab) : Size(i) <= k => f[i] = g[i]
           f0 == [i \in Intervals(tab) |-> {}]
           f1 == F(f0)
           f2 == F(f1)
           f3 == F(f2)
           f4 == F(f3)
           f5 == F(f4)
           f6 == F(f5)
           f7 == F(f6)
<1>1. \A f, g : \A k \in Nat : Agree(f, g, k) => Agree(F(f), F(g), k + 1)
    BY HalveAgrees
<1>2. \A i \in Intervals(tab) : Size(i) \in Int /\ Size(i) <= 5
    <2> TAKE i \in Intervals(tab)
    <2>1. i[1] \in Int /\ i[2] \in Int /\ i[1] >= 1 /\ i[2] <= 5
        BY DEF Intervals
    <2> QED
        BY <2>1 DEF Size
<1>3. Agree(f1, f2, 0)
    <2> SUFFICES ASSUME NEW i \in Intervals(tab), Size(i) <= 0
                 PROVE  f1[i] = f2[i]
        OBVIOUS
    <2>1. i[1] \in Int /\ i[2] \in Int
        BY DEF Intervals
    <2>2. i[1] > i[2]
        BY <2>1 DEF Size
    <2>3. Halve(tab, s, f0, i) = {} /\ Halve(tab, s, f1, i) = {}
        BY <2>2 DEF Halve
    <2> QED
        BY <2>3
<1> HIDE DEF F, Agree, f0
<1>4. Agree(f2, f3, 1)
    BY <1>1, <1>3
<1>5. Agree(f3, f4, 2)
    BY <1>1, <1>4
<1>6. Agree(f4, f5, 3)
    BY <1>1, <1>5
<1>7. Agree(f5, f6, 4)
    BY <1>1, <1>6
<1>8. Agree(f6, f7, 5)
    BY <1>1, <1>7
<1>9. f6 = F(f6)
    BY <1>2, <1>8 DEF F, Agree
<1> QED
    BY <1>9 DEF F

\* What a search of the whole interval finds.
In(tab, s, i) == {tab[n].value : n \in {m \in i[1] .. i[2] : tab[m].str = s}}

LEMMA HalveFinds ==
    ASSUME NEW tab, IsTable(tab), NEW s \in Texts, NEW f, NEW k \in Nat,
           \A i \in Intervals(tab) : Size(i) <= k => f[i] = In(tab, s, i)
    PROVE  \A i \in Intervals(tab) : Size(i) <= k + 1 => Halve(tab, s, f, i) = In(tab, s, i)
<1> SUFFICES ASSUME NEW i \in Intervals(tab), Size(i) <= k + 1
             PROVE  Halve(tab, s, f, i) = In(tab, s, i)
    OBVIOUS
<1> DEFINE mid == (i[1] + i[2]) \div 2
           left == <<i[1], mid - 1>>
           right == <<mid + 1, i[2]>>
<1>0. i[1] \in 1 .. Len(tab) + 1 /\ i[2] \in 0 .. Len(tab) /\ Len(tab) \in Nat /\ Len(tab) <= 5
    BY DEF Intervals, IsTable
<1>1. CASE i[1] > i[2]
    <2>1. i[1] .. i[2] = {}
        BY <1>0, <1>1
    <2> QED
        BY <1>1, <2>1 DEF Halve, In
<1>2. CASE ~(i[1] > i[2])
    <2>0. i[1] <= i[2]
        BY <1>0, <1>2
    <2>1. /\ mid \in i[1] .. i[2] /\ mid \in 1 .. Len(tab)
          /\ left \in Intervals(tab) /\ Size(left) <= k
          /\ right \in Intervals(tab) /\ Size(right) <= k
        <3>1. /\ mid \in i[1] .. i[2] /\ mid \in 1 .. Len(tab)
              /\ left \in Intervals(tab) /\ Size(left) < Size(i)
              /\ right \in Intervals(tab) /\ Size(right) < Size(i)
              /\ Size(i) \in Int /\ Size(left) \in Int /\ Size(right) \in Int
            BY <1>0, <2>0, Halves
        <3> QED
            BY <3>1
    <2>2. f[left] = In(tab, s, left) /\ f[right] = In(tab, s, right)
        BY <2>1
    <2>3. left[1] = i[1] /\ left[2] = mid - 1 /\ right[1] = mid + 1 /\ right[2] = i[2]
        OBVIOUS
    <2> HIDE DEF mid, left, right
    <2>4. Halve(tab, s, f, i) =
              IF Rank(s) = Rank(tab[mid].str) THEN {tab[mid].value}
              ELSE IF Rank(s) < Rank(tab[mid].str) THEN f[left] ELSE f[right]
        BY <1>2 DEF Halve, mid, left, right
    <2>5. /\ Rank(s) \in Int
          /\ \A m \in 1 .. Len(tab) :
                Rank(tab[m].str) \in Int /\ (Rank(tab[m].str) = Rank(s) <=> tab[m].str = s)
        BY TextRank DEF IsTable
    <2>6. \A m, n \in 1 .. Len(tab) : m < n => Rank(tab[m].str) < Rank(tab[n].str)
        BY DEF IsTable, Sorted
    <2>7. CASE Rank(s) = Rank(tab[mid].str)
        <3>1. \A m \in i[1] .. i[2] : tab[m].str = s <=> m = mid
            <4> SUFFICES ASSUME NEW m \in i[1] .. i[2] PROVE tab[m].str = s <=> m = mid
                OBVIOUS
            <4>1. m \in 1 .. Len(tab) /\ m \in Int /\ mid \in Int
                BY <1>0, <2>1
            <4>2. tab[mid].str = s
                BY <2>1, <2>5, <2>7
            <4>3. m < mid => tab[m].str # s
                BY <2>1, <2>5, <2>6, <2>7, <4>1
            <4>4. mid < m => tab[m].str # s
                BY <2>1, <2>5, <2>6, <2>7, <4>1
            <4> QED
                BY <4>1, <4>2, <4>3, <4>4
        <3> QED
            BY <2>1, <2>4, <2>7, <3>1 DEF In
    <2>8. CASE Rank(s) < Rank(tab[mid].str)
        <3>1. \A m \in i[1] .. i[2] : tab[m].str = s => m \in left[1] .. left[2]
            <4> SUFFICES ASSUME NEW m \in i[1] .. i[2], tab[m].str = s
                         PROVE  m < mid
                BY <1>0, <2>1, <2>3
            <4>1. m \in 1 .. Len(tab) /\ Rank(tab[m].str) = Rank(s)
                BY <1>0, <2>1
            <4> QED
                BY <1>0, <2>1, <2>5, <2>6, <2>8, <4>1
        <3>2. left[1] .. left[2] \subseteq i[1] .. i[2]
            BY <1>0, <2>1, <2>3
        <3>3. In(tab, s, left) = In(tab, s, i)
            BY <3>1, <3>2 DEF In
        <3> QED
            BY <2>2, <2>4, <2>5, <2>8, <3>3, <2>1
    <2>9. CASE Rank(s) > Rank(tab[mid].str)
        <3>1. \A m \in i[1] .. i[2] : tab[m].str = s => m \in right[1] .. right[2]
            <4> SUFFICES ASSUME NEW m \in i[1] .. i[2], tab[m].str = s
                         PROVE  m > mid
                BY <1>0, <2>1, <2>3
            <4>1. m \in 1 .. Len(tab) /\ Rank(tab[m].str) = Rank(s)
                BY <1>0, <2>1
            <4> QED
                BY <1>0, <2>1, <2>5, <2>6, <2>9, <4>1
        <3>2. right[1] .. right[2] \subseteq i[1] .. i[2]
            BY <1>0, <2>1, <2>3
        <3>3. In(tab, s, right) = In(tab, s, i)
            BY <3>1, <3>2 DEF In
        <3> QED
            BY <2>2, <2>4, <2>5, <2>9, <3>3, <2>1
    <2> QED
        BY <2>1, <2>5, <2>7, <2>8, <2>9
<1> QED
    BY <1>1, <1>2

LEMMA BisectIs ==
    ASSUME NEW tab, NEW s
    PROVE  Bisect(tab, s) =
               (CHOOSE f : f = [i \in Intervals(tab) |-> Halve(tab, s, f, i)])[<<1, Len(tab)>>]
    BY DEF Bisect, Halve, Intervals

\* stroll_array_bisect_search on such a table is a search of it.
THEOREM BisectFinds ==
    ASSUME NEW tab, IsTable(tab), NEW s \in Texts
    PROVE  Bisect(tab, s) = {tab[n].value : n \in {m \in 1 .. Len(tab) : tab[m].str = s}}
<1> DEFINE f == CHOOSE g : g = [i \in Intervals(tab) |-> Halve(tab, s, g, i)]
           Finds(k) == \A i \in Intervals(tab) : Size(i) <= k => f[i] = In(tab, s, i)
<1>0. Len(tab) \in Nat /\ Len(tab) <= 5
    BY DEF IsTable
<1>1. f = [i \in Intervals(tab) |-> Halve(tab, s, f, i)]
    BY <1>0, FixedPoint
<1>2. Bisect(tab, s) = f[<<1, Len(tab)>>]
    BY BisectIs
<1> HIDE DEF f
<1>3. ASSUME NEW k \in Nat, Finds(k) PROVE Finds(k + 1)
    BY <1>1, <1>3, HalveFinds
<1>4. Finds(0)
    <2> SUFFICES ASSUME NEW i \in Intervals(tab), Size(i) <= 0
                 PROVE  f[i] = In(tab, s, i)
        OBVIOUS
    <2>1. i[1] > i[2] /\ i[1] .. i[2] = {}
        BY <1>0 DEF Intervals, Size
    <2> QED
        BY <1>1, <2>1 DEF Halve, In
<1> HIDE DEF Finds
<1>5. Finds(1)
    BY <1>3, <1>4
<1>6. Finds(2)
    BY <1>3, <1>5
<1>7. Finds(3)
    BY <1>3, <1>6
<1>8. Finds(4)
    BY <1>3, <1>7
<1>9. Finds(5)
    BY <1>3, <1>8
<1>10. f[<<1, Len(tab)>>] = In(tab, s, <<1, Len(tab)>>)
    <2>1. <<1, Len(tab)>> \in Intervals(tab) /\ Size(<<1, Len(tab)>>) <= 5
        BY <1>0 DEF Intervals, Size
    <2> QED
        BY <1>9, <2>1 DEF Finds
<1> QED
    BY <1>2, <1>10 DEF In

-----------------------------------------------------------------------------
(* The enumerations.                                                       *)

LEMMA NamesAreTexts ==
    /\ {"115200", "19200", "38400", "57600", "9600"} \subseteq Texts
    /\ {"IPv4", "IPv6", "detected", "disable", "down"} \subseteq Texts
    /\ {"enable", "off", "on", "up"} \subseteq Texts
<1>1. \A n \in 1 .. 16 : Strings[n] \in Texts
    BY SixteenStrings DEF Texts
<1>2. /\ Strings[2] \in Texts /\ Strings[3] \in Texts /\ Strings[4] \in Texts
      /\ Strings[5] \in Texts /\ Strings[6] \in Texts /\ Strings[7] \in Texts
      /\ Strings[8] \in Texts /\ Strings[9] \in Texts /\ Strings[10] \in Texts
      /\ Strings[11] \in Texts /\ Strings[12] \in Texts /\ Strings[13] \in Texts
      /\ Strings[14] \in Texts /\ Strings[15] \in Texts
    BY <1>1
<1> QED
    BY <1>2, TheStrings

\* A table as the library needs it: in order, and indexed from 1.
LEMMA TablesInOrder ==
    ASSUME NEW t \in Enums
    PROVE  /\ IsTable(Table(t))
           /\ DOMAIN Table(t) = 1 .. Len(Table(t))
           /\ \A n \in 1 .. Len(Table(t)) : Table(t)[n].value \in Int
<1> DEFINE Good(tab) == /\ IsTable(tab)
                        /\ DOMAIN tab = 1 .. Len(tab)
                        /\ \A n \in 1 .. Len(tab) : tab[n].value \in Int
<1>1. Good(bauds)
    <2>1. Len(bauds) = 5 /\ DOMAIN bauds = 1 .. 5
        BY DEF bauds
    <2>2. /\ bauds[1].str = "115200" /\ bauds[1].value = 115200
          /\ bauds[2].str = "19200" /\ bauds[2].value = 19200
          /\ bauds[3].str = "38400" /\ bauds[3].value = 38400
          /\ bauds[4].str = "57600" /\ bauds[4].value = 57600
          /\ bauds[5].str = "9600" /\ bauds[5].value = 9600
        BY DEF bauds, Entry
    <2>3. \A n \in 1 .. 5 : n \in {1, 2, 3, 4, 5}
        OBVIOUS
    <2>4. \A n \in 1 .. 5 : bauds[n].str \in Texts /\ bauds[n].value \in Int
        BY <2>2, <2>3, NamesAreTexts
    <2>5. Sorted(bauds)
        BY <2>1, <2>2, <2>3, Ranks DEF Sorted
    <2> QED
        BY <2>1, <2>4, <2>5 DEF IsTable
<1>2. Good(toggle)
    <2>1. Len(toggle) = 2 /\ DOMAIN toggle = 1 .. 2
        BY DEF toggle
    <2>2. /\ toggle[1].str = "disable" /\ toggle[1].value = 0
          /\ toggle[2].str = "enable" /\ toggle[2].value = 1
        BY DEF toggle, Entry
    <2>3. \A n \in 1 .. 2 : n \in {1, 2}
        OBVIOUS
    <2>4. \A n \in 1 .. 2 : toggle[n].str \in Texts /\ toggle[n].value \in Int
        BY <2>2, <2>3, NamesAreTexts
    <2>5. Sorted(toggle)
        BY <2>1, <2>2, <2>3, Ranks DEF Sorted
    <2> QED
        BY <2>1, <2>4, <2>5 DEF IsTable
<1>3. Good(power)
    <2>1. Len(power) = 2 /\ DOMAIN power = 1 .. 2
        BY DEF power
    <2>2. /\ power[1].str = "off" /\ power[1].value = 0
          /\ power[2].str = "on" /\ power[2].value = 1
        BY DEF power, Entry
    <2>3. \A n \in 1 .. 2 : n \in {1, 2}
        OBVIOUS
    <2>4. \A n \in 1 .. 2 : power[n].str \in Texts /\ power[n].value \in Int
        BY <2>2, <2>3, NamesAreTexts
    <2>5. Sorted(power)
        BY <2>1, <2>2, <2>3, Ranks DEF Sorted
    <2> QED
        BY <2>1, <2>4, <2>5 DEF IsTable
<1>4. Good(link_state)
    <2>1. Len(link_state) = 3 /\ DOMAIN link_state = 1 .. 3
        BY DEF link_state
    <2>2. /\ link_state[1].str = "detected" /\ link_state[1].value = 2
          /\ link_state[2].str = "down" /\ link_state[2].value = 0
          /\ link_state[3].str = "up" /\ link_state[3].value = 1
        BY DEF link_state, Entry
    <2>3. \A n \in 1 .. 3 : n \in {1, 2, 3}
        OBVIOUS
    <2>4. \A n \in 1 .. 3 : link_state[n].str \in Texts /\ link_state[n].value \in Int
        BY <2>2, <2>3, NamesAreTexts
    <2>5. Sorted(link_state)
        BY <2>1, <2>2, <2>3, Ranks DEF Sorted
    <2> QED
        BY <2>1, <2>4, <2>5 DEF IsTable
<1>5. Good(ip_type)
    <2>1. Len(ip_type) = 2 /\ DOMAIN ip_type = 1 .. 2
        BY DEF ip_type
    <2>2. /\ ip_type[1].str = "IPv4" /\ ip_type[1].value = 2
          /\ ip_type[2].str = "IPv6" /\ ip_type[2].value = 10
        BY DEF ip_type, Entry
    <2>3. \A n \in 1 .. 2 : n \in {1, 2}
        OBVIOUS
    <2>4. \A n \in 1 .. 2 : ip_type[n].str \in Texts /\ ip_type[n].value \in Int
        BY <2>2, <2>3, NamesAreTexts
    <2>5. Sorted(ip_type)
        BY <2>1, <2>2, <2>3, Ranks DEF Sorted
    <2> QED
        BY <2>1, <2>4, <2>5 DEF IsTable
<1> QED
    BY <1>1, <1>2, <1>3, <1>4, <1>5 DEF Table, Enums

\* A name stands for one value, and what a value is called is a name of it.
THEOREM EnumLookup ==
    ASSUME NEW t \in Enums
    PROVE  /\ \A s \in Texts :
                  /\ from_str(t, s) = {Table(t)[n].value :
                                          n \in {m \in DOMAIN Table(t) : Table(t)[m].str = s}}
                  /\ \A v \in from_str(t, s) : v \in Int /\ s \in to_str(t, v)
                  /\ \A v, w \in from_str(t, s) : v = w
           /\ \A v : \A s \in to_str(t, v) : s \in Texts /\ from_str(t, s) = {v}
<1> DEFINE tab == Table(t)
<1>1. IsTable(tab) /\ DOMAIN tab = 1 .. Len(tab) /\ \A n \in 1 .. Len(tab) : tab[n].value \in Int
    BY TablesInOrder
<1>2. \A s \in Texts : from_str(t, s) = {tab[n].value : n \in {m \in 1 .. Len(tab) : tab[m].str = s}}
    BY <1>1, BisectFinds DEF from_str
<1>3. \A m, n \in 1 .. Len(tab) : tab[m].str = tab[n].str => m = n
    <2> SUFFICES ASSUME NEW m \in 1 .. Len(tab), NEW n \in 1 .. Len(tab), tab[m].str = tab[n].str
                 PROVE  m = n
        OBVIOUS
    <2>1. Len(tab) \in Nat /\ Rank(tab[m].str) \in Int
        BY <1>1, TextRank DEF IsTable
    <2>2. ~(m < n) /\ ~(n < m)
        BY <1>1, <2>1 DEF IsTable, Sorted
    <2> QED
        BY <2>1, <2>2
<1>4. \A v : to_str(t, v) = {tab[n].str : n \in {m \in 1 .. Len(tab) : tab[m].value = v}}
    BY <1>1 DEF to_str
<1>5. \A n \in 1 .. Len(tab) : tab[n].str \in Texts
    BY <1>1 DEF IsTable
<1> HIDE DEF tab
<1>6. \A s \in Texts : \A v \in from_str(t, s) : v \in Int /\ s \in to_str(t, v)
    BY <1>1, <1>2, <1>4
<1>7. \A s \in Texts : \A v, w \in from_str(t, s) : v = w
    BY <1>2, <1>3
<1>8. \A v : \A s \in to_str(t, v) : s \in Texts /\ from_str(t, s) = {v}
    <2> SUFFICES ASSUME NEW v, NEW s \in to_str(t, v)
                 PROVE  s \in Texts /\ from_str(t, s) = {v}
        OBVIOUS
    <2> PICK n \in 1 .. Len(tab) : tab[n].value = v /\ tab[n].str = s
        BY <1>4
    <2> QED
        BY <1>2, <1>3, <1>5
<1> QED
    BY <1>1, <1>2, <1>6, <1>7, <1>8 DEF tab

-----------------------------------------------------------------------------
(* The stream.                                                             *)

Scalars == Types \ Structs

LEMMA ScalarKinds ==
    Scalars = Enums \cup Uints \cup Addrs \cup {"name", "time"}
    BY DEF Scalars, Types, Structs, Nets, Enums, Uints, Addrs

LEMMA KindsApart ==
    ASSUME NEW t
    PROVE  /\ t \in Enums => t \notin Uints \cup Addrs \cup {"name", "time"}
           /\ t \in Uints => t \notin Enums \cup Addrs \cup {"name", "time"}
           /\ t \in Addrs => t \notin Enums \cup Uints \cup {"name", "time"}
           /\ t \in {"name", "time"} => t \notin Enums \cup Uints \cup Addrs
    BY DEF Enums, Uints, Addrs

LEMMA StructsApart ==
    ASSUME NEW t
    PROVE  t \in Structs => t \notin Enums \cup Uints \cup Addrs \cup {"name", "time"}
    BY DEF Enums, Uints, Addrs, Structs, Nets

LEMMA UintType ==
    ASSUME NEW t \in Uints
    PROVE  CType(t) = 0 .. Width(t) - 1 /\ Width(t) \in {256, 65536}
    BY KindsApart DEF CType, Width

\* The two larger CASEs, arm by arm.
LEMMA CTypeIs ==
    ASSUME NEW t
    PROVE  /\ t \in Enums => CType(t) = Int
           /\ t \in Addrs => CType(t) = SUBSET (0 .. Bits(t) - 1)
           /\ t = "name" => CType(t) = Nat
           /\ t = "time" => CType(t) = [sec : Int, ns : Int]
    BY KindsApart DEF CType

LEMMA ScalarChkIs ==
    ASSUME NEW t, NEW v
    PROVE  /\ t \in Enums => (ScalarChk(t, v) <=> to_str(t, v) # {})
           /\ t \in Addrs => ScalarChk(t, v)
           /\ t = "name" => (ScalarChk(t, v) <=> hed_chk_name(v))
           /\ t = "time" => (ScalarChk(t, v) <=> hed_check_time(v))
<1>1. t \in Enums => (ScalarChk(t, v) <=> to_str(t, v) # {})
    BY KindsApart DEF ScalarChk, Uints
<1>2. t \in Addrs => ScalarChk(t, v)
    BY KindsApart DEF ScalarChk, Uints
<1>3. t = "name" => (ScalarChk(t, v) <=> hed_chk_name(v))
    BY KindsApart DEF ScalarChk, Uints
<1>4. t = "time" => (ScalarChk(t, v) <=> hed_check_time(v))
    BY KindsApart DEF ScalarChk, Uints
<1> QED
    BY <1>1, <1>2, <1>3, <1>4

LEMMA BitsAre ==
    Bits("ether_addr") = 48 /\ Bits("in_addr") = 32 /\ Bits("in6_addr") = 128
    BY DEF Bits

LEMMA StructMembers ==
    ASSUME NEW t \in Structs
    PROVE  /\ Members(t)[1] \in Addrs /\ Members(t)[2] \in Uints
           /\ Members(t)[1] \in Scalars /\ Members(t)[2] \in Scalars
           /\ t \in Nets => \/ t = "in_net" /\ Members(t) = in_net
                            \/ t = "in6_net" /\ Members(t) = in6_net
<1>1. t \in {"in_svc", "in6_svc", "in_net", "in6_net"}
    BY DEF Structs, Nets
<1>2. Members(t)[1] \in Addrs /\ Members(t)[2] \in Uints
    BY <1>1 DEF Members, in_svc, in6_svc, in_net, in6_net, Addrs, Uints
<1>3. t \in Nets => \/ t = "in_net" /\ Members(t) = in_net
                    \/ t = "in6_net" /\ Members(t) = in6_net
    BY DEF Members, Nets
<1> QED
    BY <1>2, <1>3, ScalarKinds

ItemOf(t, v) == Write(t, v)[1]

LEMMA WriteIsItem ==
    ASSUME NEW t \in Scalars, NEW v
    PROVE  Write(t, v) = <<ItemOf(t, v)>>
    BY ScalarKinds DEF Write, Item, ItemOf

LEMMA ReadNothing ==
    ASSUME NEW t \in Scalars
    PROVE  Read(t, <<>>) = {}
    BY ScalarKinds DEF Read, Expect

LEMMA ReadOne ==
    ASSUME NEW t \in Scalars, NEW w, NEW x \in Read(t, w), NEW y \in Read(t, w)
    PROVE  x = y
    BY ScalarKinds DEF Read, Expect

\* s_addr keeps every bit: HostBit is its own inverse.
LEMMA WiredTwice ==
    ASSUME NEW t \in Addrs, NEW a \in CType(t)
    PROVE  Wired(t, Wired(t, a)) = a
<1>1. CASE t # "in_addr"
    BY <1>1 DEF Wired
<1>2. CASE t = "in_addr"
    <2>1. a \subseteq Nat
        BY <1>2, CTypeIs, BitsAre
    <2>2. \A b \in Nat : HostBit(HostBit(b)) = b
        BY DEF HostBit, ByteBit
    <2> QED
        BY <1>2, <2>1, <2>2 DEF Wired
<1> QED
    BY <1>1, <1>2

\* hed_decode_* of what hed_encode_* wrote is the object, of any C type.
LEMMA ReadsBack ==
    ASSUME NEW t \in Scalars, NEW v \in CType(t)
    PROVE  Read(t, Write(t, v)) = {v}
<1>1. CASE t \in Enums
    <2>1. Write(t, v) = Item("int", v) /\ Read(t, Item("int", v)) = Expect("int", Item("int", v))
        BY <1>1, KindsApart DEF Write, Read
    <2> QED
        BY <2>1 DEF Expect, Item
<1>2. CASE t \in Uints
    <2>1. v \in Int /\ v < Width(t)
        BY <1>2, UintType
    <2>2. Write(t, v) = Item("int", v)
        BY <1>2, KindsApart DEF Write
    <2>3. Read(t, Item("int", v)) = {n \in Expect("int", Item("int", v)) : n < Width(t)}
        BY <1>2, KindsApart DEF Read
    <2>4. Expect("int", Item("int", v)) = {v}
        BY DEF Expect, Item
    <2> QED
        BY <2>1, <2>2, <2>3, <2>4
<1>3. CASE t \in Addrs
    <2>1. Write(t, v) = Item(AddrKind(t), Wired(t, v))
        BY <1>3, KindsApart DEF Write
    <2>2. \A w : Read(t, w) = {Wired(t, d) : d \in Expect(AddrKind(t), w)}
        BY <1>3, KindsApart DEF Read
    <2>3. Expect(AddrKind(t), Item(AddrKind(t), Wired(t, v))) = {Wired(t, v)}
        BY DEF Expect, Item
    <2>4. Read(t, Write(t, v)) = {Wired(t, Wired(t, v))}
        BY <2>1, <2>2, <2>3
    <2> QED
        BY <1>3, <2>4, WiredTwice
<1>4. CASE t \in {"name", "time"}
    BY <1>4 DEF Read, Write, Expect, Item, Enums, Uints, Addrs
<1> QED
    BY <1>1, <1>2, <1>3, <1>4, ScalarKinds

\* Two appended items; and three.
LEMMA TwoItems ==
    ASSUME NEW x, NEW y
    PROVE  <<x>> \o <<y>> = <<x, y>>
<1> DEFINE S == {x, y}
<1>1. <<x>> \in Seq(S) /\ <<y>> \in Seq(S) /\ <<x, y>> \in Seq(S)
    OBVIOUS
<1>2. <<x>> \o <<y>> \in Seq(S) /\ Len(<<x>> \o <<y>>) = 2
    BY <1>1
<1>3. (<<x>> \o <<y>>)[1] = x /\ (<<x>> \o <<y>>)[2] = y
    BY <1>1
<1>4. \A i \in 1 .. 2 : i = 1 \/ i = 2
    OBVIOUS
<1>5. \A i \in 1 .. 2 : (<<x>> \o <<y>>)[i] = <<x, y>>[i]
    BY <1>3, <1>4
<1> HIDE DEF S
<1> QED
    BY <1>1, <1>2, <1>5, SeqEqual

LEMMA ThreeItems ==
    ASSUME NEW x, NEW y, NEW z
    PROVE  <<x>> \o <<y>> \o <<z>> = <<x, y, z>>
<1> DEFINE S == {x, y, z}
           w == <<x, y>> \o <<z>>
<1>1. <<x, y>> \in Seq(S) /\ <<z>> \in Seq(S) /\ <<x, y, z>> \in Seq(S)
    OBVIOUS
<1>2. w \in Seq(S) /\ Len(w) = 3
    BY <1>1
<1>3. w[1] = x /\ w[2] = y /\ w[3] = z
    BY <1>1
<1>4. \A i \in 1 .. 3 : i = 1 \/ i = 2 \/ i = 3
    OBVIOUS
<1>5. \A i \in 1 .. 3 : w[i] = <<x, y, z>>[i]
    BY <1>3, <1>4
<1> HIDE DEF S
<1>6. w = <<x, y, z>>
    <2> HIDE DEF w
    <2> QED
        BY <1>1, <1>2, <1>5, SeqEqual
<1> QED
    BY <1>6, TwoItems

Header == [kind |-> "array", data |-> 2]

LEMMA EncodeIs ==
    ASSUME NEW t \in Types, NEW v
    PROVE  /\ t \in Scalars => Encode(t, v) = <<ItemOf(t, v)>>
           /\ t \in Structs =>
                Encode(t, v) = <<Header, ItemOf(Members(t)[1], v.addr), ItemOf(Members(t)[2], v.num)>>
<1>1. CASE t \in Scalars
    <2>1. t \notin Structs
        BY <1>1 DEF Scalars
    <2> QED
        BY <1>1, <2>1, WriteIsItem DEF Encode
<1>2. CASE t \in Structs
    <2>1. /\ Write(Members(t)[1], v.addr) = <<ItemOf(Members(t)[1], v.addr)>>
          /\ Write(Members(t)[2], v.num) = <<ItemOf(Members(t)[2], v.num)>>
        BY <1>2, StructMembers, WriteIsItem
    <2>2. Item("array", 2) = <<Header>>
        BY DEF Item, Header
    <2>3. t \notin Scalars
        BY <1>2 DEF Scalars
    <2> QED
        BY <1>2, <2>1, <2>2, <2>3, ThreeItems DEF Encode
<1> QED
    BY <1>1, <1>2 DEF Scalars

\* A structure that has not its three items is none.
LEMMA ShortIsNothing ==
    ASSUME NEW t \in Structs, NEW w, Len(w) # 3
    PROVE  Decode(t, w) = {}
    BY DEF Decode

\* Whatever an encoder wrote before it stopped, no decoder makes a value of it.
THEOREM TornIsNothing ==
    ASSUME NEW t \in Types, NEW v, NEW n \in 0 .. Len(Encode(t, v)) - 1
    PROVE  Decode(t, SubSeq(Encode(t, v), 1, n)) = {}
<1>1. CASE t \in Scalars
    <2>1. Len(Encode(t, v)) = 1
        BY <1>1, EncodeIs
    <2>2. n = 0
        BY <2>1
    <2>3. SubSeq(Encode(t, v), 1, n) = <<>>
        BY <2>2, SubSeqEmpty
    <2>4. Decode(t, <<>>) = {}
        BY <1>1, ReadNothing DEF Decode, Scalars
    <2> QED
        BY <2>3, <2>4
<1>2. CASE t \in Structs
    <2> DEFINE x == ItemOf(Members(t)[1], v.addr)
               y == ItemOf(Members(t)[2], v.num)
               w == <<Header, x, y>>
    <2>1. Encode(t, v) = w
        BY <1>2, EncodeIs
    <2>2. Len(w) = 3 /\ w \in Seq({Header, x, y})
        OBVIOUS
    <2> HIDE DEF w
    <2>3. n \in 0 .. 2
        BY <2>1, <2>2
    <2>4. Len(SubSeq(w, 1, n)) = n
        BY <2>2, <2>3, SubSeqProperties
    <2>5. Len(SubSeq(w, 1, n)) # 3
        BY <2>3, <2>4
    <2> QED
        BY <1>2, <2>1, <2>5, ShortIsNothing
<1> QED
    BY <1>1, <1>2 DEF Scalars

\* Nor of what hed_enc_*_from_json left when it gave up.
LEMMA LeftIsNothing ==
    ASSUME NEW t \in Types, NEW j, NEW w \in LeftFromJson(t, j)
    PROVE  Decode(t, w) = {}
<1>1. CASE t \in Scalars
    <2>1. w = <<>>
        BY <1>1 DEF LeftFromJson, Scalars
    <2> QED
        BY <1>1, <2>1, ReadNothing DEF Decode, Scalars
<1>2. CASE t \in Structs
    <2>1. Item("array", 2) = <<Header>>
        BY DEF Item, Header
    <2>2. \A a : Write(Members(t)[1], a) = <<ItemOf(Members(t)[1], a)>>
        BY <1>2, StructMembers, WriteIsItem
    <2>3. w = <<Header>> \/ \E a : w = <<Header, ItemOf(Members(t)[1], a)>>
        BY <1>2, <2>1, <2>2, TwoItems DEF LeftFromJson
    <2>4. Len(w) # 3
        BY <2>3
    <2> QED
        BY <1>2, <2>4, ShortIsNothing
<1> QED
    BY <1>1, <1>2 DEF Scalars

\* A stream holds at most one object.
LEMMA DecodeOne ==
    ASSUME NEW t \in Types, NEW w, NEW x \in Decode(t, w), NEW y \in Decode(t, w)
    PROVE  x = y
<1>1. CASE t \in Scalars
    BY <1>1, ReadOne DEF Decode, Scalars
<1>2. CASE t \in Structs
    <2>1. Members(t)[1] \in Scalars /\ Members(t)[2] \in Scalars
        BY <1>2, StructMembers
    <2>2. \A z \in Decode(t, w) :
              \E a \in Read(Members(t)[1], Tail(w)), n \in Read(Members(t)[2], Tail(Tail(w))) :
                  z = [addr |-> a, num |-> n]
        BY <1>2 DEF Decode
    <2>3. PICK a \in Read(Members(t)[1], Tail(w)), n \in Read(Members(t)[2], Tail(Tail(w))) :
                  x = [addr |-> a, num |-> n]
        BY <2>2
    <2>4. PICK b \in Read(Members(t)[1], Tail(w)), m \in Read(Members(t)[2], Tail(Tail(w))) :
                  y = [addr |-> b, num |-> m]
        BY <2>2
    <2>5. a = b /\ n = m
        BY <2>1, ReadOne
    <2> QED
        BY <2>3, <2>4, <2>5
<1> QED
    BY <1>1, <1>2 DEF Scalars

\* hed_decode_* of what hed_encode_* wrote, for structures as well.
THEOREM DecodesBack ==
    ASSUME NEW t \in Types, NEW v \in Object(t)
    PROVE  Decode(t, Encode(t, v)) = {v}
<1>1. CASE t \in Scalars
    <2>1. t \notin Structs
        BY <1>1 DEF Scalars
    <2>2. v \in CType(t)
        BY <2>1 DEF Object
    <2> QED
        BY <1>1, <2>1, <2>2, ReadsBack DEF Decode, Encode
<1>2. CASE t \in Structs
    <2> DEFINE m1 == Members(t)[1]
               m2 == Members(t)[2]
               x == ItemOf(m1, v.addr)
               y == ItemOf(m2, v.num)
               w == <<Header, x, y>>
    <2>1. m1 \in Scalars /\ m2 \in Scalars
        BY <1>2, StructMembers
    <2>2. v.addr \in CType(m1) /\ v.num \in CType(m2) /\ v = [addr |-> v.addr, num |-> v.num]
        BY <1>2 DEF Object
    <2>3. Read(m1, <<x>>) = {v.addr} /\ Read(m2, <<y>>) = {v.num}
        BY <2>1, <2>2, ReadsBack, WriteIsItem
    <2>4. Read(m1, <<x, y>>) = Read(m1, <<x>>)
        <3>1. \A k : Expect(k, <<x, y>>) = Expect(k, <<x>>)
            BY DEF Expect
        <3> HIDE DEF x, y
        <3>2. m1 \in Addrs
            BY <1>2, StructMembers
        <3>3. \A u : Read(m1, u) = {Wired(m1, d) : d \in Expect(AddrKind(m1), u)}
            BY <3>2, KindsApart DEF Read
        <3> QED
            BY <3>1, <3>3
    <2>5. Encode(t, v) = w
        BY <1>2, EncodeIs
    <2> HIDE DEF x, y, m1, m2
    <2>6. Tail(w) = <<x, y>> /\ Tail(Tail(w)) = <<y>> /\ Len(w) = 3 /\ Expect("array", w) = {2}
        BY DEF Header, Expect
    <2> HIDE DEF w
    <2>7. v.addr \in Read(m1, Tail(w)) /\ v.num \in Read(m2, Tail(Tail(w)))
        BY <2>3, <2>4, <2>6
    <2>8. [addr |-> v.addr, num |-> v.num] \in Decode(t, w)
        BY <1>2, <2>6, <2>7 DEF Decode, m1, m2
    <2>9. v \in Decode(t, w)
        BY <2>2, <2>8
    <2> QED
        BY <2>5, <2>9, DecodeOne
<1> QED
    BY <1>1, <1>2 DEF Scalars

-----------------------------------------------------------------------------
(* JSON.                                                                   *)

LEMMA Units ==
    /\ NsPerMs \in Nat \ {0} /\ MsPerSec \in Nat \ {0} /\ NsPerMs * MsPerSec \in Int
    /\ TimeMax \in Nat /\ GmTimeMax \in Nat /\ YearMax \in Nat /\ YearMax <= GmTimeMax
<1>1. Radix \in Nat \ {0} /\ MsPerSec = Radix * Radix * Radix
    BY ValuesAssumption
<1>2. \A m, n \in Nat \ {0} : m * n \in Nat \ {0}
    OBVIOUS
<1>3. Radix * Radix \in Nat \ {0}
    BY <1>1, <1>2
<1>4. MsPerSec \in Nat \ {0}
    BY <1>1, <1>2, <1>3
<1>5. NsPerMs \in Nat \ {0}
    BY ValuesAssumption
<1>6. NsPerMs * MsPerSec \in Int
    BY <1>2, <1>4, <1>5
<1> QED
    BY <1>4, <1>5, <1>6, ValuesAssumption

\* A text keeps of a time its milliseconds, and all of any other value.
Cut(t, v) == IF t = "time" THEN [sec |-> v.sec, ns |-> (v.ns \div NsPerMs) * NsPerMs] ELSE v

TextTime == [sec : Int, num : Int, digits : 1 .. 4, ahead : Int]

LEMMA CutTime ==
    ASSUME NEW v \in CType("time")
    PROVE  /\ v = [sec |-> v.sec, ns |-> v.ns] /\ v.sec \in Int /\ v.ns \in Int
           /\ Date(v) \in TextTime
           /\ Cut("time", v) \in CType("time")
           /\ Told("time", {Cut("time", v)}) = Told("time", {v})
           /\ hed_check_time(v) => hed_check_time(Cut("time", v))
<1>1. CType("time") = [sec : Int, ns : Int]
    BY CTypeIs
<1>2. v.sec \in Int /\ v.ns \in Int /\ v = [sec |-> v.sec, ns |-> v.ns]
    <2>1. v \in [sec : Int, ns : Int]
        BY <1>1
    <2> QED
        BY <2>1
<1>3. NsPerMs \in Nat \ {0} /\ NsPerMs * MsPerSec \in Int
    BY Units
<1>4. v.ns \div NsPerMs \in Int
    BY <1>2, <1>3
<1>5. Date(v) \in TextTime
    BY <1>2, <1>4 DEF Date, TextTime
<1>6. Cut("time", v) = [sec |-> v.sec, ns |-> (v.ns \div NsPerMs) * NsPerMs]
    BY DEF Cut
<1>7. (v.ns \div NsPerMs) * NsPerMs \in Int
    BY <1>3, <1>4
<1>8. ((v.ns \div NsPerMs) * NsPerMs) \div NsPerMs = v.ns \div NsPerMs
    BY <1>3, <1>4
<1>9. Told("time", {Cut("time", v)}) = Told("time", {v})
    <2>1. \A x : Told("time", {x}) = {[sec |-> x.sec, ms |-> x.ns \div NsPerMs]}
        BY DEF Told
    <2>2. Cut("time", v).sec = v.sec /\ Cut("time", v).ns \div NsPerMs = v.ns \div NsPerMs
        BY <1>6, <1>8
    <2> QED
        BY <2>1, <2>2
<1>10. ASSUME v.ns >= 0 PROVE /\ (v.ns \div NsPerMs) * NsPerMs >= 0
                              /\ (v.ns \div NsPerMs) * NsPerMs <= v.ns
    BY <1>2, <1>3, <1>10
<1>11. hed_check_time(v) => hed_check_time(Cut("time", v))
    BY <1>2, <1>3, <1>6, <1>7, <1>10 DEF hed_check_time
<1> QED
    BY <1>1, <1>2, <1>5, <1>6, <1>7, <1>9, <1>11

\* What hed_*_from_json takes from any text is an object of the C type, at most
\* one, and one that its check accepts.
LEMMA ScalarFromText ==
    ASSUME NEW t \in Scalars, NEW j, JsonType(t, j), NEW z \in Int
    PROVE  /\ Optional(ScalarFromJson(t, j, z), CType(t))
           /\ \A v \in ScalarFromJson(t, j, z) : ScalarChk(t, v)
<1> DEFINE S == ScalarFromJson(t, j, z)
<1>1. CASE t \in Enums
    <2>1. Optional(j, Texts) /\ S = UNION {from_str(t, s) : s \in j} /\ CType(t) = Int
        BY <1>1, KindsApart, CTypeIs DEF JsonType, ScalarFromJson, enum_from_json, Texts
    <2>2. \A v : ScalarChk(t, v) <=> to_str(t, v) # {}
        BY <1>1, ScalarChkIs
    <2>3. \A v \in S : \E s \in j : s \in Texts /\ v \in from_str(t, s)
        BY <2>1 DEF Optional
    <2>4. \A v \in S : v \in Int /\ to_str(t, v) # {}
        BY <1>1, <2>3, EnumLookup
    <2>5. \A v, w \in S : v = w
        BY <1>1, <2>1, <2>3, EnumLookup DEF Optional
    <2> QED
        BY <2>1, <2>2, <2>4, <2>5 DEF Optional
<1>2. CASE t \in Uints
    <2>1. Optional(j, Int) /\ S = {n \in {m % Width(t) : m \in j} : ScalarChk(t, n)}
        BY <1>2, KindsApart DEF JsonType, ScalarFromJson, uint_from_json
    <2>2. CType(t) = 0 .. Width(t) - 1 /\ Width(t) \in {256, 65536}
        BY <1>2, UintType
    <2>3. \A m \in Int : m % Width(t) \in 0 .. Width(t) - 1
        BY <2>2
    <2> QED
        BY <2>1, <2>2, <2>3 DEF Optional
<1>3. CASE t \in Addrs
    BY <1>3, KindsApart, ScalarChkIs DEF JsonType, ScalarFromJson, addr_from_json
<1>4. CASE t = "name"
    <2>1. Optional(j, CType(t)) /\ S = {len \in j : hed_chk_name(len)}
        BY <1>4, KindsApart DEF JsonType, ScalarFromJson, name_from_json
    <2>2. \A v : ScalarChk(t, v) <=> hed_chk_name(v)
        BY <1>4, ScalarChkIs
    <2> QED
        BY <2>1, <2>2 DEF Optional
<1>5. CASE t = "time"
    <2>1. Optional(j, TextTime) /\ S = time_from_json(j, z)
        BY <1>5, KindsApart DEF JsonType, ScalarFromJson, TextTime
    <2>2. \A v : ScalarChk(t, v) <=> hed_check_time(v)
        BY <1>5, ScalarChkIs
    <2>3. CType(t) = [sec : Int, ns : Int]
        BY <1>5, CTypeIs
    <2>4. \A d \in TextTime : [sec |-> d.sec - z, ns |-> d.num * NsPerMs] \in [sec : Int, ns : Int]
        BY Units DEF TextTime
    <2>5. \A v \in S : hed_check_time(v) /\ \E d \in j : v = [sec |-> d.sec - z, ns |-> d.num * NsPerMs]
        BY <2>1 DEF time_from_json, strptime
    <2> QED
        BY <2>1, <2>2, <2>3, <2>4, <2>5 DEF Optional
<1> QED
    BY <1>1, <1>2, <1>3, <1>4, <1>5, ScalarKinds

\* What is read from the text of a time: nothing, if its year has five digits.
Back(t, v) == IF t = "time" /\ v.sec > YearMax THEN {} ELSE {Cut(t, v)}

\* What hed_*_to_json writes says what the object was, and is read as that.
LEMMA ScalarToText ==
    ASSUME NEW t \in Scalars, NEW v \in CType(t), NEW j \in ScalarToJson(t, v)
    PROVE  /\ JsonType(t, j)
           /\ ScalarChk(t, v)
           /\ ScalarFromJson(t, j, 0) = Back(t, v)
           /\ SaysScalar(t, j) = Told(t, {v})
<1>1. CASE t \in Enums
    <2>1. PICK s \in to_str(t, v) : j = {s}
        BY <1>1, KindsApart DEF ScalarToJson, enum_to_json
    <2>2. s \in Texts /\ from_str(t, s) = {v}
        BY <1>1, EnumLookup
    <2>3. JsonType(t, j)
        BY <1>1, <2>1, <2>2, KindsApart DEF JsonType, Optional, Texts
    <2>4. ScalarChk(t, v)
        BY <1>1, <2>1, ScalarChkIs
    <2>5. Back(t, v) = {v} /\ Told(t, {v}) = {v}
        BY <1>1, KindsApart DEF Back, Cut, Told
    <2>6. ScalarFromJson(t, j, 0) = {v}
        BY <1>1, <2>1, <2>2, KindsApart DEF ScalarFromJson, enum_from_json
    <2>7. SaysScalar(t, j) = {Table(t)[n].value : n \in {m \in DOMAIN Table(t) : Table(t)[m].str = s}}
        BY <1>1, <2>1, KindsApart DEF SaysScalar
    <2>8. SaysScalar(t, j) = from_str(t, s)
        BY <1>1, <2>2, <2>7, EnumLookup
    <2> QED
        BY <2>2, <2>3, <2>4, <2>5, <2>6, <2>8
<1>2. CASE t \in Uints
    <2>1. ScalarChk(t, v) /\ j = {v}
        BY <1>2, KindsApart DEF ScalarToJson, uint_to_json
    <2>2. CType(t) = 0 .. Width(t) - 1 /\ Width(t) \in {256, 65536}
        BY <1>2, UintType
    <2>3. v \in Int /\ v % Width(t) = v
        BY <2>2
    <2>4. JsonType(t, j)
        BY <1>2, <2>1, <2>3, KindsApart DEF JsonType, Optional
    <2>5. Back(t, v) = {v} /\ Told(t, {v}) = {v}
        BY <1>2, KindsApart DEF Back, Cut, Told
    <2>6. ScalarFromJson(t, j, 0) = {n \in {m % Width(t) : m \in {v}} : ScalarChk(t, n)}
        BY <1>2, <2>1, KindsApart DEF ScalarFromJson, uint_from_json
    <2>7. ScalarFromJson(t, j, 0) = {v}
        BY <2>1, <2>3, <2>6
    <2>8. SaysScalar(t, j) = {v}
        BY <1>2, <2>1, KindsApart DEF SaysScalar
    <2> QED
        BY <2>1, <2>4, <2>5, <2>7, <2>8
<1>3. CASE t \in Addrs
    <2>1. j = {v}
        BY <1>3, KindsApart DEF ScalarToJson, addr_to_json
    <2>2. JsonType(t, j) /\ ScalarChk(t, v)
        BY <1>3, <2>1, KindsApart, ScalarChkIs DEF JsonType, Optional
    <2>3. Back(t, v) = {v} /\ Told(t, {v}) = {v}
        BY <1>3, KindsApart DEF Back, Cut, Told
    <2>4. ScalarFromJson(t, j, 0) = {v} /\ SaysScalar(t, j) = {v}
        BY <1>3, <2>1, KindsApart DEF ScalarFromJson, addr_from_json, SaysScalar
    <2> QED
        BY <2>2, <2>3, <2>4
<1>4. CASE t = "name"
    <2>1. j = {v} /\ hed_chk_name(v)
        BY <1>4, KindsApart DEF ScalarToJson, name_to_json
    <2>2. JsonType(t, j) /\ ScalarChk(t, v)
        BY <1>4, <2>1, KindsApart, ScalarChkIs DEF JsonType, Optional
    <2>3. Back(t, v) = {v} /\ Told(t, {v}) = {v} /\ SaysScalar(t, j) = {v}
        BY <1>4, <2>1, KindsApart DEF Back, Cut, Told, SaysScalar
    <2>4. ScalarFromJson(t, j, 0) = {v}
        BY <1>4, <2>1, KindsApart DEF ScalarFromJson, name_from_json
    <2> QED
        BY <2>2, <2>3, <2>4
<1>5. CASE t = "time"
    <2>1. j = {Date(v)} /\ hed_check_time(v)
        BY <1>5, KindsApart DEF ScalarToJson, time_to_json
    <2>2. Date(v) \in TextTime /\ hed_check_time(Cut(t, v)) /\ v.sec \in Int /\ v.ns \in Int
        BY <1>5, <2>1, CutTime
    <2>3. JsonType(t, j) /\ ScalarChk(t, v)
        BY <1>5, <2>1, <2>2, KindsApart, ScalarChkIs DEF JsonType, Optional, TextTime
    <2>4. /\ Date(v).sec = v.sec /\ Date(v).num = v.ns \div NsPerMs
          /\ Date(v).digits = 3 /\ Date(v).ahead = 0
        BY DEF Date
    <2>5. Cut(t, v) = [sec |-> Date(v).sec - 0, ns |-> Date(v).num * NsPerMs]
        BY <1>5, <2>2, <2>4 DEF Cut
    <2>6. ScalarFromJson(t, j, 0) = time_from_json(j, 0)
        BY <1>5, KindsApart DEF ScalarFromJson
    <2>7. ASSUME v.sec > YearMax PROVE ScalarFromJson(t, j, 0) = Back(t, v)
        <3>1. strptime(j) = {}
            BY <2>1, <2>2, <2>4, <2>7, Units DEF strptime
        <3>2. time_from_json(j, 0) = {}
            BY <3>1 DEF time_from_json
        <3>3. Back(t, v) = {}
            BY <1>5, <2>7 DEF Back
        <3> QED
            BY <2>6, <3>2, <3>3
    <2>8. ASSUME ~(v.sec > YearMax) PROVE ScalarFromJson(t, j, 0) = Back(t, v)
        <3>1. strptime(j) = {Date(v)}
            BY <2>1, <2>2, <2>4, <2>8, Units DEF strptime
        <3>2. time_from_json(j, 0) = {w \in {Cut(t, v)} : hed_check_time(w)}
            BY <2>5, <3>1 DEF time_from_json
        <3>3. time_from_json(j, 0) = {Cut(t, v)}
            BY <2>2, <3>2
        <3>4. Back(t, v) = {Cut(t, v)}
            BY <2>8 DEF Back
        <3> QED
            BY <2>6, <3>3, <3>4
    <2>9. SaysScalar(t, j) = Told(t, {v})
        <3>1. SaysScalar(t, j) = {[sec |-> d.sec - d.ahead, ms |-> Fraction(d)] : d \in j}
            BY <1>5, KindsApart DEF SaysScalar
        <3>2. Fraction(Date(v)) = v.ns \div NsPerMs
            BY <2>4 DEF Fraction
        <3>3. Date(v).sec - Date(v).ahead = v.sec
            BY <2>2, <2>4
        <3>4. SaysScalar(t, j) = {[sec |-> v.sec, ms |-> v.ns \div NsPerMs]}
            BY <2>1, <3>1, <3>2, <3>3
        <3> QED
            BY <1>5, <3>4 DEF Told
    <2> QED
        BY <2>3, <2>7, <2>8, <2>9
<1> QED
    BY <1>1, <1>2, <1>3, <1>4, <1>5, ScalarKinds

\* And it writes any object its check accepts, but a time too far for gmtime_r.
LEMMA ScalarHasText ==
    ASSUME NEW t \in Scalars, NEW v, ScalarChk(t, v), t = "time" => v.sec <= GmTimeMax
    PROVE  ScalarToJson(t, v) # {}
<1>1. CASE t \in Enums
    <2>1. PICK s : s \in to_str(t, v)
        BY <1>1, ScalarChkIs
    <2>2. {s} \in ScalarToJson(t, v)
        BY <1>1, <2>1, KindsApart DEF ScalarToJson, enum_to_json
    <2> QED
        BY <2>2
<1>2. CASE t \in Uints
    BY <1>2, KindsApart DEF ScalarToJson, uint_to_json
<1>3. CASE t \in Addrs
    BY <1>3, KindsApart DEF ScalarToJson, addr_to_json
<1>4. CASE t = "name"
    BY <1>4, KindsApart, ScalarChkIs DEF ScalarToJson, name_to_json
<1>5. CASE t = "time"
    BY <1>5, KindsApart, ScalarChkIs DEF ScalarToJson, time_to_json
<1> QED
    BY <1>1, <1>2, <1>3, <1>4, <1>5, ScalarKinds

\* A text from which a value is taken says that value, if the C type has room, and
\* a time is written as hed writes it.
LEMMA ScalarTextMeans ==
    ASSUME NEW t \in Scalars, NEW j, JsonType(t, j), NEW z \in Int,
           t = "time" => z = 0 /\ \A d \in j : d.digits = 3 /\ d.ahead = 0,
           t \in Uints => j \subseteq 0 .. Width(t) - 1,
           NEW v \in ScalarFromJson(t, j, z)
    PROVE  SaysScalar(t, j) = Told(t, {v})
<1>0. t # "time" => Told(t, {v}) = {v}
    BY DEF Told
<1>1. CASE t \in Enums
    <2>1. Optional(j, Texts)
        BY <1>1, KindsApart DEF JsonType, Texts
    <2>2. PICK s \in j : v \in from_str(t, s)
        BY <1>1, KindsApart DEF ScalarFromJson, enum_from_json
    <2>3. s \in Texts /\ j = {s}
        BY <2>1 DEF Optional
    <2>4. SaysScalar(t, j) = {Table(t)[n].value : n \in {m \in DOMAIN Table(t) : Table(t)[m].str = s}}
        BY <1>1, <2>3, KindsApart DEF SaysScalar
    <2>5. SaysScalar(t, j) = from_str(t, s)
        BY <1>1, <2>3, <2>4, EnumLookup
    <2>6. SaysScalar(t, j) = {v}
        BY <1>1, <2>2, <2>3, <2>5, EnumLookup
    <2> QED
        BY <1>0, <1>1, <2>6, KindsApart
<1>2. CASE t \in Uints
    <2>1. Optional(j, Int) /\ v \in {n \in {m % Width(t) : m \in j} : ScalarChk(t, n)}
        BY <1>2, KindsApart DEF JsonType, ScalarFromJson, uint_from_json
    <2>2. PICK m \in j : v = m % Width(t)
        BY <2>1
    <2>3. m \in 0 .. Width(t) - 1 /\ Width(t) \in {256, 65536}
        BY <1>2, UintType
    <2>4. v = m
        BY <2>2, <2>3
    <2>5. SaysScalar(t, j) = j
        BY <1>2, KindsApart DEF SaysScalar
    <2>6. SaysScalar(t, j) = {v}
        BY <2>1, <2>4, <2>5 DEF Optional
    <2> QED
        BY <1>0, <1>2, <2>6, KindsApart
<1>3. CASE t \in Addrs
    BY <1>0, <1>3, KindsApart DEF JsonType, ScalarFromJson, addr_from_json, SaysScalar, Optional
<1>4. CASE t = "name"
    BY <1>0, <1>4, KindsApart DEF JsonType, ScalarFromJson, name_from_json, SaysScalar, Optional
<1>5. CASE t = "time"
    <2>1. Optional(j, TextTime) /\ v \in time_from_json(j, 0)
        BY <1>5, KindsApart DEF JsonType, ScalarFromJson, TextTime
    <2>2. PICK d \in j : v = [sec |-> d.sec - 0, ns |-> d.num * NsPerMs]
        BY <2>1 DEF time_from_json, strptime
    <2>3. j = {d} /\ d.sec \in Int /\ d.num \in Int /\ d.digits = 3 /\ d.ahead = 0
        BY <1>5, <2>1 DEF Optional, TextTime
    <2>4. v.sec = d.sec /\ d.sec - d.ahead = d.sec
        BY <2>2, <2>3
    <2>5. NsPerMs \in Nat \ {0} /\ v.ns = d.num * NsPerMs
        BY <2>2, Units
    <2>6. v.ns \div NsPerMs = d.num
        BY <2>3, <2>5
    <2>7. Fraction(d) = d.num
        BY <2>3 DEF Fraction
    <2>8. SaysScalar(t, j) = {[sec |-> e.sec - e.ahead, ms |-> Fraction(e)] : e \in j}
        BY <1>5, KindsApart DEF SaysScalar
    <2>9. SaysScalar(t, j) = {[sec |-> v.sec, ms |-> v.ns \div NsPerMs]}
        BY <2>3, <2>4, <2>6, <2>7, <2>8
    <2> QED
        BY <1>5, <2>9 DEF Told
<1> QED
    BY <1>1, <1>2, <1>3, <1>4, <1>5, ScalarKinds

LEMMA ChkIs ==
    ASSUME NEW t \in Types, NEW v
    PROVE  /\ t \in Scalars => (Chk(t, v) <=> ScalarChk(t, v))
           /\ t \in Structs /\ Chk(t, v) =>
                ScalarChk(Members(t)[1], v.addr) /\ ScalarChk(Members(t)[2], v.num)
           /\ t \in Structs \ Nets =>
                (Chk(t, v) <=> ScalarChk(Members(t)[1], v.addr) /\ ScalarChk(Members(t)[2], v.num))
<1>1. CASE t \in Scalars
    BY <1>1 DEF Scalars, Structs, Nets, Chk
<1>2. CASE t = "in_svc"
    BY <1>2 DEF Scalars, Structs, Nets, Chk, hed_chk_in_svc, MembersChk
<1>3. CASE t = "in6_svc"
    BY <1>3 DEF Scalars, Structs, Nets, Chk, hed_chk_in6_svc, MembersChk
<1>4. CASE t = "in_net"
    BY <1>4 DEF Scalars, Structs, Nets, Chk, hed_chk_in_net, MembersChk
<1>5. CASE t = "in6_net"
    BY <1>5 DEF Scalars, Structs, Nets, Chk, hed_chk_in6_net, MembersChk
<1> QED
    BY <1>1, <1>2, <1>3, <1>4, <1>5 DEF Scalars, Structs, Nets

\* Each decoder calls the check of its type: what it gives is what there is in the
\* stream, if that is accepted (base.h, base-impl.c:41-57, inet.h, inet.c).
LEMMA DecodersCheck ==
    ASSUME NEW t \in Types, NEW w
    PROVE  hed_dec(t, w) = {v \in Decode(t, w) : Chk(t, v)}
<1>1. CASE t \in Scalars
    <2>1. Decode(t, w) = Read(t, w) /\ \A v : Chk(t, v) <=> ScalarChk(t, v)
        BY <1>1, ChkIs DEF Decode, Scalars
    <2>2. CASE t \in Enums
        <3>1. hed_dec(t, w) = hed_dec_enum(t, w)
            BY <2>2, KindsApart, StructsApart DEF hed_dec, Uints, Structs, Nets
        <3> QED
            BY <2>1, <2>2, <3>1, ScalarChkIs DEF hed_dec_enum
    <2>3. CASE t = "in_pfx"
        <3>1. hed_dec(t, w) = hed_dec_in_pfx(w) /\ \A v : ScalarChk(t, v) <=> hed_chk_in_pfx(v)
            BY <2>3 DEF hed_dec, ScalarChk, Enums, Addrs
        <3> QED
            BY <2>1, <2>3, <3>1 DEF hed_dec_in_pfx
    <2>4. CASE t = "in6_pfx"
        <3>1. hed_dec(t, w) = hed_dec_in6_pfx(w) /\ \A v : ScalarChk(t, v) <=> hed_chk_in6_pfx(v)
            BY <2>4 DEF hed_dec, ScalarChk, Enums, Addrs
        <3> QED
            BY <2>1, <2>4, <3>1 DEF hed_dec_in6_pfx
    <2>5. CASE t = "port"
        <3>1. hed_dec(t, w) = hed_dec_port(w) /\ \A v : ScalarChk(t, v) <=> hed_chk_port(v)
            BY <2>5 DEF hed_dec, ScalarChk, Enums, Addrs
        <3> QED
            BY <2>1, <2>5, <3>1 DEF hed_dec_port
    <2>6. CASE t \in Addrs
        <3>1. hed_dec(t, w) = hed_decode_addr(t, w)
            BY <2>6, KindsApart, StructsApart DEF hed_dec, Uints, Structs, Nets
        <3> QED
            BY <2>1, <2>6, <3>1, ScalarChkIs DEF hed_decode_addr
    <2>7. CASE t = "name"
        <3>1. hed_dec(t, w) = hed_dec_name(w)
            BY <2>7 DEF hed_dec, Enums, Addrs
        <3> QED
            BY <2>1, <2>7, <3>1, ScalarChkIs DEF hed_dec_name
    <2>8. CASE t = "time"
        <3>1. hed_dec(t, w) = hed_decode_time(w)
            BY <2>8 DEF hed_dec, Enums, Addrs
        <3> QED
            BY <2>1, <2>8, <3>1, ScalarChkIs DEF hed_decode_time
    <2> QED
        BY <1>1, <2>2, <2>3, <2>4, <2>5, <2>6, <2>7, <2>8, ScalarKinds DEF Uints
<1>2. CASE t \in Structs
    <2>1. \A v : /\ ScalarChk("in_pfx", v) <=> hed_chk_in_pfx(v)
                 /\ ScalarChk("in6_pfx", v) <=> hed_chk_in6_pfx(v)
                 /\ ScalarChk("port", v) <=> hed_chk_port(v)
        BY DEF ScalarChk, Enums, Addrs
    <2>2. CASE t = "in_svc"
        <3>0. hed_dec(t, w) = hed_dec_in_svc(w)
            BY <2>2 DEF hed_dec, Enums, Addrs
        <3>1. \A v : Chk(t, v) <=> hed_chk_in_svc(v)
            BY <2>2 DEF Chk, Structs, Nets
        <3>2. \A v : hed_chk_in_svc(v) => hed_chk_port(v.num)
            BY <2>1 DEF hed_chk_in_svc, MembersChk, Members, in_svc
        <3> QED
            BY <2>2, <3>0, <3>1, <3>2 DEF hed_dec_in_svc
    <2>3. CASE t = "in6_svc"
        <3>0. hed_dec(t, w) = hed_dec_in6_svc(w)
            BY <2>3 DEF hed_dec, Enums, Addrs
        <3>1. \A v : Chk(t, v) <=> hed_chk_in6_svc(v)
            BY <2>3 DEF Chk, Structs, Nets
        <3>2. \A v : hed_chk_in6_svc(v) => hed_chk_port(v.num)
            BY <2>1 DEF hed_chk_in6_svc, MembersChk, Members, in6_svc
        <3> QED
            BY <2>3, <3>0, <3>1, <3>2 DEF hed_dec_in6_svc
    <2>4. CASE t = "in_net"
        <3>0. hed_dec(t, w) = hed_dec_in_net(w)
            BY <2>4 DEF hed_dec, Enums, Addrs
        <3>1. \A v : Chk(t, v) <=> hed_chk_in_net(v)
            BY <2>4 DEF Chk, Structs, Nets
        <3>2. \A v : hed_chk_in_net(v) => hed_chk_in_pfx(v.num)
            BY <2>1 DEF hed_chk_in_net, MembersChk, Members, in_net
        <3> QED
            BY <2>4, <3>0, <3>1, <3>2 DEF hed_dec_in_net
    <2>5. CASE t = "in6_net"
        <3>0. hed_dec(t, w) = hed_dec_in6_net(w)
            BY <2>5 DEF hed_dec, Enums, Addrs
        <3>1. \A v : Chk(t, v) <=> hed_chk_in6_net(v)
            BY <2>5 DEF Chk, Structs, Nets
        <3>2. \A v : hed_chk_in6_net(v) => hed_chk_in6_pfx(v.num)
            BY <2>1 DEF hed_chk_in6_net, MembersChk, Members, in6_net
        <3> QED
            BY <2>5, <3>0, <3>1, <3>2 DEF hed_dec_in6_net
    <2> QED
        BY <1>2, <2>2, <2>3, <2>4, <2>5 DEF Structs, Nets
<1> QED
    BY <1>1, <1>2 DEF Scalars

LEMMA FromText ==
    ASSUME NEW t \in Types, NEW j, Json(t, j), NEW z \in Int
    PROVE  /\ Optional(FromJson(t, j, z), Object(t))
           /\ t \notin Nets => \A v \in FromJson(t, j, z) : Chk(t, v)
<1>1. CASE t \in Scalars
    <2>1. t \notin Structs /\ t \notin Nets
        BY <1>1 DEF Scalars, Structs
    <2>2. JsonType(t, j) /\ FromJson(t, j, z) = ScalarFromJson(t, j, z) /\ Object(t) = CType(t)
        BY <2>1 DEF Json, FromJson, Object
    <2> QED
        BY <1>1, <2>2, ScalarFromText, ChkIs
<1>2. CASE t \in Structs
    <2> DEFINE m1 == Members(t)[1]
               m2 == Members(t)[2]
               A == ScalarFromJson(m1, j.addr, z)
               N == ScalarFromJson(m2, j.num, z)
    <2>1. m1 \in Scalars /\ m2 \in Scalars
        BY <1>2, StructMembers
    <2>2. JsonType(m1, j.addr) /\ JsonType(m2, j.num)
        BY <1>2 DEF Json
    <2>3. /\ Optional(A, CType(m1)) /\ Optional(N, CType(m2))
          /\ \A a \in A : ScalarChk(m1, a)
          /\ \A n \in N : ScalarChk(m2, n)
        BY <2>1, <2>2, ScalarFromText
    <2>4. FromJson(t, j, z) = [addr : A, num : N]
        BY <1>2 DEF FromJson
    <2>5. Object(t) = [addr : CType(m1), num : CType(m2)]
        BY <1>2 DEF Object
    <2>6. t \notin Nets => \A v : ScalarChk(m1, v.addr) /\ ScalarChk(m2, v.num) => Chk(t, v)
        BY <1>2, ChkIs
    <2> HIDE DEF m1, m2, A, N
    <2>7. Optional(FromJson(t, j, z), Object(t))
        BY <2>3, <2>4, <2>5 DEF Optional
    <2>8. t \notin Nets => \A v \in FromJson(t, j, z) : Chk(t, v)
        BY <2>3, <2>4, <2>6
    <2> QED
        BY <2>7, <2>8
<1> QED
    BY <1>1, <1>2 DEF Scalars

\* Only a time depends on the zone.
LEMMA NoZone ==
    ASSUME NEW t \in Types, t # "time", NEW j, NEW z
    PROVE  FromJson(t, j, z) = FromJson(t, j, 0)
<1>1. \A k \in Scalars : \A i : k # "time" => ScalarFromJson(k, i, z) = ScalarFromJson(k, i, 0)
    BY KindsApart, ScalarKinds DEF ScalarFromJson
<1>2. t \in Structs => /\ Members(t)[1] \in Scalars \ {"time"}
                       /\ Members(t)[2] \in Scalars \ {"time"}
    BY StructMembers, KindsApart
<1> QED
    BY <1>1, <1>2 DEF FromJson, Scalars

LEMMA OnePair ==
    ASSUME NEW x, NEW y
    PROVE  [addr : {x}, num : {y}] = {[addr |-> x, num |-> y]}
<1>1. \A r \in [addr : {x}, num : {y}] : r = [addr |-> x, num |-> y]
    <2> TAKE r \in [addr : {x}, num : {y}]
    <2>1. r = [addr |-> r.addr, num |-> r.num] /\ r.addr = x /\ r.num = y
        OBVIOUS
    <2> QED
        BY <2>1
<1>2. [addr |-> x, num |-> y] \in [addr : {x}, num : {y}]
    OBVIOUS
<1> QED
    BY <1>1, <1>2

LEMMA ToText ==
    ASSUME NEW t \in Types, NEW v \in Object(t), NEW j \in ToJson(t, v)
    PROVE  /\ Json(t, j)
           /\ t \notin Nets => Chk(t, v)
           /\ FromJson(t, j, 0) = Back(t, v)
           /\ Says(t, j) = Told(t, {v})
<1>1. CASE t \in Scalars
    <2>1. t \notin Structs
        BY <1>1 DEF Scalars
    <2>2. v \in CType(t) /\ j \in ScalarToJson(t, v)
        BY <2>1 DEF Object, ToJson
    <2>3. /\ Json(t, j) <=> JsonType(t, j)
          /\ FromJson(t, j, 0) = ScalarFromJson(t, j, 0) /\ Says(t, j) = SaysScalar(t, j)
        BY <2>1 DEF Json, FromJson, Says
    <2> QED
        BY <1>1, <2>2, <2>3, ScalarToText, ChkIs
<1>2. CASE t \in Structs
    <2> DEFINE m1 == Members(t)[1]
               m2 == Members(t)[2]
    <2>1. m1 \in Scalars /\ m2 \in Scalars /\ m1 # "time" /\ m2 # "time" /\ t # "time"
        BY <1>2, StructMembers, KindsApart DEF Structs, Nets
    <2>2. v.addr \in CType(m1) /\ v.num \in CType(m2) /\ v = [addr |-> v.addr, num |-> v.num]
        BY <1>2 DEF Object
    <2>3. j \in [addr : ScalarToJson(m1, v.addr), num : ScalarToJson(m2, v.num)]
        BY <1>2 DEF ToJson
    <2> HIDE DEF m1, m2
    <2>4. /\ j.addr \in ScalarToJson(m1, v.addr) /\ j.num \in ScalarToJson(m2, v.num)
          /\ j = [addr |-> j.addr, num |-> j.num]
        BY <2>3
    <2>5. /\ JsonType(m1, j.addr) /\ ScalarChk(m1, v.addr)
          /\ ScalarFromJson(m1, j.addr, 0) = {v.addr} /\ SaysScalar(m1, j.addr) = {v.addr}
        BY <2>1, <2>2, <2>4, ScalarToText DEF Back, Cut, Told
    <2>6. /\ JsonType(m2, j.num) /\ ScalarChk(m2, v.num)
          /\ ScalarFromJson(m2, j.num, 0) = {v.num} /\ SaysScalar(m2, j.num) = {v.num}
        BY <2>1, <2>2, <2>4, ScalarToText DEF Back, Cut, Told
    <2>7. Json(t, j)
        BY <1>2, <2>4, <2>5, <2>6 DEF Json, m1, m2
    <2>8. t \notin Nets => Chk(t, v)
        BY <1>2, <2>5, <2>6, ChkIs DEF m1, m2
    <2>9. \A x, y : [addr : {x}, num : {y}] = {[addr |-> x, num |-> y]}
        BY OnePair
    <2>10. FromJson(t, j, 0) = [addr : {v.addr}, num : {v.num}]
        BY <1>2, <2>5, <2>6 DEF FromJson, m1, m2
    <2>11. Says(t, j) = [addr : {v.addr}, num : {v.num}]
        BY <1>2, <2>5, <2>6 DEF Says, m1, m2
    <2>12. Back(t, v) = {v} /\ Told(t, {v}) = {v}
        BY <2>1 DEF Back, Cut, Told
    <2> QED
        BY <2>2, <2>7, <2>8, <2>9, <2>10, <2>11, <2>12
<1> QED
    BY <1>1, <1>2 DEF Scalars

LEMMA HasText ==
    ASSUME NEW t \in Types, NEW v, Chk(t, v), t = "time" => v.sec <= GmTimeMax
    PROVE  ToJson(t, v) # {}
<1>1. CASE t \in Scalars
    BY <1>1, ChkIs, ScalarHasText DEF ToJson, Scalars
<1>2. CASE t \in Structs
    <2>1. /\ ScalarChk(Members(t)[1], v.addr) /\ ScalarChk(Members(t)[2], v.num)
          /\ Members(t)[1] \in Scalars \ {"time"} /\ Members(t)[2] \in Scalars \ {"time"}
        BY <1>2, ChkIs, StructMembers, KindsApart
    <2>2. PICK a : a \in ScalarToJson(Members(t)[1], v.addr)
        BY <2>1, ScalarHasText
    <2>3. PICK n : n \in ScalarToJson(Members(t)[2], v.num)
        BY <2>1, ScalarHasText
    <2>4. [addr |-> a, num |-> n] \in ToJson(t, v)
        BY <1>2, <2>2, <2>3 DEF ToJson
    <2> QED
        BY <2>4
<1> QED
    BY <1>1, <1>2 DEF Scalars

\* Cutting a value changes neither its type nor whether it is accepted.
LEMMA CutKeeps ==
    ASSUME NEW t \in Types, NEW v \in Object(t)
    PROVE  Cut(t, v) \in Object(t) /\ (Chk(t, v) => Chk(t, Cut(t, v)))
<1>1. CASE t # "time"
    BY <1>1 DEF Cut
<1>2. CASE t = "time"
    <2>1. t \notin Structs /\ t \in Scalars
        BY <1>2, ScalarKinds DEF Structs, Nets
    <2>2. Object(t) = CType("time")
        BY <1>2, <2>1 DEF Object
    <2>3. \A w : Chk(t, w) <=> hed_check_time(w)
        BY <1>2, <2>1, ChkIs, ScalarChkIs
    <2> QED
        BY <1>2, <2>2, <2>3, CutTime
<1> QED
    BY <1>1, <1>2

LEMMA TextMeans ==
    ASSUME NEW t \in Types, NEW j, Json(t, j), NEW z \in Int,
           t = "time" => z = 0 /\ \A d \in j : d.digits = 3 /\ d.ahead = 0,
           t \in Uints => j \subseteq 0 .. Width(t) - 1,
           t \in Structs => j.num \subseteq 0 .. Width(Members(t)[2]) - 1,
           NEW v \in FromJson(t, j, z)
    PROVE  Says(t, j) = Told(t, {v})
<1>1. CASE t \in Scalars
    <2>1. t \notin Structs
        BY <1>1 DEF Scalars
    <2>2. JsonType(t, j) /\ v \in ScalarFromJson(t, j, z) /\ Says(t, j) = SaysScalar(t, j)
        BY <2>1 DEF Json, FromJson, Says
    <2> QED
        BY <1>1, <2>2, ScalarTextMeans
<1>2. CASE t \in Structs
    <2> DEFINE m1 == Members(t)[1]
               m2 == Members(t)[2]
    <2>1. m1 \in Scalars /\ m2 \in Scalars /\ m1 # "time" /\ m2 # "time" /\ m1 \notin Uints
        BY <1>2, StructMembers, KindsApart
    <2>2. JsonType(m1, j.addr) /\ JsonType(m2, j.num)
        BY <1>2 DEF Json
    <2>3. v \in [addr : ScalarFromJson(m1, j.addr, z), num : ScalarFromJson(m2, j.num, z)]
        BY <1>2 DEF FromJson
    <2>4. j.num \subseteq 0 .. Width(m2) - 1
        BY <1>2
    <2>5. Says(t, j) = [addr : SaysScalar(m1, j.addr), num : SaysScalar(m2, j.num)]
        BY <1>2 DEF Says
    <2> HIDE DEF m1, m2
    <2>6. /\ v.addr \in ScalarFromJson(m1, j.addr, z) /\ v.num \in ScalarFromJson(m2, j.num, z)
          /\ v = [addr |-> v.addr, num |-> v.num]
        BY <2>3
    <2>7. SaysScalar(m1, j.addr) = {v.addr}
        BY <2>1, <2>2, <2>6, ScalarTextMeans DEF Told
    <2>8. SaysScalar(m2, j.num) = {v.num}
        BY <2>1, <2>2, <2>4, <2>6, ScalarTextMeans DEF Told
    <2>9. \A x, y : [addr : {x}, num : {y}] = {[addr |-> x, num |-> y]}
        BY OnePair
    <2>10. t # "time"
        BY <1>2 DEF Structs, Nets
    <2> QED
        BY <2>5, <2>6, <2>7, <2>8, <2>9, <2>10 DEF Told
<1> QED
    BY <1>1, <1>2 DEF Scalars

-----------------------------------------------------------------------------
(* The room that a stream takes.                                           *)

LEMMA SizeSums ==
    \A t, w :
        /\ Len(w) \in Nat
        /\ \E f : f = [m \in 0 .. Len(w) |-> IF m = 0 THEN 0 ELSE f[m - 1] + ItemSize(t, w[m])]
        => \E f : /\ PackedSize(t, w) = f[Len(w)] /\ f[0] = 0
                  /\ \A m \in 1 .. Len(w) : f[m] = f[m - 1] + ItemSize(t, w[m])
<1> SUFFICES
        ASSUME NEW t, NEW w, Len(w) \in Nat,
               \E f : f = [m \in 0 .. Len(w) |-> IF m = 0 THEN 0 ELSE f[m - 1] + ItemSize(t, w[m])]
        PROVE  \E f : /\ PackedSize(t, w) = f[Len(w)] /\ f[0] = 0
                      /\ \A m \in 1 .. Len(w) : f[m] = f[m - 1] + ItemSize(t, w[m])
    OBVIOUS
<1> DEFINE F(f) == [m \in 0 .. Len(w) |-> IF m = 0 THEN 0 ELSE f[m - 1] + ItemSize(t, w[m])]
           g == CHOOSE f : f = F(f)
<1>1. g = F(g)
    OBVIOUS
<1>2. PackedSize(t, w) = g[Len(w)]
    BY DEF PackedSize
<1>3. g[0] = F(g)[0] /\ \A m \in 1 .. Len(w) : g[m] = F(g)[m]
    BY <1>1
<1>4. F(g)[0] = 0 /\ \A m \in 1 .. Len(w) : F(g)[m] = g[m - 1] + ItemSize(t, w[m])
    OBVIOUS
<1> HIDE DEF g, F
<1> QED
    BY <1>2, <1>3, <1>4

LEMMA OneSize ==
    ASSUME NEW t, NEW x, ItemSize(t, x) \in Nat
    PROVE  PackedSize(t, <<x>>) = ItemSize(t, x)
<1> DEFINE w == <<x>>
           f0 == [m \in 0 .. 1 |-> IF m = 0 THEN 0 ELSE ItemSize(t, x)]
<1>1. Len(w) = 1 /\ w[1] = x
    OBVIOUS
<1>2. f0 = [m \in 0 .. Len(w) |-> IF m = 0 THEN 0 ELSE f0[m - 1] + ItemSize(t, w[m])]
    <2>1. f0[0] = 0 /\ \A m \in 0 .. 1 : m = 0 \/ m = 1
        OBVIOUS
    <2>2. \A m \in 0 .. 1 : f0[m] = IF m = 0 THEN 0 ELSE f0[m - 1] + ItemSize(t, w[m])
        BY <1>1, <2>1
    <2> QED
        BY <1>1, <2>2
<1> HIDE DEF f0, w
<1>3. PICK f : /\ PackedSize(t, w) = f[Len(w)] /\ f[0] = 0
               /\ \A m \in 1 .. Len(w) : f[m] = f[m - 1] + ItemSize(t, w[m])
    <2>1. Len(w) \in Nat
        BY <1>1
    <2>2. \E f : f = [m \in 0 .. Len(w) |-> IF m = 0 THEN 0 ELSE f[m - 1] + ItemSize(t, w[m])]
        BY <1>2
    <2>3. \A u : /\ Len(u) \in Nat
                 /\ \E f : f = [m \in 0 .. Len(u) |->
                                   IF m = 0 THEN 0 ELSE f[m - 1] + ItemSize(t, u[m])]
                 => \E f : /\ PackedSize(t, u) = f[Len(u)] /\ f[0] = 0
                           /\ \A m \in 1 .. Len(u) : f[m] = f[m - 1] + ItemSize(t, u[m])
        BY SizeSums
    <2> QED
        BY <2>1, <2>2, <2>3
<1>4. f[1] = f[1 - 1] + ItemSize(t, w[1]) /\ 1 - 1 = 0
    BY <1>1, <1>3
<1> QED
    BY <1>1, <1>3, <1>4 DEF w

LEMMA ThreeSizes ==
    ASSUME NEW t, NEW x, NEW y, NEW z,
           ItemSize(t, x) \in Nat, ItemSize(t, y) \in Nat, ItemSize(t, z) \in Nat
    PROVE  PackedSize(t, <<x, y, z>>) = ItemSize(t, x) + ItemSize(t, y) + ItemSize(t, z)
<1> DEFINE w == <<x, y, z>>
           a == ItemSize(t, x)
           b == ItemSize(t, y)
           c == ItemSize(t, z)
           f0 == [m \in 0 .. 3 |-> IF m = 0 THEN 0 ELSE IF m = 1 THEN a
                                   ELSE IF m = 2 THEN a + b ELSE a + b + c]
<1>1. Len(w) = 3 /\ w[1] = x /\ w[2] = y /\ w[3] = z
    OBVIOUS
<1>2. f0 = [m \in 0 .. Len(w) |-> IF m = 0 THEN 0 ELSE f0[m - 1] + ItemSize(t, w[m])]
    <2>1. /\ f0[0] = 0 /\ f0[1] = a /\ f0[2] = a + b /\ f0[3] = a + b + c
          /\ \A m \in 0 .. 3 : m = 0 \/ m = 1 \/ m = 2 \/ m = 3
        OBVIOUS
    <2> HIDE DEF w
    <2>2. f0[1] = f0[0] + ItemSize(t, w[1]) /\ f0[2] = f0[1] + ItemSize(t, w[2])
          /\ f0[3] = f0[2] + ItemSize(t, w[3])
        BY <1>1, <2>1
    <2>3. \A m \in 0 .. 3 : f0[m] = IF m = 0 THEN 0 ELSE f0[m - 1] + ItemSize(t, w[m])
        BY <2>1, <2>2
    <2> QED
        BY <1>1, <2>3
<1> HIDE DEF f0, w
<1>3. PICK f : /\ PackedSize(t, w) = f[Len(w)] /\ f[0] = 0
               /\ \A m \in 1 .. Len(w) : f[m] = f[m - 1] + ItemSize(t, w[m])
    <2>1. Len(w) \in Nat
        BY <1>1
    <2>2. \E f : f = [m \in 0 .. Len(w) |-> IF m = 0 THEN 0 ELSE f[m - 1] + ItemSize(t, w[m])]
        BY <1>2
    <2>3. \A u : /\ Len(u) \in Nat
                 /\ \E f : f = [m \in 0 .. Len(u) |->
                                   IF m = 0 THEN 0 ELSE f[m - 1] + ItemSize(t, u[m])]
                 => \E f : /\ PackedSize(t, u) = f[Len(u)] /\ f[0] = 0
                           /\ \A m \in 1 .. Len(u) : f[m] = f[m - 1] + ItemSize(t, u[m])
        BY SizeSums
    <2> QED
        BY <2>1, <2>2, <2>3
<1>4. /\ f[1] = f[1 - 1] + ItemSize(t, w[1]) /\ 1 - 1 = 0
      /\ f[2] = f[2 - 1] + ItemSize(t, w[2]) /\ 2 - 1 = 1
      /\ f[3] = f[3 - 1] + ItemSize(t, w[3]) /\ 3 - 1 = 2
    BY <1>1, <1>3
<1>5. f[1] = a /\ f[2] = a + b /\ f[3] = a + b + c
    BY <1>1, <1>3, <1>4
<1> QED
    BY <1>1, <1>3, <1>5 DEF w

LEMMA PortSize ==
    /\ \A n \in CType("port") : IntSize(n) \in 1 .. 3
    /\ 256 \in CType("port") /\ IntSize(256) = 3
<1> DEFINE top == Width("port") - 1
<1>1. CType("port") = 0 .. top
    BY UintType DEF Uints
<1>2. top \in Int /\ top < 65536 /\ 256 <= top
    BY SMT DEF Width
<1> HIDE DEF top
<1>3. ASSUME NEW n \in 0 .. top PROVE IntSize(n) \in 1 .. 3
    <2>1. n \in Int /\ 0 <= n /\ n < 65536
        BY <1>2, SMT
    <2> QED
        BY <2>1, SMT DEF IntSize
<1>4. 256 \in 0 .. top
    BY <1>2, SMT
<1>5. IntSize(256) = 3
    BY SMT DEF IntSize
<1> QED
    BY <1>1, <1>3, <1>4, <1>5

\* The members, one by one.
LEMMA MemberSizes ==
    ASSUME NEW t, NEW v
    PROVE  /\ ItemSize(t, Header) = 1
           /\ ItemSize(t, ItemOf("in_addr", v)) \in 1 .. 5
           /\ t = "ether_addr" => ItemSize(t, ItemOf("ether_addr", v)) = 8
           /\ t # "ether_addr" => ItemSize(t, ItemOf("in6_addr", v)) = 18
           /\ v \in 0 .. 127 => /\ ItemSize(t, ItemOf("in_pfx", v)) = 1
                                /\ ItemSize(t, ItemOf("in6_pfx", v)) = 1
           /\ ItemSize(t, ItemOf("port", v)) = IntSize(v)
<1>1. /\ ItemOf("in_addr", v) = [kind |-> "word", data |-> Wired("in_addr", v)]
      /\ ItemOf("ether_addr", v).kind = "bin" /\ ItemOf("in6_addr", v).kind = "bin"
      /\ \A k \in Uints : ItemOf(k, v) = [kind |-> "int", data |-> v]
    BY DEF ItemOf, Write, Item, AddrKind, Enums, Uints, Addrs
<1>2. ItemSize(t, Header) = 1
    BY DEF ItemSize, Header
<1>3. ItemSize(t, ItemOf("in_addr", v)) \in 1 .. 5
    BY <1>1 DEF ItemSize
<1>4. t = "ether_addr" => ItemSize(t, ItemOf("ether_addr", v)) = 8
    BY <1>1 DEF ItemSize
<1>5. t # "ether_addr" => ItemSize(t, ItemOf("in6_addr", v)) = 18
    BY <1>1 DEF ItemSize
<1>6. \A k \in Uints : ItemSize(t, ItemOf(k, v)) = IntSize(v)
    BY <1>1 DEF ItemSize
<1> QED
    <2>1. v \in 0 .. 127 => IntSize(v) = 1
        BY SMT DEF IntSize
    <2> QED
        BY <1>2, <1>3, <1>4, <1>5, <1>6, <2>1 DEF Uints

LEMMA StructSize ==
    ASSUME NEW t \in Structs, NEW v,
           NEW a \in Nat, a = ItemSize(t, ItemOf(Members(t)[1], v.addr)),
           NEW b \in Nat, b = ItemSize(t, ItemOf(Members(t)[2], v.num))
    PROVE  PackedSize(t, Encode(t, v)) = 1 + a + b
<1>1. Encode(t, v) = <<Header, ItemOf(Members(t)[1], v.addr), ItemOf(Members(t)[2], v.num)>>
    BY EncodeIs DEF Types
<1>2. ItemSize(t, Header) = 1
    BY MemberSizes
<1> QED
    BY <1>1, <1>2, ThreeSizes

\* How much HED_*_PACKED_SIZE_MAX is short of what an accepted object takes: not at
\* all for an address or a network, whose prefix takes one byte of the two that it
\* is given; one byte for a service, and a service of that size there is
\* (inet.h:1195, 1398).
THEOREM PackedRoom ==
    /\ \A t \in Addrs \cup Structs : \A v \in Object(t) :
           Chk(t, v) => PackedSize(t, Encode(t, v)) <= PackedMax(t) + (IF t \in Structs \ Nets THEN 1 ELSE 0)
    /\ \A t \in Structs \ Nets : \E v \in Object(t) :
           Chk(t, v) /\ PackedSize(t, Encode(t, v)) = PackedMax(t) + 1
<1>1. ASSUME NEW t \in Addrs, NEW v
      PROVE  PackedSize(t, Encode(t, v)) <= PackedMax(t)
    <2>1. t \in Types /\ t \in Scalars
        BY ScalarKinds DEF Types
    <2>2. Encode(t, v) = <<ItemOf(t, v)>>
        BY <2>1, EncodeIs
    <2>3. ItemSize(t, ItemOf(t, v)) \in Nat /\ ItemSize(t, ItemOf(t, v)) <= PackedMax(t)
        BY MemberSizes DEF PackedMax, Addrs
    <2> QED
        BY <2>2, <2>3, OneSize
<1>2. ASSUME NEW t \in Structs, NEW v \in Object(t)
      PROVE  /\ v.num \in CType(Members(t)[2])
             /\ t = "in_svc" => Members(t)[1] = "in_addr" /\ Members(t)[2] = "port"
             /\ t = "in6_svc" => Members(t)[1] = "in6_addr" /\ Members(t)[2] = "port"
             /\ t = "in_net" => Members(t)[1] = "in_addr" /\ Members(t)[2] = "in_pfx"
             /\ t = "in6_net" => Members(t)[1] = "in6_addr" /\ Members(t)[2] = "in6_pfx"
    <2>1. v.num \in CType(Members(t)[2])
        BY DEF Object
    <2> QED
        BY <2>1 DEF Members, in_svc, in6_svc, in_net, in6_net
<1>3. ASSUME NEW t \in Structs \ Nets, NEW v \in Object(t)
      PROVE  PackedSize(t, Encode(t, v)) <= PackedMax(t) + 1
    <2>1. t \in {"in_svc", "in6_svc"}
        BY DEF Structs
    <2>2. v.num \in CType("port") /\ Members(t)[2] = "port"
        BY <1>2, <2>1
    <2>3. ItemSize(t, ItemOf("port", v.num)) \in 1 .. 3
        BY <2>2, MemberSizes, PortSize
    <2>4. CASE t = "in_svc"
        <3>1. ItemSize(t, ItemOf("in_addr", v.addr)) \in 1 .. 5
            BY MemberSizes
        <3>2. Members(t)[1] = "in_addr" /\ PackedMax(t) = 8
            BY <1>2, <2>4 DEF PackedMax
        <3> QED
            BY <2>2, <2>3, <3>1, <3>2, StructSize
    <2>5. CASE t = "in6_svc"
        <3>1. ItemSize(t, ItemOf("in6_addr", v.addr)) = 18
            BY <2>5, MemberSizes
        <3>2. Members(t)[1] = "in6_addr" /\ PackedMax(t) = 21
            BY <1>2, <2>5 DEF PackedMax
        <3> QED
            BY <2>2, <2>3, <3>1, <3>2, StructSize
    <2> QED
        BY <2>1, <2>4, <2>5
<1>4. ASSUME NEW t \in Nets, NEW v \in Object(t), Chk(t, v)
      PROVE  PackedSize(t, Encode(t, v)) <= PackedMax(t)
    <2>1. t \in Structs /\ t \in Types
        BY DEF Structs, Types
    <2>2. ScalarChk(Members(t)[2], v.num) /\ v.num \in CType(Members(t)[2]) /\ Members(t)[2] \in Uints
        BY <1>4, <2>1, ChkIs, StructMembers DEF Object
    <2>3. v.num \in Int /\ v.num >= 0
        BY <2>2, UintType
    <2>4. CASE t = "in_net"
        <3>1. Members(t)[1] = "in_addr" /\ Members(t)[2] = "in_pfx" /\ PackedMax(t) = 7
            BY <1>2, <2>1, <2>4 DEF PackedMax
        <3>2. v.num \in 0 .. 127
            BY <2>2, <2>3, <3>1 DEF ScalarChk, hed_chk_in_pfx, Enums, Addrs
        <3>3. ItemSize(t, ItemOf("in_pfx", v.num)) = 1 /\ ItemSize(t, ItemOf("in_addr", v.addr)) \in 1 .. 5
            BY <3>2, MemberSizes
        <3> QED
            BY <2>1, <3>1, <3>3, StructSize
    <2>5. CASE t = "in6_net"
        <3>1. Members(t)[1] = "in6_addr" /\ Members(t)[2] = "in6_pfx" /\ PackedMax(t) = 20
            BY <1>2, <2>1, <2>5 DEF PackedMax
        <3>2. v.num \in 0 .. 127
            BY <2>2, <2>3, <3>1 DEF ScalarChk, hed_chk_in6_pfx, Enums, Addrs
        <3>3. ItemSize(t, ItemOf("in6_pfx", v.num)) = 1 /\ ItemSize(t, ItemOf("in6_addr", v.addr)) = 18
            BY <2>5, <3>2, MemberSizes
        <3> QED
            BY <2>1, <3>1, <3>3, StructSize
    <2> QED
        BY <2>4, <2>5 DEF Nets
<1>5. ASSUME NEW t \in Structs \ Nets
      PROVE  \E v \in Object(t) : Chk(t, v) /\ PackedSize(t, Encode(t, v)) = PackedMax(t) + 1
    <2> DEFINE v == [addr |-> {31}, num |-> 256]
    <2>0. v.addr = {31} /\ v.num = 256
        OBVIOUS
    <2>1. /\ t \in {"in_svc", "in6_svc"} /\ t \in Types /\ t \in Structs
          /\ Members(t)[1] \in Addrs
        BY StructMembers DEF Structs, Types
    <2>2. Members(t)[2] = "port"
        BY <2>1 DEF Members, in_svc, in6_svc
    <2>3. {31} \in CType(Members(t)[1])
        <3>1. Bits(Members(t)[1]) \in {32, 48, 128}
            BY <2>1, BitsAre DEF Addrs
        <3>2. {31} \in CType(Members(t)[1])
            BY <2>1, <3>1, CTypeIs
        <3> QED
            BY <3>2
    <2>4. v \in Object(t)
        BY <2>1, <2>2, <2>3, PortSize DEF Object
    <2> HIDE DEF v
    <2>5. ScalarChk(Members(t)[1], {31}) /\ ScalarChk("port", 256)
        <3>1. ScalarChk("port", 256)
            BY DEF ScalarChk, hed_chk_port, Enums, Addrs
        <3> QED
            BY <2>1, <3>1, ScalarChkIs
    <2>6. Chk(t, v)
        <3>1. t \in Structs \ Nets
            OBVIOUS
        <3>2. ScalarChk(Members(t)[1], v.addr) /\ ScalarChk(Members(t)[2], v.num)
            BY <2>0, <2>2, <2>5
        <3> QED
            BY <2>1, <3>1, <3>2, ChkIs
    <2>7. ItemSize(t, ItemOf("port", 256)) = 3
        BY MemberSizes, PortSize
    <2>8. CASE t = "in_svc"
        <3>1. Members(t)[1] = "in_addr" /\ PackedMax(t) = 8
            BY <2>8 DEF Members, in_svc, PackedMax
        <3>2. HostBit(31) = 24
            BY DEF HostBit, ByteBit
        <3>3. Wired("in_addr", {31}) = {24}
            BY <3>2 DEF Wired
        <3>4. ItemOf("in_addr", {31}) = [kind |-> "word", data |-> {24}]
            BY <3>3 DEF ItemOf, Write, Item, AddrKind, Enums, Uints, Addrs
        <3>5. ItemSize(t, ItemOf("in_addr", {31})) = 5
            BY <3>4 DEF ItemSize
        <3>6. /\ ItemSize(t, ItemOf(Members(t)[1], v.addr)) = 5
              /\ ItemSize(t, ItemOf(Members(t)[2], v.num)) = 3
            BY <2>0, <2>2, <2>7, <3>1, <3>5
        <3>7. PackedSize(t, Encode(t, v)) = 1 + 5 + 3
            BY <2>1, <3>6, StructSize
        <3> QED
            BY <2>4, <2>6, <3>1, <3>7
    <2>9. CASE t = "in6_svc"
        <3>1. Members(t)[1] = "in6_addr" /\ PackedMax(t) = 21
            BY <2>9 DEF Members, in6_svc, PackedMax
        <3>2. ItemSize(t, ItemOf("in6_addr", {31})) = 18
            BY <2>9, MemberSizes
        <3>3. PackedSize(t, Encode(t, v)) = 1 + 18 + 3
            BY <2>1, <2>2, <2>7, <3>1, <3>2, <2>0, StructSize
        <3> QED
            BY <2>4, <2>6, <3>1, <3>3
    <2> QED
        BY <2>1, <2>8, <2>9
<1>6. \A t \in Addrs : t \notin Structs /\ PackedMax(t) \in Nat
    BY DEF Addrs, Structs, Nets, PackedMax
<1>7. \A t \in Nets : PackedMax(t) \in Nat
    BY DEF Nets, PackedMax
<1>8. ASSUME NEW t \in Addrs \cup Structs, NEW v \in Object(t), Chk(t, v)
      PROVE  PackedSize(t, Encode(t, v)) <= PackedMax(t) + (IF t \in Structs \ Nets THEN 1 ELSE 0)
    <2>1. CASE t \in Structs \ Nets
        BY <1>3, <2>1
    <2>2. CASE t \notin Structs \ Nets
        <3>1. PackedSize(t, Encode(t, v)) <= PackedMax(t)
            BY <1>1, <1>4, <1>8, <2>2
        <3>2. PackedMax(t) \in Nat
            BY <1>6, <1>7, <2>2
        <3> QED
            BY <2>2, <3>1, <3>2
    <2> QED
        BY <2>1, <2>2
<1> QED
    BY <1>5, <1>8

-----------------------------------------------------------------------------
(* A value on its way.                                                     *)

\* The inputs are objects of the C types, streams and texts of the shapes that
\* the invariant speaks of.
LEMMA NumbersTyped ==
    ASSUME NEW t \in Uints
    PROVE  Numbers(t) \subseteq CType(t)
<1>1. CType(t) = 0 .. Width(t) - 1
    BY UintType
<1>2. CASE t = "in_pfx"
    <2>1. Numbers(t) = 0 .. 33 \cup {255} /\ Width(t) = 256
        BY <1>2 DEF Numbers, Width
    <2> QED
        BY <1>1, <2>1
<1>3. CASE t = "in6_pfx"
    <2>1. Numbers(t) = 0 .. 129 \cup {255} /\ Width(t) = 256
        BY <1>3 DEF Numbers, Width
    <2> QED
        BY <1>1, <2>1
<1>4. CASE t = "port"
    <2> DEFINE top == Width(t) - 1
    <2>1. top = 65535
        BY <1>4, SMTT(20) DEF Width
    <2>2. Numbers(t) = {0, 1, 127, 128, 255, 256, 65535}
        BY <1>4, SMTT(20) DEF Numbers
    <2> HIDE DEF top
    <2>3. Numbers(t) = {0, 1, 127, 128, 255, 256, top} /\ top \in Int /\ top > 256
        BY <2>1, <2>2, SMTT(20)
    <2>4. Numbers(t) \subseteq 0 .. top
        BY <2>3, SMTT(20)
    <2> QED
        BY <1>1, <2>4 DEF top
<1> QED
    BY <1>2, <1>3, <1>4 DEF Uints

LEMMA AddressesTyped ==
    ASSUME NEW t \in Addrs
    PROVE  Addresses(t) \subseteq CType(t)
    BY CTypeIs DEF Addresses

LEMMA InputsAre ==
    ASSUME NEW t
    PROVE  /\ t \in Enums =>
                /\ Objects(t) = {Table(t)[n].value : n \in DOMAIN Table(t)} \cup {3}
                /\ Jsons(t) = Maybe(Texts)
           /\ t \in Uints => Objects(t) = Numbers(t) /\ Jsons(t) = Maybe(JsonNumbers(t))
           /\ t \in Addrs => Objects(t) = Addresses(t) /\ Jsons(t) = Maybe(Addresses(t))
           /\ t \in Structs =>
                /\ Objects(t) = [addr : Addresses(Members(t)[1]), num : Numbers(Members(t)[2])]
                /\ Jsons(t) = [addr : Maybe(Addresses(Members(t)[1])),
                               num  : Maybe(JsonNumbers(Members(t)[2]))]
<1>1. ASSUME t \in Enums
      PROVE  /\ Objects(t) = {Table(t)[n].value : n \in DOMAIN Table(t)} \cup {3}
             /\ Jsons(t) = Maybe(Texts)
    <2>1. t \notin Uints /\ t \notin Addrs /\ t \notin Structs /\ t # "name" /\ t # "time"
        BY <1>1, KindsApart, StructsApart
    <2>2. Objects(t) = {Table(t)[n].value : n \in DOMAIN Table(t)} \cup {3}
        BY <1>1, <2>1 DEF Objects
    <2>3. Jsons(t) = Maybe({Strings[n] : n \in DOMAIN Strings})
        BY <1>1, <2>1 DEF Jsons
    <2> QED
        BY <2>2, <2>3 DEF Texts
<1>2. ASSUME t \in Uints
      PROVE  Objects(t) = Numbers(t) /\ Jsons(t) = Maybe(JsonNumbers(t))
    <2>1. t \notin Enums /\ t \notin Addrs /\ t \notin Structs /\ t # "name" /\ t # "time"
        BY <1>2, KindsApart, StructsApart
    <2> QED
        BY <1>2, <2>1 DEF Objects, Jsons
<1>3. ASSUME t \in Addrs
      PROVE  Objects(t) = Addresses(t) /\ Jsons(t) = Maybe(Addresses(t))
    <2>1. t \notin Enums /\ t \notin Uints /\ t \notin Structs /\ t # "name" /\ t # "time"
        BY <1>3, KindsApart, StructsApart
    <2> QED
        BY <1>3, <2>1 DEF Objects, Jsons
<1>4. ASSUME t \in Structs
      PROVE  /\ Objects(t) = [addr : Addresses(Members(t)[1]), num : Numbers(Members(t)[2])]
             /\ Jsons(t) = [addr : Maybe(Addresses(Members(t)[1])),
                            num  : Maybe(JsonNumbers(Members(t)[2]))]
    <2>1. t \notin Enums /\ t \notin Uints /\ t \notin Addrs /\ t # "name" /\ t # "time"
        BY <1>4, StructsApart
    <2>2. Objects(t) = [addr : Addresses(Members(t)[1]), num : Numbers(Members(t)[2])]
        BY <1>4, <2>1 DEF Objects
    <2>3. Jsons(t) = [addr : Maybe(Addresses(Members(t)[1])), num  : Maybe(JsonNumbers(Members(t)[2]))]
        BY <1>4, <2>1 DEF Jsons
    <2> QED
        BY <2>2, <2>3
<1> QED
    BY <1>1, <1>2, <1>3, <1>4

LEMMA ObjectsTyped ==
    ASSUME NEW t \in Types
    PROVE  Objects(t) \subseteq Object(t)
<1>1. CASE t \in Enums
    <2>1. Objects(t) = {Table(t)[n].value : n \in DOMAIN Table(t)} \cup {3}
        BY <1>1, InputsAre
    <2>2. Object(t) = Int
        BY <1>1, CTypeIs DEF Object, Enums, Structs, Nets
    <2> QED
        BY <1>1, <2>1, <2>2, TablesInOrder
<1>2. CASE t \in Uints
    <2>1. Objects(t) = Numbers(t) /\ Object(t) = CType(t)
        BY <1>2, KindsApart DEF Objects, Object, Uints, Structs, Nets
    <2> QED
        BY <1>2, <2>1, NumbersTyped
<1>3. CASE t \in Addrs
    <2>1. Objects(t) = Addresses(t) /\ Object(t) = CType(t)
        BY <1>3, KindsApart DEF Objects, Object, Addrs, Structs, Nets
    <2> QED
        BY <1>3, <2>1, AddressesTyped
<1>4. CASE t \in Structs
    <2>2. /\ Objects(t) = [addr : Addresses(Members(t)[1]), num : Numbers(Members(t)[2])]
          /\ Object(t) = [addr : CType(Members(t)[1]), num : CType(Members(t)[2])]
        BY <1>4, InputsAre DEF Object
    <2>3. /\ Addresses(Members(t)[1]) \subseteq CType(Members(t)[1])
          /\ Numbers(Members(t)[2]) \subseteq CType(Members(t)[2])
        BY <1>4, StructMembers, NumbersTyped, AddressesTyped
    <2> QED
        BY <2>2, <2>3
<1>5. CASE t = "name"
    <2>1. Objects(t) = {0, 1, 40, 41} /\ Object(t) = Nat
        BY <1>5, KindsApart, CTypeIs DEF Objects, Object, Structs, Nets
    <2> QED
        BY <2>1
<1>6. CASE t = "time"
    <2>1. /\ Objects(t) = [sec : -1 .. TimeMax + 1, ns : -1 .. NsPerMs * MsPerSec]
          /\ Object(t) = [sec : Int, ns : Int]
        BY <1>6, KindsApart, CTypeIs DEF Objects, Object, Structs, Nets
    <2>2. TimeMax + 1 \in Int /\ NsPerMs * MsPerSec \in Int
        BY Units
    <2>3. -1 .. TimeMax + 1 \subseteq Int /\ -1 .. NsPerMs * MsPerSec \subseteq Int
        BY <2>2
    <2> QED
        BY <2>1, <2>3
<1> QED
    BY <1>1, <1>2, <1>3, <1>4, <1>5, <1>6, ScalarKinds DEF Scalars

LEMMA StreamsTyped ==
    ASSUME NEW t \in Types, NEW w \in Streams(t)
    PROVE  Optional(Decode(t, w), Object(t))
<1>1. CASE \E v \in Objects(t) : w = Encode(t, v)
    <2>1. PICK v \in Object(t) : w = Encode(t, v)
        BY <1>1, ObjectsTyped
    <2> QED
        BY <2>1, DecodesBack DEF Optional
<1>2. CASE \E v \in Objects(t) : w = SubSeq(Encode(t, v), 1, Len(Encode(t, v)) - 1)
    <2>1. PICK v : w = SubSeq(Encode(t, v), 1, Len(Encode(t, v)) - 1)
        BY <1>2
    <2>2. Len(Encode(t, v)) = 1 \/ Len(Encode(t, v)) = 3
        BY EncodeIs DEF Scalars
    <2>3. Len(Encode(t, v)) - 1 \in 0 .. Len(Encode(t, v)) - 1
        BY <2>2
    <2> QED
        BY <2>1, <2>3, TornIsNothing DEF Optional
<1>3. CASE w = Item("nil", 0) \/ w = Item("array", 3)
    <2>1. CASE t \in Structs
        <3>1. Len(w) # 3
            BY <1>3 DEF Item
        <3> QED
            BY <2>1, <3>1, ShortIsNothing DEF Optional
    <2>2. CASE t \in Scalars
        <3>1. \A k : k \in {"int", "word", "bin", "str", "timespec"} => Expect(k, w) = {}
            BY <1>3 DEF Item, Expect
        <3>2. Read(t, w) = {}
            BY <2>2, <3>1, ScalarKinds DEF Read, AddrKind
        <3> QED
            BY <2>2, <3>2 DEF Decode, Scalars, Optional
    <2> QED
        BY <2>1, <2>2 DEF Scalars
<1> QED
    BY <1>1, <1>2, <1>3 DEF Streams

LEMMA MaybeIsOptional ==
    ASSUME NEW S, NEW T, S \subseteq T, NEW j \in Maybe(S)
    PROVE  Optional(j, T)
    BY DEF Maybe, Optional

LEMMA JsonNumbersTyped ==
    ASSUME NEW t \in Uints
    PROVE  JsonNumbers(t) \subseteq Int
<1>1. Numbers(t) \subseteq Int
    BY NumbersTyped, UintType
<1> QED
    BY <1>1, UintType DEF JsonNumbers

LEMMA JsonTypeIs ==
    ASSUME NEW t, NEW j
    PROVE  /\ t \in Enums => (JsonType(t, j) <=> Optional(j, Texts))
           /\ t \in Uints => (JsonType(t, j) <=> Optional(j, Int))
           /\ t \in Addrs => (JsonType(t, j) <=> Optional(j, CType(t)))
    BY KindsApart DEF JsonType, Texts

LEMMA JsonsTyped ==
    ASSUME NEW t \in Types, NEW j \in Jsons(t)
    PROVE  Json(t, j)
<1>1. CASE t \in Scalars
    <2>0. t \notin Structs /\ t \notin {"in_svc", "in6_svc", "in_net", "in6_net"}
        BY <1>1 DEF Scalars, Structs, Nets
    <2>1. CASE t \in Enums
        <3>1. j \in Maybe(Texts)
            BY <2>1, InputsAre
        <3>2. Optional(j, Texts)
            BY <3>1, MaybeIsOptional
        <3> QED
            BY <2>0, <2>1, <3>2, JsonTypeIs DEF Json
    <2>2. CASE t \in Uints
        <3>1. j \in Maybe(JsonNumbers(t))
            BY <2>2, InputsAre
        <3>2. Optional(j, Int)
            BY <2>2, <3>1, MaybeIsOptional, JsonNumbersTyped
        <3> QED
            BY <2>0, <2>2, <3>2, JsonTypeIs DEF Json
    <2>3. CASE t \in Addrs
        <3>1. j \in Maybe(Addresses(t))
            BY <2>3, InputsAre
        <3>2. Optional(j, CType(t))
            BY <2>3, <3>1, MaybeIsOptional, AddressesTyped
        <3> QED
            BY <2>0, <2>3, <3>2, JsonTypeIs DEF Json
    <2>4. CASE t = "name"
        <3>1. j \in Maybe(Objects(t))
            BY <2>0, <2>4, KindsApart DEF Jsons
        <3>2. Objects(t) \subseteq CType(t)
            BY <2>0, ObjectsTyped DEF Object
        <3>3. Optional(j, CType(t))
            BY <3>1, <3>2, MaybeIsOptional
        <3> QED
            BY <2>0, <2>4, <3>3, KindsApart DEF Json, JsonType
    <2>5. CASE t = "time"
        <3> DEFINE Given == [sec : -1 .. TimeMax + 1, num : -1 .. MsPerSec,
                             digits : 1 .. 4, ahead : {0, 1}]
        <3>1. j \in Maybe(Given)
            BY <2>0, <2>5, KindsApart DEF Jsons
        <3>2. -1 .. TimeMax + 1 \subseteq Int /\ -1 .. MsPerSec \subseteq Int
            BY Units
        <3>3. Given \subseteq TextTime
            BY <3>2 DEF TextTime
        <3> HIDE DEF Given
        <3>4. Optional(j, TextTime)
            BY <3>1, <3>3, MaybeIsOptional
        <3> QED
            BY <2>0, <2>5, <3>4, KindsApart DEF Json, JsonType, TextTime
    <2> QED
        BY <1>1, <2>1, <2>2, <2>3, <2>4, <2>5, ScalarKinds
<1>2. CASE t \in Structs
    <2> DEFINE m1 == Members(t)[1]
               m2 == Members(t)[2]
    <2>1. j \in [addr : Maybe(Addresses(m1)), num : Maybe(JsonNumbers(m2))]
        BY <1>2, InputsAre
    <2>2. m1 \in Addrs /\ m2 \in Uints
        BY <1>2, StructMembers
    <2> HIDE DEF m1, m2
    <2>3. /\ j.addr \in Maybe(Addresses(m1)) /\ j.num \in Maybe(JsonNumbers(m2))
          /\ j = [addr |-> j.addr, num |-> j.num]
        BY <2>1
    <2>4. Optional(j.addr, CType(m1))
        BY <2>2, <2>3, MaybeIsOptional, AddressesTyped
    <2>5. Optional(j.num, Int)
        BY <2>2, <2>3, MaybeIsOptional, JsonNumbersTyped
    <2>6. JsonType(m1, j.addr) /\ JsonType(m2, j.num)
        BY <2>2, <2>4, <2>5, KindsApart DEF JsonType
    <2> QED
        BY <1>2, <2>3, <2>6 DEF Json, m1, m2
<1> QED
    BY <1>1, <1>2 DEF Scalars

\* A name that is offered is understood.
LEMMA OfferedName ==
    ASSUME NEW t \in Enums, NEW j \in Maybe(dump_str(t)), j # {}, NEW z \in Int
    PROVE  \E v \in FromJson(t, j, z) : Chk(t, v)
<1>1. t \in Types /\ t \in Scalars /\ t \notin Structs /\ t \notin Nets
    BY StructsApart, ScalarKinds DEF Types, Structs
<1>2. PICK s : s \in dump_str(t) /\ j = {s}
    BY DEF Maybe
<1>3. PICK n \in DOMAIN Table(t) : Table(t)[n].str = s
    BY <1>2 DEF dump_str
<1>4. s \in Texts
    BY <1>3, TablesInOrder DEF IsTable
<1>5. Table(t)[n].value \in from_str(t, s)
    BY <1>3, <1>4, EnumLookup
<1>6. FromJson(t, j, z) = enum_from_json(t, j)
    BY <1>1, KindsApart DEF FromJson, ScalarFromJson
<1>7. enum_from_json(t, j) = from_str(t, s)
    BY <1>2 DEF enum_from_json
<1>8. Optional(j, Texts)
    BY <1>2, <1>4 DEF Optional
<1>9. Json(t, j)
    BY <1>1, <1>8, JsonTypeIs DEF Json
<1> QED
    BY <1>1, <1>5, <1>6, <1>7, <1>9, FromText

LEMMA InitIInv == Init => IInv
<1> SUFFICES ASSUME Init PROVE IInv
    OBVIOUS
<1>1. type \in Types /\ tz \in Int
    BY ValuesAssumption DEF Init
<1>2. CASE form = "value" /\ cur \in Objects(type) /\ born = Origin(type, cur) /\ made = FALSE
    <2>1. FormInv
        BY <1>1, <1>2, ObjectsTyped DEF FormInv
    <2>2. BornInv
        BY <1>2 DEF BornInv, Origin
    <2> QED
        BY <1>2, <2>1, <2>2 DEF IInv, DecodedIsValid, WayInv
<1>3. CASE form = "stream" /\ cur \in Streams(type) /\ born = "stream" /\ made = FALSE
    <2>1. FormInv
        BY <1>1, <1>3, StreamsTyped DEF FormInv
    <2> QED
        BY <1>3, <2>1 DEF IInv, BornInv, DecodedIsValid, WayInv
<1>4. CASE /\ form = "json" /\ cur \in Jsons(type) /\ born = "json"
           /\ made = (type \in Enums /\ cur \in Maybe(dump_str(type)) \ {{}})
    <2>1. FormInv
        BY <1>1, <1>4, JsonsTyped DEF FormInv
    <2>2. ASSUME made PROVE \E v \in FromJson(type, cur, tz) : Chk(type, v)
        BY <1>1, <1>4, <2>2, OfferedName
    <2> QED
        BY <1>4, <2>1, <2>2 DEF IInv, BornInv, DecodedIsValid, WayInv
<1> QED
    BY <1>2, <1>3, <1>4 DEF Init

\* Every step but an assignment leaves the type, the zone and the origin alone.
LEMMA EncStep ==
    ASSUME IInv, enc
    PROVE  IInv'
<1>1. /\ form = "value" /\ form' = "stream" /\ cur' = Encode(type, cur)
      /\ made' = Chk(type, cur) /\ type' = type /\ tz' = tz /\ born' = born
    BY DEF enc, Becomes, fixed
<1>2. type \in Types /\ tz \in Int /\ cur \in Object(type)
    BY <1>1 DEF IInv, FormInv
<1>3. Decode(type, cur') = {cur}
    BY <1>1, <1>2, DecodesBack
<1>4. FormInv'
    BY <1>1, <1>2, <1>3 DEF FormInv, Optional
<1>5. BornInv'
    BY <1>1 DEF IInv, BornInv
<1>6. DecodedIsValid'
    BY <1>1 DEF DecodedIsValid
<1>7. WayInv'
    BY <1>1, <1>3 DEF WayInv
<1> QED
    BY <1>4, <1>5, <1>6, <1>7 DEF IInv

LEMMA EncFailsStep ==
    ASSUME IInv, enc_fails
    PROVE  IInv'
<1>1. PICK v : /\ form' = "torn" /\ cur' \in {SubSeq(Encode(type, v), 1, n) : n \in 0 .. Len(Encode(type, v)) - 1}
               /\ made' = FALSE /\ type' = type /\ tz' = tz /\ born' = born
    BY DEF enc_fails, Becomes, fixed
<1>2. type \in Types /\ tz \in Int
    BY DEF IInv, FormInv
<1>3. Decode(type, cur') = {}
    BY <1>1, <1>2, TornIsNothing
<1>4. FormInv'
    BY <1>1, <1>2, <1>3 DEF FormInv
<1> QED
    BY <1>1, <1>4 DEF IInv, BornInv, DecodedIsValid, WayInv

LEMMA RefusedStep ==
    ASSUME IInv, Refused
    PROVE  IInv'
<1>1. /\ form' = "refused" /\ cur' = cur /\ made' = made
      /\ type' = type /\ tz' = tz /\ born' = born
    BY DEF Refused, fixed
<1>2. FormInv'
    BY <1>1 DEF IInv, FormInv
<1>3. WayInv'
    BY <1>1 DEF WayInv
<1> QED
    BY <1>1, <1>2, <1>3 DEF IInv, BornInv, DecodedIsValid

LEMMA DecStep ==
    ASSUME IInv, dec
    PROVE  IInv'
<1> DEFINE S == hed_dec(type, cur)
<1>1. form \in {"stream", "torn"} /\ type \in Types /\ tz \in Int
    BY DEF dec, IInv, FormInv
<1>2. \A v \in S : v \in Decode(type, cur) /\ Chk(type, v)
    BY <1>1, DecodersCheck
<1>3. CASE S = {}
    BY <1>3, RefusedStep DEF dec
<1>4. CASE S # {}
    <2>1. /\ form' = "value" /\ cur' \in S /\ made' = TRUE
          /\ type' = type /\ tz' = tz /\ born' = born
        BY <1>4 DEF dec, Becomes, fixed
    <2>2. cur' \in Decode(type, cur) /\ Chk(type, cur')
        BY <1>2, <2>1
    <2>3. cur' \in Object(type)
        BY <1>1, <2>2 DEF IInv, FormInv, Optional
    <2>4. FormInv'
        BY <1>1, <2>1, <2>3 DEF FormInv
    <2> QED
        BY <2>1, <2>2, <2>4 DEF IInv, BornInv, DecodedIsValid, WayInv
<1> QED
    BY <1>3, <1>4

LEMMA DecToJsonStep ==
    ASSUME IInv, dec_to_json
    PROVE  IInv'
<1> DEFINE S == hed_dec_to_json(type, cur)
<1>1. /\ form \in {"stream", "torn"} /\ type \in Types /\ tz \in Int
      /\ form = "torn" => Decode(type, cur) = {} /\ ~made
      /\ form = "stream" => Decode(type, cur) \subseteq Object(type)
    BY DEF dec_to_json, IInv, FormInv, Optional
<1>2. CASE S = {}
    BY <1>2, RefusedStep DEF dec_to_json
<1>3. CASE S # {}
    <2>1. /\ form' = "json" /\ cur' \in S /\ made' = TRUE
          /\ type' = type /\ tz' = tz /\ born' = born
        BY <1>3 DEF dec_to_json, Becomes, fixed
    <2>2. PICK v \in Decode(type, cur) : cur' \in ToJson(type, v)
        BY <2>1 DEF hed_dec_to_json
    <2>3. form = "stream" /\ v \in Object(type)
        BY <1>1, <2>2
    <2>4. /\ Json(type, cur')
          /\ type \notin Nets => Chk(type, v)
          /\ FromJson(type, cur', 0) = Back(type, v)
          /\ Says(type, cur') = Told(type, {v})
        BY <1>1, <2>2, <2>3, ToText
    <2>5. FormInv'
        BY <1>1, <2>1, <2>4 DEF FormInv
    <2>6. ASSUME made', ~Excepted' PROVE \E x \in FromJson(type, cur', tz) : Chk(type, x)
        <3>1. FromJson(type, cur', tz) = {Cut(type, v)}
            <4>1. CASE type # "time"
                BY <1>1, <2>1, <2>4, <4>1, NoZone DEF Back
            <4>2. CASE type = "time"
                <5>1. tz = 0 /\ \A x \in Denoted(form, cur)' : ~(x.sec > YearMax)
                    BY <2>1, <2>6, <4>2 DEF Excepted, StrangeTime
                <5>2. Denoted(form, cur)' = {[sec |-> v.sec, ms |-> v.ns \div NsPerMs]}
                    BY <2>1, <2>4, <4>2 DEF Denoted, Told
                <5>3. ~(v.sec > YearMax)
                    BY <5>1, <5>2
                <5> QED
                    BY <2>4, <5>1, <5>3 DEF Back
            <4> QED
                BY <4>1, <4>2
        <3>2. CASE type \in Nets
            <4>1. born = "value" /\ ~Excepted
                BY <2>1, <2>6, <3>2 DEF Excepted, UncheckedNet, StrangeTime, Nets
            <4>2. made
                BY <2>3, <4>1 DEF IInv, BornInv
            <4>3. PICK x \in Decode(type, cur) : Chk(type, x)
                BY <2>3, <4>1, <4>2 DEF IInv, WayInv
            <4>4. x = v
                BY <1>1, <2>2, <4>3, DecodeOne
            <4> QED
                BY <1>1, <2>3, <3>1, <4>3, <4>4, CutKeeps
        <3>3. CASE type \notin Nets
            BY <1>1, <2>3, <2>4, <3>1, <3>3, CutKeeps
        <3> QED
            BY <3>2, <3>3
    <2>7. WayInv'
        BY <2>1, <2>6 DEF WayInv
    <2> QED
        BY <2>1, <2>5, <2>7 DEF IInv, BornInv, DecodedIsValid
<1> QED
    BY <1>2, <1>3

LEMMA EncFromJsonStep ==
    ASSUME IInv, enc_from_json
    PROVE  IInv'
<1>1. /\ form = "json" /\ form' = "stream" /\ made' = TRUE
      /\ type' = type /\ tz' = tz /\ born' = born
      /\ cur' \in {Encode(type, v) : v \in FromJson(type, cur, tz)}
    BY DEF enc_from_json, Becomes, fixed
<1>2. PICK v \in FromJson(type, cur, tz) : cur' = Encode(type, v)
    BY <1>1
<1>3. type \in Types /\ tz \in Int /\ Json(type, cur)
    BY <1>1 DEF IInv, FormInv
<1>4. /\ v \in Object(type) /\ \A x \in FromJson(type, cur, tz) : x = v
      /\ type \notin Nets => Chk(type, v)
    BY <1>2, <1>3, FromText DEF Optional
<1>5. Decode(type, cur') = {v}
    BY <1>2, <1>3, <1>4, DecodesBack
<1>6. FormInv'
    BY <1>1, <1>3, <1>4, <1>5 DEF FormInv, Optional
<1>7. ASSUME ~Excepted' PROVE Chk(type, v)
    <2>1. CASE type \in Nets
        <3>1. born = "value" /\ ~Excepted
            BY <1>1, <1>7, <2>1 DEF Excepted, UncheckedNet, StrangeTime, Nets
        <3>2. made
            BY <1>1, <3>1 DEF IInv, BornInv
        <3>3. \E x \in FromJson(type, cur, tz) : Chk(type, x)
            BY <1>1, <3>1, <3>2 DEF IInv, WayInv
        <3> QED
            BY <1>4, <3>3
    <2> QED
        BY <1>4, <2>1
<1>8. WayInv'
    BY <1>1, <1>5, <1>7 DEF WayInv
<1> QED
    BY <1>1, <1>6, <1>8 DEF IInv, BornInv, DecodedIsValid

LEMMA EncFromJsonRefusesStep ==
    ASSUME IInv, enc_from_json_refuses
    PROVE  IInv'
<1>1. form = "json" /\ FromJson(type, cur, tz) = {} /\ type \in Types /\ tz \in Int
    BY DEF enc_from_json_refuses, IInv, FormInv
<1>2. CASE Refused
    BY <1>2, RefusedStep
<1>3. CASE Becomes("torn", LeftFromJson(type, cur)) /\ made' = FALSE
    <2>1. /\ form' = "torn" /\ cur' \in LeftFromJson(type, cur)
          /\ type' = type /\ tz' = tz /\ born' = born
        BY <1>3 DEF Becomes, fixed
    <2>2. Decode(type, cur') = {}
        BY <1>1, <2>1, LeftIsNothing
    <2>3. FormInv'
        BY <1>1, <1>3, <2>1, <2>2 DEF FormInv
    <2> QED
        BY <1>3, <2>1, <2>3 DEF IInv, BornInv, DecodedIsValid, WayInv
<1> QED
    BY <1>2, <1>3 DEF enc_from_json_refuses

\* An assignment may leave an object that is not accepted: it counts as one that
\* the caller brings.
LEMMA AssignStep ==
    ASSUME IInv, NEW v, v \in Object(type), Assign(v)
    PROVE  IInv'
<1>1. /\ form = "value" /\ form' = "value" /\ cur' = v
      /\ born' = Origin(type, v) /\ made' = FALSE /\ type' = type /\ tz' = tz
    BY DEF Assign
<1>2. FormInv'
    BY <1>1 DEF IInv, FormInv
<1> QED
    BY <1>1, <1>2 DEF IInv, BornInv, Origin, DecodedIsValid, WayInv

LEMMA FewTyped ==
    /\ \A t \in Uints : FewNumbers \subseteq CType(t)
    /\ \A t \in Addrs : FewAddresses \subseteq CType(t)
<1>1. \A t \in Uints : FewNumbers \subseteq CType(t)
    BY UintType DEF FewNumbers
<1>2. ASSUME NEW t \in Addrs PROVE FewAddresses \subseteq CType(t)
    <2>1. Bits(t) \in {48, 32, 128}
        BY BitsAre DEF Addrs
    <2> QED
        BY <2>1, CTypeIs DEF FewAddresses
<1> QED
    BY <1>1, <1>2

LEMMA SetStep ==
    ASSUME IInv, set_num \/ set_addr
    PROVE  IInv'
<1>1. form = "value" /\ type \in Structs
    BY DEF set_num, set_addr, Assign
<1> DEFINE m1 == Members(type)[1]
           m2 == Members(type)[2]
<1>2. Object(type) = [addr : CType(m1), num : CType(m2)]
    BY <1>1 DEF Object
<1>3. cur \in Object(type)
    BY <1>1 DEF IInv, FormInv
<1>4. m1 \in Addrs /\ m2 \in Uints
    BY <1>1, StructMembers
<1> HIDE DEF m1, m2
<1>5. CASE set_num
    <2>1. PICK n \in FewNumbers : Assign([cur EXCEPT !.num = n])
        BY <1>5 DEF set_num
    <2>2. n \in CType(m2)
        BY <1>4, <2>1, FewTyped
    <2>3. [cur EXCEPT !.num = n] \in Object(type)
        BY <1>2, <1>3, <2>2
    <2> QED
        BY <2>1, <2>3, AssignStep
<1>6. CASE set_addr
    <2>1. PICK a \in FewAddresses : Assign([cur EXCEPT !.addr = a])
        BY <1>6 DEF set_addr
    <2>2. a \in CType(m1)
        BY <1>4, <2>1, FewTyped
    <2>3. [cur EXCEPT !.addr = a] \in Object(type)
        BY <1>2, <1>3, <2>2
    <2> QED
        BY <2>1, <2>3, AssignStep
<1> QED
    BY <1>5, <1>6

LEMMA NextIInv == IInv /\ [Next]_vars => IInv'
<1> SUFFICES ASSUME IInv, [Next]_vars PROVE IInv'
    OBVIOUS
<1>1. CASE enc
    BY <1>1, EncStep
<1>2. CASE enc_fails
    BY <1>2, EncFailsStep
<1>3. CASE dec
    BY <1>3, DecStep
<1>4. CASE dec_to_json
    BY <1>4, DecToJsonStep
<1>5. CASE enc_from_json
    BY <1>5, EncFromJsonStep
<1>6. CASE enc_from_json_refuses
    BY <1>6, EncFromJsonRefusesStep
<1>7. CASE set_num \/ set_addr
    BY <1>7, SetStep
<1>8. CASE UNCHANGED vars
    <2>1. UNCHANGED <<type, tz, form, cur, born, made>>
        BY <1>8 DEF vars
    <2>2. Excepted' = Excepted
        BY <2>1 DEF Excepted, UncheckedNet, StrangeTime, Denoted
    <2> QED
        BY <2>1, <2>2 DEF IInv, FormInv, BornInv, DecodedIsValid, WayInv
<1> QED
    BY <1>1, <1>2, <1>3, <1>4, <1>5, <1>6, <1>7, <1>8 DEF Next

-----------------------------------------------------------------------------
(* The properties.                                                         *)

\* The invariant behind all of them: whatever mix of encoders, decoders, JSON
\* conversions and assignments an object has been through, a stream holds one
\* object of its type or none, one that was cut short holds none, a caller's
\* accepted object stays accepted in every form, and the next conversion accepts
\* what the last one made (base*.c, inet*.c).
THEOREM Invariance == Spec => []IInv
<1>1. Init => IInv
    BY InitIInv
<1>2. IInv /\ [Next]_vars => IInv'
    BY NextIInv
<1> QED
    BY <1>1, <1>2, PTL DEF Spec

\* What the decoder of a type and its conversion to JSON make of a stream.
LEMMA Alike ==
    ASSUME NEW t \in Types, NEW v \in Object(t), NEW w, Decode(t, w) = {v}
    PROVE  /\ hed_dec_to_json(t, w) = ToJson(t, v)
           /\ hed_dec(t, w) = IF Chk(t, v) THEN {v} ELSE {}
           /\ UNION {Says(t, j) : j \in ToJson(t, v)} \subseteq Told(t, {v})
           /\ ToJson(t, v) # {} => UNION {Says(t, j) : j \in ToJson(t, v)} = Told(t, {v})
<1>1. hed_dec_to_json(t, w) = ToJson(t, v)
    BY DEF hed_dec_to_json
<1>2. hed_dec(t, w) = IF Chk(t, v) THEN {v} ELSE {}
    BY DecodersCheck
<1>3. \A j \in ToJson(t, v) : Says(t, j) = Told(t, {v})
    BY ToText
<1> QED
    BY <1>1, <1>2, <1>3

\* A stream, whoever wrote it, says the same to the decoder of its type and to its
\* conversion to JSON, but for a network, whose prefix the conversion does not check,
\* and a time too far for gmtime_r (hed_dec_*, hed_dec_*_to_json).
THEOREM ReadersAlike == Spec => []ReadersAgree
<1>1. ASSUME IInv PROVE ReadersAgree
    <2> SUFFICES ASSUME form \in {"stream", "torn"}
                 PROVE  /\ type \notin Nets =>
                             UNION {Says(type, j) : j \in hed_dec_to_json(type, cur)}
                               \subseteq Told(type, hed_dec(type, cur))
                        /\ \A v \in Told(type, hed_dec(type, cur)) :
                              \/ v \in UNION {Says(type, j) : j \in hed_dec_to_json(type, cur)}
                              \/ type = "time" /\ v.sec > GmTimeMax
        BY DEF ReadersAgree
    <2>1. type \in Types /\ Optional(Decode(type, cur), Object(type))
        BY <1>1 DEF IInv, FormInv, Optional
    <2>2. CASE Decode(type, cur) = {}
        <3>1. hed_dec(type, cur) = {} /\ hed_dec_to_json(type, cur) = {}
            BY <2>1, <2>2, DecodersCheck DEF hed_dec_to_json
        <3> QED
            BY <3>1 DEF Told
    <2>3. ASSUME NEW v \in Decode(type, cur)
          PROVE  /\ type \notin Nets =>
                      UNION {Says(type, j) : j \in hed_dec_to_json(type, cur)}
                        \subseteq Told(type, hed_dec(type, cur))
                 /\ \A x \in Told(type, hed_dec(type, cur)) :
                       \/ x \in UNION {Says(type, j) : j \in hed_dec_to_json(type, cur)}
                       \/ type = "time" /\ x.sec > GmTimeMax
        <3> DEFINE said == UNION {Says(type, j) : j \in ToJson(type, v)}
        <3>1. v \in Object(type) /\ Decode(type, cur) = {v}
            BY <2>1 DEF Optional
        <3>2. /\ hed_dec_to_json(type, cur) = ToJson(type, v)
              /\ hed_dec(type, cur) = IF Chk(type, v) THEN {v} ELSE {}
              /\ said \subseteq Told(type, {v})
              /\ ToJson(type, v) # {} => said = Told(type, {v})
            BY <2>1, <3>1, Alike
        <3>3. type \notin Nets => (ToJson(type, v) # {} => Chk(type, v))
            BY <2>1, <3>1, ToText
        <3>4. ToJson(type, v) = {} => said = {}
            OBVIOUS
        <3>5. Told(type, {}) = {}
            BY DEF Told
        <3>6. ASSUME Chk(type, v), NEW x \in Told(type, {v}),
                     ~(type = "time" /\ x.sec > GmTimeMax)
              PROVE  ToJson(type, v) # {}
            <4>1. type = "time" => v.sec <= GmTimeMax
                <5> SUFFICES ASSUME type = "time" PROVE v.sec <= GmTimeMax
                    OBVIOUS
                <5>1. x = [sec |-> v.sec, ms |-> v.ns \div NsPerMs]
                    BY <3>6 DEF Told
                <5>2. v \in CType("time")
                    BY <3>1 DEF Object, Structs, Nets
                <5>3. v.sec \in Int
                    BY <5>2, CutTime
                <5>4. GmTimeMax \in Int
                    BY Units
                <5>5. x.sec = v.sec
                    BY <5>1
                <5> QED
                    BY <3>6, <5>3, <5>4, <5>5
            <4> QED
                BY <2>1, <3>6, <4>1, HasText
        <3> HIDE DEF said
        <3>7. type \notin Nets => said \subseteq Told(type, hed_dec(type, cur))
            BY <3>2, <3>3, <3>4
        <3>8. \A x \in Told(type, hed_dec(type, cur)) :
                 x \in said \/ (type = "time" /\ x.sec > GmTimeMax)
            BY <3>2, <3>5, <3>6
        <3> QED
            BY <3>2, <3>7, <3>8 DEF said
    <2> QED
        BY <2>2, <2>3
<1> QED
    BY <1>1, Invariance, PTL

\* What hed made of an object that it accepts is not refused in the next conversion,
\* whichever way it goes, but for a network of unchecked origin, for a time out of
\* UTC and for one whose year has five digits.
THEOREM NeverRefused == Spec => NotRefused
<1>1. ASSUME IInv, [Next]_vars
      PROVE  [made /\ form' = "refused" => Excepted]_vars
    <2> SUFFICES ASSUME made, form' = "refused", ~Excepted, Next PROVE FALSE
        BY <1>1
    <2>1. /\ type \in Types /\ tz \in Int /\ form # "torn"
          /\ form = "stream" => Decode(type, cur) \subseteq Object(type)
        BY <1>1 DEF IInv, FormInv, Optional
    <2>2. CASE dec
        <3>1. form = "stream" /\ hed_dec(type, cur) = {}
            BY <2>1, <2>2 DEF dec, Becomes
        <3> QED
            BY <1>1, <2>1, <3>1, DecodersCheck DEF IInv, WayInv
    <2>3. CASE dec_to_json
        <3>1. form = "stream" /\ hed_dec_to_json(type, cur) = {}
            BY <2>1, <2>3 DEF dec_to_json, Becomes
        <3>2. PICK v \in Decode(type, cur) : Chk(type, v)
            BY <1>1, <3>1 DEF IInv, WayInv
        <3>3. type = "time" => v.sec <= GmTimeMax
            <4> SUFFICES ASSUME type = "time" PROVE v.sec <= GmTimeMax
                OBVIOUS
            <4>1. [sec |-> v.sec, ms |-> v.ns \div NsPerMs] \in Denoted(form, cur)
                BY <3>1 DEF Denoted, Told
            <4>2. \A x \in Denoted(form, cur) : ~(x.sec > YearMax)
                BY <3>1 DEF Excepted, StrangeTime
            <4>3. ~(v.sec > YearMax)
                BY <4>1, <4>2
            <4>4. v \in CType("time")
                BY <2>1, <3>1 DEF Object, Structs, Nets
            <4>5. v.sec \in Int
                BY <4>4, CutTime
            <4>6. YearMax \in Int /\ GmTimeMax \in Int /\ YearMax <= GmTimeMax
                BY Units
            <4> QED
                BY <4>3, <4>5, <4>6
        <3>4. ToJson(type, v) # {}
            BY <2>1, <3>2, <3>3, HasText
        <3> QED
            BY <3>1, <3>4 DEF hed_dec_to_json
    <2>4. CASE enc_from_json_refuses
        <3>1. form = "json" /\ FromJson(type, cur, tz) = {}
            BY <2>4 DEF enc_from_json_refuses
        <3> QED
            BY <1>1, <3>1 DEF IInv, WayInv
    <2>5. CASE enc \/ enc_fails \/ enc_from_json
        BY <2>5 DEF enc, enc_fails, enc_from_json, Becomes
    <2>6. CASE set_num \/ set_addr
        BY <2>6 DEF set_num, set_addr, Assign
    <2> QED
        BY <2>2, <2>3, <2>4, <2>5, <2>6 DEF Next
<1> QED
    BY <1>1, Invariance, PTL DEF Spec, NotRefused

\* What an encoder that failed halfway has written is refused by every decoder.
THEOREM TornIsRefused == Spec => TornRefused
<1>1. ASSUME IInv, [Next]_vars
      PROVE  [(form = "torn") => (form' = "refused")]_vars
    <2> SUFFICES ASSUME form = "torn", Next PROVE form' = "refused"
        BY <1>1
    <2>1. Decode(type, cur) = {}
        BY <1>1 DEF IInv, FormInv
    <2>2. dec \/ dec_to_json
        BY DEF Next, enc, enc_fails, enc_from_json, enc_from_json_refuses, set_num, set_addr, Assign
    <2>3. CASE dec
        <3>1. hed_dec(type, cur) = {}
            BY <1>1, <2>1, DecodersCheck DEF IInv, FormInv
        <3> QED
            BY <2>3, <3>1 DEF dec, Refused
    <2>4. CASE dec_to_json
        BY <2>1, <2>4 DEF dec_to_json, hed_dec_to_json, Refused
    <2> QED
        BY <2>2, <2>3, <2>4
<1> QED
    BY <1>1, Invariance, PTL DEF Spec, TornRefused

\* A form from which the value of an object is told denotes that object.
LEMMA DenotedIs ==
    ASSUME NEW x, NEW c
    PROVE  /\ Denoted("value", x) = Told(type, {x})
           /\ Decode(type, c) = {x} => Denoted("stream", c) = Told(type, {x})
           /\ Denoted("json", c) = Says(type, c)
    BY DEF Denoted

\* No conversion changes the value: the bits of an address, the name of a table, a
\* number that the C type has room for, a time to the millisecond, where local time
\* is UTC and the text is one that hed writes.
THEOREM ValueKept == Spec => Kept
<1>1. ASSUME IInv, [Next]_vars
      PROVE  [(/\ form' # form /\ form' \notin {"refused", "torn"} /\ form # "torn"
               /\ ~Narrowed /\ ~Foreign /\ ~(type = "time" /\ tz # 0))
                 => (Denoted(form', cur') = Denoted(form, cur))]_vars
    <2> SUFFICES ASSUME form' # form, form' \notin {"refused", "torn"}, form # "torn",
                        ~Narrowed, ~Foreign, ~(type = "time" /\ tz # 0), Next
                 PROVE  Denoted(form', cur') = Denoted(form, cur)
        BY <1>1
    <2>0. type \in Types /\ tz \in Int
        BY <1>1 DEF IInv, FormInv
    <2>1. CASE enc
        <3>1. /\ form = "value" /\ form' = "stream" /\ cur' = Encode(type, cur)
            BY <2>1 DEF enc, Becomes
        <3>2. cur \in Object(type)
            BY <1>1, <3>1 DEF IInv, FormInv
        <3>3. Decode(type, cur') = {cur}
            BY <2>0, <3>1, <3>2, DecodesBack
        <3> QED
            BY <3>1, <3>3, DenotedIs
    <2>2. CASE dec
        <3>1. form = "stream" /\ form' = "value" /\ cur' \in Decode(type, cur)
            <4>1. hed_dec(type, cur) \subseteq Decode(type, cur)
                BY <2>0, DecodersCheck
            <4> QED
                BY <2>2, <4>1 DEF dec, Becomes, Refused
        <3>2. cur' \in Object(type) /\ Decode(type, cur) = {cur'}
            BY <1>1, <3>1 DEF IInv, FormInv, Optional
        <3> QED
            BY <3>1, <3>2, DenotedIs
    <2>3. CASE dec_to_json
        <3>1. PICK v \in Decode(type, cur) :
                 form = "stream" /\ form' = "json" /\ cur' \in ToJson(type, v)
            BY <2>3 DEF dec_to_json, hed_dec_to_json, Becomes, Refused
        <3>2. v \in Object(type) /\ Decode(type, cur) = {v}
            BY <1>1, <3>1 DEF IInv, FormInv, Optional
        <3>3. Says(type, cur') = Told(type, {v})
            BY <2>0, <3>1, <3>2, ToText
        <3> QED
            BY <3>1, <3>2, <3>3, DenotedIs
    <2>4. CASE enc_from_json
        <3>1. PICK v \in FromJson(type, cur, tz) :
                 form = "json" /\ form' = "stream" /\ cur' = Encode(type, v)
            BY <2>4 DEF enc_from_json, Becomes
        <3>2. Json(type, cur)
            BY <1>1, <3>1 DEF IInv, FormInv
        <3>3. v \in Object(type)
            BY <2>0, <3>1, <3>2, FromText DEF Optional
        <3>4. Decode(type, cur') = {v}
            BY <2>0, <3>1, <3>3, DecodesBack
        <3>5. /\ type \in Uints => cur \subseteq 0 .. Width(type) - 1
              /\ type \in Structs => cur.num \subseteq 0 .. Width(Members(type)[2]) - 1
              /\ type = "time" => tz = 0 /\ \A d \in cur : d.digits = 3 /\ d.ahead = 0
            BY <3>1 DEF Narrowed, Foreign
        <3>6. Says(type, cur) = Told(type, {v})
            BY <2>0, <3>1, <3>2, <3>5, TextMeans
        <3> QED
            BY <3>1, <3>4, <3>6, DenotedIs
    <2>5. CASE enc_fails \/ enc_from_json_refuses \/ set_num \/ set_addr
        BY <2>5 DEF enc_fails, enc_from_json_refuses, Refused, Becomes, set_num, set_addr, Assign
    <2> QED
        BY <2>1, <2>2, <2>3, <2>4, <2>5 DEF Next
<1> QED
    BY <1>1, Invariance, PTL DEF Spec, Kept

=============================================================================
