---------------------------- MODULE Dhcp_proofs ----------------------------
(***************************************************************************)
(* What is proved of udhcpc and udhcpd, for any number of clients,         *)
(* addresses, leases, retries, signals and restarts, and for all delays    *)
(* and lease times that the theorems allow.                                *)
(***************************************************************************)
EXTENDS Dhcp, FiniteSetTheorems, SequenceTheorems, WellFoundedInduction, TLAPS

-----------------------------------------------------------------------------
(* Induction over sets of numbers.                                         *)
LEMMA LeastExists ==
  ASSUME NEW T \in SUBSET Nat, T # {}
  PROVE  \E x \in T : \A y \in T : x <= y
  <1> DEFINE R == {ss \in Nat \X Nat : ss[1] < ss[2]}
  <1>1. IsWellFoundedOn(R, Nat)
    BY NatLessThanWellFounded DEF OpToRel
  <1> HIDE DEF R
  <1>2. PICK x \in T : \A y \in T : ~(<<y, x>> \in R)
    BY <1>1, WFMin
  <1>3. ASSUME NEW y \in T  PROVE  x <= y
    <2>1. x \in Nat /\ y \in Nat
      OBVIOUS
    <2>2. ~(y < x)
      BY <1>2, <2>1 DEF R
    <2> QED  BY <2>1, <2>2
  <1> QED  BY <1>3

LEMMA Induction ==
  ASSUME NEW S \in SUBSET Nat, 0 \in S, \A n \in S : n + 1 \in S
  PROVE  \A n \in Nat : n \in S
  <1> SUFFICES ASSUME Nat \ S # {}  PROVE  FALSE
    OBVIOUS
  <1>1. PICK x \in Nat \ S : \A y \in Nat \ S : x <= y
    BY LeastExists
  <1>2. x \in Nat /\ x # 0 /\ x - 1 \in Nat /\ ~(x <= x - 1)
    OBVIOUS
  <1>3. x - 1 \in S
    BY <1>1, <1>2
  <1> QED  BY <1>2, <1>3

\* What holds of f[a], and of f[k] if it holds of f[k - 1], holds up to f[b].
LEMMA Iterates ==
  ASSUME NEW a \in Int, NEW b \in Int, NEW f, NEW T, f[a] \in T[a],
         \A k \in (a + 1)..b : f[k - 1] \in T[k - 1] => f[k] \in T[k]
  PROVE  \A k \in a..b : f[k] \in T[k]
  <1> DEFINE Good == {n \in Nat : a + n <= b => f[a + n] \in T[a + n]}
  <1>1. 0 \in Good
    OBVIOUS
  <1>2. ASSUME NEW n \in Good  PROVE  n + 1 \in Good
    <2> SUFFICES ASSUME a + (n + 1) <= b  PROVE  f[a + (n + 1)] \in T[a + (n + 1)]
      OBVIOUS
    <2>1. /\ a + (n + 1) \in (a + 1)..b /\ a + (n + 1) - 1 = a + n /\ a + n <= b
      OBVIOUS
    <2>2. f[a + n] \in T[a + n]
      BY <2>1
    <2> QED  BY <2>1, <2>2
  <1>3. \A n \in Nat : n \in Good
    <2>1. Good \in SUBSET Nat
      OBVIOUS
    <2> HIDE DEF Good
    <2> QED  BY <1>1, <1>2, <2>1, Induction
  <1>4. ASSUME NEW k \in a..b  PROVE  f[k] \in T[k]
    <2>1. k - a \in Nat /\ a + (k - a) = k /\ k <= b
      OBVIOUS
    <2>2. k - a \in Good
      BY <1>3, <2>1
    <2> QED  BY <2>1, <2>2
  <1> QED  BY <1>4

\* A function is defined by its first value and a step.
Steps(f, a, b, x, F) == f[a] = x /\ \A k \in (a + 1)..b : f[k] = F[k][f[k - 1]]

LEMMA IterationExists ==
  ASSUME NEW a \in Int, NEW b \in Int, a <= b, NEW D, D = (a + 1)..b, NEW S, NEW x \in S,
         NEW F \in [D -> [S -> S]]
  PROVE  \E f \in [a..b -> S] : Steps(f, a, b, x, F)
  <1> DEFINE Is(m, f) == f[a] = x /\ \A k \in (a + 1)..m : f[k] = F[k][f[k - 1]]
             Has(m) == \E f \in [a..m -> S] : Is(m, f)
             Good == {n \in Nat : a + n <= b => Has(a + n)}
  <1>1. 0 \in Good
    <2> DEFINE f == [k \in a..(a + 0) |-> x]
    <2>1. f \in [a..(a + 0) -> S] /\ Is(a + 0, f)
      OBVIOUS
    <2> QED  BY <2>1
  <1>2. ASSUME NEW n \in Good  PROVE  n + 1 \in Good
    <2> HIDE DEF Has
    <2> SUFFICES ASSUME a + (n + 1) <= b  PROVE  Has(a + (n + 1))
      OBVIOUS
    <2>1. n \in Nat /\ Has(a + n)
      OBVIOUS
    <2> USE DEF Has
    <2> HIDE DEF Is
    <2>2. PICK f \in [a..(a + n) -> S] : Is(a + n, f)
      BY <2>1
    <2> DEFINE m == a + (n + 1)
               g == [k \in a..m |-> IF k = m THEN F[m][f[m - 1]] ELSE f[k]]
    <2> USE DEF Is
    <2>3. m \in (a + 1)..b /\ m - 1 = a + n /\ m - 1 \in a..(a + n)
      BY <2>1
    <2>4. F[m][f[m - 1]] \in S
      BY <2>3
    <2>5. \A k \in a..m : k = m \/ k \in a..(a + n)
      BY <2>1
    <2>6. g \in [a..m -> S]
      BY <2>4, <2>5
    <2>7. g[a] = x
      BY <2>1, <2>2
    <2>8. ASSUME NEW k \in (a + 1)..m  PROVE  g[k] = F[k][g[k - 1]]
      <3>1. k - 1 \in a..m /\ k - 1 # m /\ g[k - 1] = f[k - 1]
        BY <2>1
      <3>2. CASE k = m
        BY <3>1, <3>2
      <3>3. CASE k # m
        <4>1. k \in (a + 1)..(a + n) /\ g[k] = f[k]
          BY <2>1, <3>3
        <4> QED  BY <2>2, <3>1, <4>1
      <3> QED  BY <3>2, <3>3
    <2>9. Is(m, g)
      BY <2>7, <2>8
    <2> HIDE DEF Is, g
    <2> QED  BY <2>6, <2>9
  <1>3. \A n \in Nat : n \in Good
    <2>1. Good \in SUBSET Nat
      OBVIOUS
    <2> HIDE DEF Good
    <2> QED  BY <1>1, <1>2, <2>1, Induction
  <1>4. b - a \in Nat /\ a + (b - a) = b
    OBVIOUS
  <1>5. Has(b)
    <2> HIDE DEF Has
    <2>1. b - a \in Good
      BY <1>3, <1>4
    <2> QED  BY <1>4, <2>1
  <1> QED  BY <1>5 DEF Steps

-----------------------------------------------------------------------------
(* The lease table.                                                        *)
Tbl == [1..MaxLeases -> Entries]
Lefts == Past..(Lease + OfferTime + ConflictTime)
Macs == Clients \cup {Zero}

LEMMA Numbers ==
  /\ MaxLeases \in Nat /\ Past \in Int /\ Past < 0 /\ 0 \in Ips /\ Pool \subseteq Ips
  /\ Lease \in Nat /\ OfferTime \in Nat /\ ConflictTime \in Nat
  /\ {0, Lease, OfferTime, ConflictTime} \subseteq Lefts /\ Past \in Lefts
  /\ \A ip \in Ips : ip \in Nat
  /\ \A ip \in Pool : ip # 0 /\ ip \in Nat
  BY DhcpAssumption DEF Past, Ips, Pool, Lefts

LEMMA EmptyType == Empty \in Entries /\ NoLeases \in Tbl
  BY Numbers DEF Empty, Entries, Zero, Tbl, NoLeases, Lefts

LEMMA SlotsOf ==
  ASSUME NEW S, NEW t \in [1..MaxLeases -> S]
  PROVE  Slots(t) = 1..MaxLeases
  <1>1. t \in Seq(S) /\ DOMAIN t = 1..MaxLeases
    BY Numbers, SeqDef
  <1>2. Len(t) = MaxLeases
    BY <1>1, Numbers, LenProperties
  <1> QED  BY <1>2 DEF Slots

LEMMA LeastOf ==
  ASSUME NEW S \in SUBSET (1..MaxLeases), S # {}
  PROVE  Least(S) \in S
  <1>1. S \in SUBSET Nat
    BY Numbers
  <1>2. \E x \in S : \A y \in S : x <= y
    BY <1>1, LeastExists
  <1> QED  BY <1>2 DEF Least

LEMMA FirstOfType ==
  ASSUME NEW S \in SUBSET (1..MaxLeases)
  PROVE  /\ S = {} => FirstOf(S) = 0
         /\ S # {} => FirstOf(S) \in S /\ FirstOf(S) # 0
  <1>1. S # {} => Least(S) \in S /\ Least(S) # 0
    BY LeastOf, Numbers
  <1> QED  BY <1>1 DEF FirstOf

\* An empty slot is preferred; a slot that is not empty has expired.
LEMMA OldestExpiredFacts ==
  ASSUME NEW t \in Tbl
  PROVE  /\ \/ OldestExpired(t) = 0
            \/ /\ OldestExpired(t) \in 1..MaxLeases
               /\ t[OldestExpired(t)].ip = 0 \/ Expired(t[OldestExpired(t)])
         /\ (\E s \in 1..MaxLeases : t[s].ip = 0) =>
              OldestExpired(t) \in 1..MaxLeases /\ t[OldestExpired(t)].ip = 0
  <1> DEFINE empty == {s \in 1..MaxLeases : t[s].ip = 0}
             old == {s \in 1..MaxLeases : Expired(t[s]) /\ \A r \in 1..MaxLeases : t[s].left <= t[r].left}
             lastEmpty == CHOOSE s \in empty : \A r \in empty : r <= s
  <1>1. OldestExpired(t) = CASE empty # {} -> lastEmpty
                             [] empty = {} /\ old # {} -> Least(old)
                             [] OTHER -> 0
    BY SlotsOf DEF OldestExpired, Tbl
  <1>2. empty # {} => lastEmpty \in empty
    <2> SUFFICES ASSUME empty # {}  PROVE  \E s \in empty : \A r \in empty : r <= s
      OBVIOUS
    <2> DEFINE D == {d \in Nat : \E s \in empty : d = MaxLeases - s}
    <2>1. D \in SUBSET Nat /\ D # {}
      BY Numbers
    <2>2. PICK d \in D : \A e \in D : d <= e
      BY <2>1, LeastExists
    <2>3. PICK s \in empty : d = MaxLeases - s
      BY <2>2
    <2>4. ASSUME NEW r \in empty  PROVE  r <= s
      <3>1. MaxLeases - r \in D
        BY Numbers
      <3>2. d <= MaxLeases - r
        BY <2>2, <3>1
      <3> QED  BY <2>3, <3>2, Numbers
    <2> QED  BY <2>4
  <1>3. empty \in SUBSET (1..MaxLeases) /\ old \in SUBSET (1..MaxLeases)
    OBVIOUS
  <1>4. old # {} => Least(old) \in old
    BY <1>3, LeastOf
  <1> HIDE DEF lastEmpty
  <1>5. CASE empty # {}
    BY <1>1, <1>2, <1>5
  <1>6. CASE empty = {}
    <2>1. ~\E s \in 1..MaxLeases : t[s].ip = 0
      BY <1>6
    <2> HIDE DEF empty
    <2>2. CASE old # {}
      BY <1>1, <1>4, <1>6, <2>1, <2>2
    <2>3. CASE old = {}
      BY <1>1, <1>6, <2>1, <2>3
    <2> QED  BY <2>2, <2>3
  <1> QED  BY <1>5, <1>6

LEMMA ClearLeasesFacts ==
  ASSUME NEW t \in Tbl, NEW mac, NEW ip
  PROVE  /\ ClearLeases(t, mac, ip) \in Tbl
         /\ ClearLeases(t, mac, ip) =
              [s \in 1..MaxLeases |-> IF t[s].mac = mac \/ t[s].ip = ip THEN Empty ELSE t[s]]
  <1>1. ClearLeases(t, mac, ip) =
          [s \in 1..MaxLeases |-> IF t[s].mac = mac \/ t[s].ip = ip THEN Empty ELSE t[s]]
    BY SlotsOf DEF ClearLeases, Tbl
  <1> QED  BY <1>1, EmptyType DEF Tbl

\* No two entries for one address, nor for one client.
Unique(t) ==
  \A r, s \in 1..MaxLeases : r # s /\ t[r].ip # 0 =>
    t[r].ip # t[s].ip /\ (t[r].mac = Zero \/ t[r].mac # t[s].mac)

Given(mac, ip, left) == [mac |-> IF mac = Null THEN Zero ELSE mac, ip |-> ip, left |-> left]

\* add_lease(): the new entry takes one slot at most, which was free or had
\* expired; nothing else changes but what is cleared.
Added(t, u, mac, ip, left, k) ==
  \A s \in 1..MaxLeases :
    IF s = k THEN u[s] = Given(mac, ip, left)
    ELSE u[s] = Empty \/ (u[s] = t[s] /\ t[s].mac # mac /\ t[s].ip # ip)
Keeps(t, u, mac, ip) ==
  \A s \in 1..MaxLeases :
    t[s].ip # 0 /\ ~Expired(t[s]) /\ t[s].mac # mac /\ t[s].ip # ip => u[s] = t[s]

LEMMA AddLeaseFacts ==
  ASSUME NEW t \in Tbl, NEW mac \in Macs \cup {Null}, NEW ip \in Ips \ {0}, NEW left \in Lefts
  PROVE  /\ AddLease(t, mac, ip, left) \in Tbl
         /\ Given(mac, ip, left) \in Entries
         /\ Keeps(t, AddLease(t, mac, ip, left), mac, ip)
         /\ \E k \in 0..MaxLeases : Added(t, AddLease(t, mac, ip, left), mac, ip, left, k)
         /\ HasRoom(t, mac, ip) =>
              \E s \in 1..MaxLeases : AddLease(t, mac, ip, left)[s] = Given(mac, ip, left)
         /\ (\E s \in 1..MaxLeases : t[s].ip \in {0, ip} \/ t[s].mac = mac) => HasRoom(t, mac, ip)
  <1> DEFINE u == AddLease(t, mac, ip, left)
             c == ClearLeases(t, mac, ip)
             k == OldestExpired(c)
             g == Given(mac, ip, left)
  <1>1. c \in Tbl /\ c = [s \in 1..MaxLeases |-> IF t[s].mac = mac \/ t[s].ip = ip THEN Empty ELSE t[s]]
    BY ClearLeasesFacts
  <1>2. u = IF k = 0 THEN c ELSE [c EXCEPT ![k] = g]
    BY DEF AddLease, Given
  <1>3. g \in Entries
    BY DEF Given, Entries, Lefts, Macs
  <1>4. /\ k = 0 \/ (k \in 1..MaxLeases /\ (c[k].ip = 0 \/ Expired(c[k])))
        /\ (\E s \in 1..MaxLeases : c[s].ip = 0) => k \in 1..MaxLeases /\ c[k].ip = 0
    BY <1>1, OldestExpiredFacts
  <1>5. HasRoom(t, mac, ip) <=> k # 0
    BY DEF HasRoom
  <1>6. Empty.ip = 0 /\ Empty.left < 0
    BY Numbers DEF Empty
  <1> HIDE DEF c, k, g, u
  <1>8. \A s \in 1..MaxLeases : u[s] = IF s = k THEN g ELSE c[s]
    BY <1>1, <1>2, <1>4 DEF Tbl
  <1>9. u \in Tbl
    BY <1>1, <1>2, <1>3, <1>4 DEF Tbl
  <1>11. ASSUME NEW s \in 1..MaxLeases,
                t[s].ip # 0, ~Expired(t[s]), t[s].mac # mac, t[s].ip # ip
         PROVE  u[s] = t[s]
    <2>1. c[s] = t[s]
      BY <1>1, <1>11
    <2>2. s # k
      BY <1>4, <1>11, <2>1
    <2> QED  BY <1>8, <2>1, <2>2
  <1>13. k \in 0..MaxLeases
    BY <1>4, Numbers
  <1>14. Added(t, u, mac, ip, left, k)
    BY <1>1, <1>8 DEF Added, g
  <1>15. k # 0 => \E s \in 1..MaxLeases : u[s] = g
    BY <1>4, <1>8
  <1>16. (\E s \in 1..MaxLeases : t[s].ip \in {0, ip} \/ t[s].mac = mac) => k # 0
    <2> SUFFICES ASSUME NEW s \in 1..MaxLeases, t[s].ip \in {0, ip} \/ t[s].mac = mac
                 PROVE  k # 0
      OBVIOUS
    <2>1. c[s].ip = 0
      BY <1>1, <1>6
    <2> QED  BY <1>4, <2>1, Numbers
  <1>17. Keeps(t, u, mac, ip)
    BY <1>11 DEF Keeps
  <1> QED  BY <1>3, <1>5, <1>9, <1>13, <1>14, <1>15, <1>16, <1>17 DEF g, u

LEMMA AddLeaseUnique ==
  ASSUME NEW t \in Tbl, NEW mac \in Macs \cup {Null}, NEW ip \in Ips \ {0}, NEW left \in Lefts,
         Unique(t)
  PROVE  Unique(AddLease(t, mac, ip, left))
  <1> DEFINE u == AddLease(t, mac, ip, left)
             g == Given(mac, ip, left)
  <1>1. PICK k \in 0..MaxLeases : Added(t, u, mac, ip, left, k)
    BY AddLeaseFacts
  <1>2. g.ip = ip /\ g.mac = (IF mac = Null THEN Zero ELSE mac) /\ Empty.ip = 0 /\ Empty.mac = Zero
    BY DEF Given, Empty
  <1> HIDE DEF u, g
  <1>3. \A s \in 1..MaxLeases : IF s = k THEN u[s] = g
          ELSE u[s] = Empty \/ (u[s] = t[s] /\ t[s].mac # mac /\ t[s].ip # ip)
    BY <1>1 DEF Added, g
  <1>4. ASSUME NEW r \in 1..MaxLeases, NEW s \in 1..MaxLeases, r # s, u[r].ip # 0
        PROVE  u[r].ip # u[s].ip /\ (u[r].mac = Zero \/ u[r].mac # u[s].mac)
    <2>1. CASE r = k
      BY <1>2, <1>3, <1>4, <2>1
    <2>2. CASE r # k
      <3>1. u[r] = t[r] /\ t[r].mac # mac /\ t[r].ip # ip /\ t[r].ip # 0
        BY <1>2, <1>3, <1>4, <2>2
      <3>2. CASE s = k
        BY <1>2, <1>3, <1>4, <3>1, <3>2
      <3>3. CASE s # k /\ u[s] = Empty
        BY <1>2, <3>1, <3>3
      <3>4. CASE s # k /\ u[s] = t[s]
        BY <1>4, <3>1, <3>4 DEF Unique
      <3> QED  BY <1>3, <3>2, <3>3, <3>4
    <2> QED  BY <2>1, <2>2
  <1>5. Unique(u)
    BY <1>4 DEF Unique
  <1> QED  BY <1>5 DEF u

LEMMA FindByMacFacts ==
  ASSUME NEW t \in Tbl, NEW c
  PROVE  \/ FindByMac(t, c) = 0 /\ \A s \in 1..MaxLeases : t[s].mac # c
         \/ FindByMac(t, c) \in 1..MaxLeases /\ t[FindByMac(t, c)].mac = c
  <1> DEFINE S == {s \in 1..MaxLeases : t[s].mac = c}
  <1>1. FindByMac(t, c) = FirstOf(S)
    BY SlotsOf DEF FindByMac, Tbl
  <1>2. (S = {} => FirstOf(S) = 0) /\ (S # {} => FirstOf(S) \in S)
    BY FirstOfType
  <1> QED  BY <1>1, <1>2

LEMMA FindByIpFacts ==
  ASSUME NEW t \in Tbl, NEW ip
  PROVE  \/ FindByIp(t, ip) = 0 /\ \A s \in 1..MaxLeases : t[s].ip # ip
         \/ FindByIp(t, ip) \in 1..MaxLeases /\ FindByIp(t, ip) # 0 /\ t[FindByIp(t, ip)].ip = ip
  <1> DEFINE S == {s \in 1..MaxLeases : t[s].ip = ip}
  <1>1. FindByIp(t, ip) = FirstOf(S)
    BY SlotsOf DEF FindByIp, Tbl
  <1>2. (S = {} => FirstOf(S) = 0) /\ (S # {} => FirstOf(S) \in S /\ FirstOf(S) # 0)
    BY FirstOfType
  <1> QED  BY <1>1, <1>2

\* From t to u, what is somebody's and has not expired stays in its slot, and
\* nobody gets anything.
Stays(t, u) ==
  \A s \in 1..MaxLeases :
    /\ t[s].ip # 0 /\ ~Expired(t[s]) => u[s] = t[s]
    /\ u[s].mac # Zero => u[s] = t[s]

\* An address that is in use gets an entry that is nobody's.
LEMMA ConflictStays ==
  ASSUME NEW t \in Tbl, NEW u \in Tbl, Stays(t, u), NEW ip \in Pool,
         \A s \in 1..MaxLeases : u[s].ip = ip => Expired(u[s]),
         Unique(t) => Unique(u)
  PROVE  /\ AddLease(u, Null, ip, ConflictTime) \in Tbl
         /\ Stays(t, AddLease(u, Null, ip, ConflictTime))
         /\ Unique(t) => Unique(AddLease(u, Null, ip, ConflictTime))
         /\ \A s \in 1..MaxLeases :
              AddLease(u, Null, ip, ConflictTime)[s] \in {u[s], Empty, Given(Null, ip, ConflictTime)}
         /\ \A s \in 1..MaxLeases : u[s].ip # 0 /\ u[s].ip # ip =>
              AddLease(u, Null, ip, ConflictTime)[s].ip # 0
  <1> DEFINE v == AddLease(u, Null, ip, ConflictTime)
             g == Given(Null, ip, ConflictTime)
  <1>1. Null \in Macs \cup {Null} /\ ip \in Ips \ {0} /\ ConflictTime \in Lefts
    BY Numbers
  <1>2. v \in Tbl /\ Keeps(u, v, Null, ip)
    BY <1>1, AddLeaseFacts
  <1>3. PICK k \in 0..MaxLeases : Added(u, v, Null, ip, ConflictTime, k)
    BY <1>1, AddLeaseFacts
  <1>4. Unique(t) => Unique(v)
    BY <1>1, AddLeaseUnique
  <1>5. g.mac = Zero /\ g.ip = ip /\ Empty.mac = Zero
    BY DEF Given, Empty
  <1>6. \A s \in 1..MaxLeases : u[s] \in Entries /\ u[s].mac # Null
    <2>1. \A e \in Entries : e.mac # Null
      BY DhcpAssumption DEF Entries, Zero, Null
    <2> QED  BY <2>1 DEF Tbl
  <1>7. \A s \in 1..MaxLeases : v[s] = g \/ v[s] = Empty \/ v[s] = u[s]
    BY <1>3 DEF Added
  <1>8. Stays(t, v)
    <2> SUFFICES ASSUME NEW s \in 1..MaxLeases
                 PROVE  /\ t[s].ip # 0 /\ ~Expired(t[s]) => v[s] = t[s]
                        /\ v[s].mac # Zero => v[s] = t[s]
      BY DEF Stays
    <2>1. v[s].mac # Zero => v[s] = t[s]
      BY <1>5, <1>7 DEF Stays
    <2>2. ASSUME t[s].ip # 0, ~Expired(t[s])  PROVE  v[s] = t[s]
      <3>1. u[s] = t[s] /\ u[s].ip # ip
        BY <2>2 DEF Stays
      <3> QED  BY <1>2, <1>6, <2>2, <3>1 DEF Keeps
    <2> QED  BY <2>1, <2>2
  <1>9. ASSUME NEW s \in 1..MaxLeases, u[s].ip # 0, u[s].ip # ip  PROVE  v[s].ip # 0
    <2> DEFINE w == ClearLeases(u, Null, ip)
    <2>1. w \in Tbl /\ w[s] = u[s]
      <3>1. w \in Tbl /\ w = [q \in 1..MaxLeases |->
                               IF u[q].mac = Null \/ u[q].ip = ip THEN Empty ELSE u[q]]
        BY ClearLeasesFacts
      <3> HIDE DEF w, v, g
      <3> QED  BY <1>6, <1>9, <3>1
    <2>2. v = IF OldestExpired(w) = 0 THEN w ELSE [w EXCEPT ![OldestExpired(w)] = g]
      BY DEF AddLease, Given
    <2>3. ip # 0
      BY Numbers
    <2> HIDE DEF w, v, g
    <2> QED  BY <1>5, <1>9, <2>1, <2>2, <2>3 DEF Tbl
  <1> QED  BY <1>2, <1>4, <1>7, <1>8, <1>9

\* What the search has found so far, from table t.
Found(t) ==
  {r \in [table : Tbl, ip : Pool \cup {0}, oldest : 0..MaxLeases] :
     /\ Stays(t, r.table) /\ (Unique(t) => Unique(r.table))
     /\ r.ip # 0 => ~Reserved(r.ip) /\ \A s \in 1..MaxLeases : r.table[s].ip # r.ip
     /\ r.oldest # 0 => r.table[r.oldest].ip \in Pool /\ ~Reserved(r.table[r.oldest].ip)}

LEMMA TryAddressFound ==
  ASSUME NEW t \in Tbl, NEW c, NEW heard, NEW ip \in Pool, NEW r \in Found(t)
  PROVE  TryAddress(c, heard, r, ip) \in Found(t)
  <1> DEFINE s == FindByIp(r.table, ip)
             v == AddLease(r.table, Null, ip, ConflictTime)
  <1>1. r \in [table : Tbl, ip : Pool \cup {0}, oldest : 0..MaxLeases]
        /\ Stays(t, r.table) /\ (Unique(t) => Unique(r.table))
        /\ (r.oldest # 0 => r.table[r.oldest].ip \in Pool /\ ~Reserved(r.table[r.oldest].ip))
        /\ (r.ip # 0 => ~Reserved(r.ip) /\ \A q \in 1..MaxLeases : r.table[q].ip # r.ip)
    BY DEF Found
  <1>2. \/ s = 0 /\ \A q \in 1..MaxLeases : r.table[q].ip # ip
        \/ s \in 1..MaxLeases /\ s # 0 /\ r.table[s].ip = ip
    BY <1>1, FindByIpFacts
  <1>3. CASE r.ip # 0 \/ ip \in Skipped \/ Reserved(ip)
    <2>1. TryAddress(c, heard, r, ip) = r
      BY <1>3 DEF TryAddress
    <2> QED  BY <2>1
  <1>4. CASE ~(r.ip # 0 \/ ip \in Skipped \/ Reserved(ip)) /\ s = 0 /\ ~(ip \in heard /\ InUse(ip, c))
    <2>1. TryAddress(c, heard, r, ip) = [r EXCEPT !.ip = ip]
      BY <1>4 DEF TryAddress
    <2> HIDE DEF s, v
    <2> QED  BY <1>1, <1>2, <1>4, <2>1 DEF Found
  <1>5. CASE ~(r.ip # 0 \/ ip \in Skipped \/ Reserved(ip)) /\ s = 0 /\ ip \in heard /\ InUse(ip, c)
    <2>1. TryAddress(c, heard, r, ip) = [r EXCEPT !.table = v]
      BY <1>5 DEF TryAddress
    <2>2. /\ v \in Tbl /\ Stays(t, v) /\ (Unique(t) => Unique(v))
          /\ \A q \in 1..MaxLeases : v[q] \in {r.table[q], Empty, Given(Null, ip, ConflictTime)}
          /\ \A q \in 1..MaxLeases : r.table[q].ip # 0 /\ r.table[q].ip # ip => v[q].ip # 0
      BY <1>1, <1>2, <1>5, ConflictStays
    <2>3. Given(Null, ip, ConflictTime).ip = ip /\ Empty.ip = 0
      BY DEF Given, Empty
    <2>4. \A p \in Pool : p # 0
      BY Numbers
    <2> HIDE DEF s, v
    <2>5. ASSUME r.oldest # 0
          PROVE  v[r.oldest].ip \in Pool /\ ~Reserved(v[r.oldest].ip)
      <3>1. r.oldest \in 1..MaxLeases /\ r.table[r.oldest].ip \in Pool /\ ~Reserved(r.table[r.oldest].ip)
        BY <1>1, <2>5, Numbers
      <3>2. r.table[r.oldest].ip # 0 /\ r.table[r.oldest].ip # ip
        BY <1>2, <1>5, <2>4, <3>1
      <3>3. v[r.oldest].ip \in {r.table[r.oldest].ip, ip}
        BY <2>2, <2>3, <3>1, <3>2
      <3> QED  BY <1>5, <3>1, <3>3
    <2> QED  BY <1>1, <1>5, <2>1, <2>2, <2>5 DEF Found
  <1>6. CASE ~(r.ip # 0 \/ ip \in Skipped \/ Reserved(ip)) /\ s # 0
    <2>1. TryAddress(c, heard, r, ip) \in {r, [r EXCEPT !.oldest = s]}
      BY <1>6 DEF TryAddress
    <2> HIDE DEF s, v
    <2>2. [r EXCEPT !.oldest = s] \in Found(t)
      BY <1>1, <1>2, <1>6 DEF Found
    <2> QED  BY <2>1, <2>2
  <1> QED  BY <1>3, <1>4, <1>5, <1>6

LEMMA SearchedFound ==
  ASSUME table \in Tbl, NEW c, NEW heard
  PROVE  Searched(c, heard) \in Found(table)
  <1> DEFINE a == start_ip - 1
             x == [table |-> table, ip |-> 0, oldest |-> 0]
             F == [ip \in (a + 1)..end_ip |-> [r \in Found(table) |-> TryAddress(c, heard, r, ip)]]
             Is(f) == f = [ip \in a..end_ip |->
                             IF ip < start_ip THEN x ELSE TryAddress(c, heard, f[ip - 1], ip)]
             J == CHOOSE f : Is(f)
  <1>1. a \in Int /\ end_ip \in Int /\ a <= end_ip /\ a + 1 = start_ip /\ a < start_ip /\ start_ip \in Int
    BY DhcpAssumption
  <1>2. x \in Found(table)
    <2>1. Stays(table, table)
      BY DEF Stays
    <2> QED  BY <2>1, Numbers DEF Found
  <1>3. \A ip \in (a + 1)..end_ip : ip \in Pool
    BY <1>1 DEF Pool
  <1>4. ASSUME NEW ip \in (a + 1)..end_ip, NEW r \in Found(table)
        PROVE  TryAddress(c, heard, r, ip) \in Found(table)
    BY <1>3, TryAddressFound
  <1>5. F \in [(a + 1)..end_ip -> [Found(table) -> Found(table)]]
    BY <1>4
  <1> HIDE DEF a, x
  <1>6. PICK f \in [a..end_ip -> Found(table)] :
          f[a] = x /\ \A k \in (a + 1)..end_ip : f[k] = F[k][f[k - 1]]
    <2> DEFINE S == Found(table)
               D == (a + 1)..end_ip
    <2>1. x \in S /\ F \in [D -> [S -> S]] /\ D = (a + 1)..end_ip
      BY <1>2, <1>5
    <2> HIDE DEF F, Is, J, S, D
    <2>2. \E f \in [a..end_ip -> S] : Steps(f, a, end_ip, x, F)
      BY <1>1, <2>1, IterationExists
    <2> QED  BY <2>2 DEF S, Steps
  <1>7. Is(f)
    <2>1. ASSUME NEW ip \in a..end_ip
          PROVE  f[ip] = IF ip < start_ip THEN x ELSE TryAddress(c, heard, f[ip - 1], ip)
      <3>1. CASE ip = a
        BY <1>1, <1>6, <3>1
      <3>2. CASE ip # a
        <4>1. ip \in (a + 1)..end_ip /\ ~(ip < start_ip) /\ ip - 1 \in a..end_ip
          BY <1>1, <3>2
        <4>2. f[ip - 1] \in Found(table)
          BY <4>1
        <4>3. f[ip] = F[ip][f[ip - 1]]
          BY <1>6, <4>1
        <4> QED  BY <4>1, <4>2, <4>3
      <3> QED  BY <3>1, <3>2
    <2> QED  BY <2>1
  <1>8. Is(J)
    <2> HIDE DEF Is
    <2> QED  BY <1>7
  <1>9. Searched(c, heard) = J[end_ip]
    BY DEF Searched, a, x
  <1> HIDE DEF J, F
  <1>10. J[a] = x
    BY <1>1, <1>8
  <1>11. ASSUME NEW k \in (a + 1)..end_ip, J[k - 1] \in Found(table)  PROVE J[k] \in Found(table)
    <2>1. J[k] = TryAddress(c, heard, J[k - 1], k)
      BY <1>1, <1>8
    <2> QED  BY <1>4, <1>11, <2>1
  <1>12. J[end_ip] \in Found(table)
    <2> DEFINE T == [k \in a..end_ip |-> Found(table)]
    <2>1. T[a] = Found(table) /\ \A k \in (a + 1)..end_ip : T[k - 1] = Found(table) /\ T[k] = Found(table)
      BY <1>1
    <2>2. end_ip \in a..end_ip /\ T[end_ip] = Found(table)
      BY <1>1
    <2> HIDE DEF T, Is
    <2>3. J[a] \in T[a] /\ \A k \in (a + 1)..end_ip : J[k - 1] \in T[k - 1] => J[k] \in T[k]
      BY <1>2, <1>10, <1>11, <2>1
    <2>4. \A k \in a..end_ip : J[k] \in T[k]
      BY <1>1, <2>3, Iterates
    <2> QED  BY <2>2, <2>4
  <1> QED  BY <1>9, <1>12

\* An address may be given away: its entry, if any, has expired.
Vacant(t, ip) == \A s \in 1..MaxLeases : t[s].ip = ip => Expired(t[s])

LEMMA FindFreeFacts ==
  ASSUME table \in Tbl, Unique(table), NEW c, NEW heard
  PROVE  LET o == FindFreeOrExpired(c, heard)
         IN  /\ o.table \in Tbl /\ Stays(table, o.table) /\ Unique(o.table)
             /\ o.ip \in Pool \cup {0}
             /\ o.ip # 0 => ~Reserved(o.ip) /\ Vacant(o.table, o.ip)
  <1> DEFINE r == Searched(c, heard)
             ip == r.table[r.oldest].ip
             v == AddLease(r.table, Null, ip, ConflictTime)
             o == FindFreeOrExpired(c, heard)
  <1>1. r \in Found(table)
    BY SearchedFound
  <1>2. o = IF r.ip # 0 \/ r.oldest = 0 \/ ~Expired(r.table[r.oldest]) THEN r
            ELSE IF ip \in heard /\ InUse(ip, c) THEN [r EXCEPT !.table = v] ELSE [r EXCEPT !.ip = ip]
    BY DEF FindFreeOrExpired
  <1> HIDE DEF r, o
  <1>3. /\ r \in [table : Tbl, ip : Pool \cup {0}, oldest : 0..MaxLeases]
        /\ Stays(table, r.table) /\ (Unique(table) => Unique(r.table))
        /\ r.ip # 0 => ~Reserved(r.ip) /\ \A s \in 1..MaxLeases : r.table[s].ip # r.ip
        /\ r.oldest # 0 => ip \in Pool /\ ~Reserved(ip)
    BY <1>1 DEF Found
  <1>4. CASE r.ip # 0 \/ r.oldest = 0 \/ ~Expired(r.table[r.oldest])
    BY <1>2, <1>3, <1>4 DEF Vacant, o
  <1>5. CASE ~(r.ip # 0 \/ r.oldest = 0 \/ ~Expired(r.table[r.oldest]))
    <2>1. r.oldest \in 1..MaxLeases /\ ip \in Pool /\ ~Reserved(ip) /\ ip # 0
      BY <1>3, <1>5, Numbers
    <2>2. Vacant(r.table, ip)
      <3> SUFFICES ASSUME NEW s \in 1..MaxLeases, r.table[s].ip = ip  PROVE  Expired(r.table[s])
        BY DEF Vacant
      <3>1. s = r.oldest
        BY <1>3, <2>1 DEF Unique
      <3> QED  BY <1>5, <3>1
    <2>3. CASE ~(ip \in heard /\ InUse(ip, c))
      <3>1. o = [r EXCEPT !.ip = ip]
        BY <1>2, <1>5, <2>3
      <3> HIDE DEF ip, v
      <3> QED  BY <1>3, <2>1, <2>2, <3>1 DEF o
    <2>4. CASE ip \in heard /\ InUse(ip, c)
      <3>1. o = [r EXCEPT !.table = v]
        BY <1>2, <1>5, <2>4
      <3>2. v \in Tbl /\ Stays(table, v) /\ Unique(v)
        BY <1>3, <2>1, <2>2, ConflictStays DEF Vacant
      <3> HIDE DEF ip, v
      <3> QED  BY <1>3, <1>5, <3>1, <3>2 DEF o
    <2> QED  BY <2>3, <2>4
  <1> QED  BY <1>4, <1>5

\* The address that is offered is the client's already, or can be given away.
LEMMA OfferedFacts ==
  ASSUME table \in Tbl, Unique(table), NEW c, NEW req, NEW heard
  PROVE  LET o == Offered(c, req, heard)
         IN  /\ o.table \in Tbl /\ Stays(table, o.table) /\ Unique(o.table) /\ o.ip \in Ips
             /\ \/ o.table = table /\ \E s \in 1..MaxLeases : table[s].mac = c /\ table[s].ip = o.ip
                \/ o.ip = 0
                \/ o.ip \in Pool /\ (o.ip = req \/ ~Reserved(o.ip)) /\ Vacant(o.table, o.ip)
  <1> DEFINE o == Offered(c, req, heard)
             s == FindByMac(table, c)
             t == FindByIp(table, req)
             f == FindFreeOrExpired(c, heard)
  <1>1. o = CASE s # 0 -> [table |-> table, ip |-> table[s].ip, oldest |-> 0]
              [] s = 0 /\ req \in Pool /\ (t = 0 \/ Expired(table[t])) ->
                   [table |-> table, ip |-> req, oldest |-> 0]
              [] OTHER -> f
    BY DEF Offered
  <1>2. \/ s = 0 /\ \A q \in 1..MaxLeases : table[q].mac # c
        \/ s \in 1..MaxLeases /\ table[s].mac = c
    BY FindByMacFacts
  <1>3. \/ t = 0 /\ \A q \in 1..MaxLeases : table[q].ip # req
        \/ t \in 1..MaxLeases /\ t # 0 /\ table[t].ip = req
    BY FindByIpFacts
  <1>4. /\ f.table \in Tbl /\ Stays(table, f.table) /\ Unique(f.table)
        /\ f.ip \in Pool \cup {0} /\ (f.ip # 0 => ~Reserved(f.ip) /\ Vacant(f.table, f.ip))
    BY FindFreeFacts
  <1>5. Stays(table, table) /\ \A e \in Entries : e.ip \in Ips
    BY DEF Stays, Entries
  <1> HIDE DEF o, s, t, f
  <1>6. CASE s # 0
    <2>1. o.table = table /\ o.ip = table[s].ip
      BY <1>1, <1>6
    <2> QED  BY <1>2, <1>5, <1>6, <2>1 DEF o, Tbl
  <1>7. CASE s = 0 /\ req \in Pool /\ (t = 0 \/ Expired(table[t]))
    <2>1. o.table = table /\ o.ip = req
      BY <1>1, <1>7
    <2>2. Vacant(table, req)
      <3> SUFFICES ASSUME NEW q \in 1..MaxLeases, table[q].ip = req  PROVE  Expired(table[q])
        BY DEF Vacant
      <3>1. t # 0 /\ t \in 1..MaxLeases /\ table[t].ip = req /\ req # 0
        BY <1>3, <1>7, Numbers
      <3>2. t = q
        BY <3>1 DEF Unique
      <3> QED  BY <1>7, <3>1, <3>2
    <2> QED  BY <1>5, <1>7, <2>1, <2>2, Numbers DEF o
  <1>8. CASE s = 0 /\ ~(req \in Pool /\ (t = 0 \/ Expired(table[t])))
    <2>1. o = f
      BY <1>1, <1>8
    <2>2. f.ip \in Ips
      BY <1>4, Numbers
    <2> QED  BY <1>4, <2>1, <2>2 DEF o
  <1> QED  BY <1>6, <1>7, <1>8

-----------------------------------------------------------------------------
(* The lease file.                                                         *)
LEMMA WrittenFacts ==
  ASSUME NEW t \in Tbl, NEW n \in 0..MaxLeases
  PROVE  /\ Written(t, n) \in Tbl
         /\ \A s \in 1..MaxLeases :
              \/ Written(t, n)[s] = Empty /\ s > n
              \/ /\ Written(t, n)[s].mac = t[s].mac /\ Written(t, n)[s].ip = t[s].ip
                 /\ Written(t, n)[s].left >= t[s].left
         /\ Unique(t) => Unique(Written(t, n))
  <1>1. ASSUME NEW e \in Entries
        PROVE  LET f == [e EXCEPT !.left = IF @ < 0 THEN 0 ELSE @]
               IN  f \in Entries /\ f.mac = e.mac /\ f.ip = e.ip /\ f.left >= e.left
    BY Numbers DEF Entries, Lefts
  <1>2. ASSUME NEW s \in 1..MaxLeases
        PROVE  /\ Written(t, n)[s] \in Entries
               /\ \/ Written(t, n)[s] = Empty /\ s > n
                  \/ /\ Written(t, n)[s].mac = t[s].mac /\ Written(t, n)[s].ip = t[s].ip
                     /\ Written(t, n)[s].left >= t[s].left
    <2>1. t[s] \in Entries /\ DOMAIN t = 1..MaxLeases /\ Empty \in Entries
      BY EmptyType DEF Tbl
    <2>2. Written(t, n)[s] = IF s > n THEN Empty ELSE [t[s] EXCEPT !.left = IF @ < 0 THEN 0 ELSE @]
      BY <2>1 DEF Written
    <2> QED  BY <1>1, <2>1, <2>2
  <1>3. Written(t, n) \in Tbl
    <2>1. DOMAIN Written(t, n) = 1..MaxLeases /\ Written(t, n) = [s \in 1..MaxLeases |-> Written(t, n)[s]]
      BY DEF Written, Tbl
    <2> QED  BY <1>2, <2>1 DEF Tbl
  <1>4. Unique(t) => Unique(Written(t, n))
    <2>1. Empty.ip = 0 /\ Empty.mac = Zero
      BY DEF Empty
    <2> QED  BY <1>2, <2>1 DEF Unique
  <1> QED  BY <1>2, <1>3, <1>4

LoadStep(t, e) == IF Loads(e) THEN AddLease(t, e.mac, e.ip, e.left) ELSE t

LEMMA EntryFacts ==
  ASSUME NEW e \in Entries
  PROVE  /\ e.mac \in Macs /\ e.mac # Null /\ e.ip \in Ips /\ e.left \in Lefts
         /\ e.left \in Int /\ e = Given(e.mac, e.ip, e.left)
         /\ Loads(e) => e.ip \in Ips \ {0}
  <1>1. e.mac \in Macs /\ e.ip \in Ips /\ e.left \in Lefts
    BY DEF Entries, Macs, Lefts
  <1>2. e.mac # Null
    BY <1>1, DhcpAssumption DEF Macs, Zero, Null
  <1>3. e.left \in Int
    BY <1>1, Numbers DEF Lefts
  <1>4. e = [mac |-> e.mac, ip |-> e.ip, left |-> e.left]
    BY DEF Entries
  <1>5. Loads(e) => e.ip \in Ips \ {0}
    BY Numbers DEF Loads
  <1> QED  BY <1>1, <1>2, <1>3, <1>4, <1>5 DEF Given

LEMMA LoadStepType ==
  ASSUME NEW t \in Tbl, NEW e \in Entries
  PROVE  LoadStep(t, e) \in Tbl /\ (Unique(t) => Unique(LoadStep(t, e)))
  <1>1. e.mac \in Macs \cup {Null} /\ e.left \in Lefts /\ (Loads(e) => e.ip \in Ips \ {0})
    BY EntryFacts
  <1>2. CASE Loads(e)
    <2>1. e.ip \in Ips \ {0}
      BY <1>1, <1>2
    <2>2. AddLease(t, e.mac, e.ip, e.left) \in Tbl
      BY <1>1, <2>1, AddLeaseFacts
    <2>3. Unique(t) => Unique(AddLease(t, e.mac, e.ip, e.left))
      BY <1>1, <2>1, AddLeaseUnique
    <2> QED  BY <1>2, <2>2, <2>3 DEF LoadStep
  <1>3. CASE ~Loads(e)
    BY <1>3 DEF LoadStep
  <1> QED  BY <1>2, <1>3

\* read_leases() goes through the file once.
LEMMA LoadedDef ==
  ASSUME file \in Tbl
  PROVE  \E J : /\ Loaded = J[MaxLeases] /\ J[0] = NoLeases
                /\ \A k \in 1..MaxLeases : J[k] = LoadStep(J[k - 1], file[k])
  <1> DEFINE Step(f, k) == IF k = 0 THEN NoLeases
                           ELSE IF Loads(file[k]) THEN AddLease(f[k - 1], file[k].mac, file[k].ip, file[k].left)
                           ELSE f[k - 1]
             Is(f) == f = [k \in 0..MaxLeases |-> Step(f, k)]
             J == CHOOSE f : Is(f)
             F == [k \in 1..MaxLeases |-> [t \in Tbl |-> LoadStep(t, file[k])]]
  <1>1. 0 \in Int /\ MaxLeases \in Int /\ 0 <= MaxLeases /\ 1..MaxLeases = (0 + 1)..MaxLeases
    BY Numbers
  <1>2. F \in [1..MaxLeases -> [Tbl -> Tbl]]
    BY LoadStepType DEF Tbl
  <1>3. \E f \in [0..MaxLeases -> Tbl] : Steps(f, 0, MaxLeases, NoLeases, F)
    <2> DEFINE D == 1..MaxLeases
               S == Tbl
    <2>1. D = (0 + 1)..MaxLeases /\ NoLeases \in S /\ F \in [D -> [S -> S]]
      BY <1>1, <1>2, EmptyType
    <2> HIDE DEF D, F, Is, J, S
    <2>2. \E f \in [0..MaxLeases -> S] : Steps(f, 0, MaxLeases, NoLeases, F)
      BY <1>1, <2>1, IterationExists
    <2> QED  BY <2>2 DEF S
  <1>4. PICK f \in [0..MaxLeases -> Tbl] : Steps(f, 0, MaxLeases, NoLeases, F)
    BY <1>3
  <1>5. Is(f)
    <2>1. ASSUME NEW k \in 0..MaxLeases  PROVE  f[k] = Step(f, k)
      <3>1. CASE k = 0
        BY <1>4, <3>1 DEF Steps
      <3>2. CASE k # 0
        <4>1. k \in 1..MaxLeases /\ k \in (0 + 1)..MaxLeases /\ k - 1 \in 0..MaxLeases
          BY <1>1, <3>2
        <4>2. f[k] = F[k][f[k - 1]] /\ f[k - 1] \in Tbl
          BY <1>4, <4>1 DEF Steps
        <4> QED  BY <3>2, <4>1, <4>2 DEF LoadStep
      <3> QED  BY <3>1, <3>2
    <2> HIDE DEF Step
    <2> QED  BY <2>1
  <1>6. Is(J)
    <2> HIDE DEF Is
    <2> QED  BY <1>5
  <1>7. Loaded = J[MaxLeases]
    BY DEF Loaded
  <1> HIDE DEF J
  <1>8. J[0] = NoLeases
    BY <1>1, <1>6
  <1>9. ASSUME NEW k \in 1..MaxLeases  PROVE  J[k] = LoadStep(J[k - 1], file[k])
    BY <1>1, <1>6 DEF LoadStep
  <1> QED  BY <1>7, <1>8, <1>9

LEMMA LoadedType ==
  ASSUME file \in Tbl
  PROVE  Loaded \in Tbl /\ Unique(Loaded)
  <1> DEFINE S == {t \in Tbl : Unique(t)}
             T == [k \in 0..MaxLeases |-> S]
  <1>1. PICK J : /\ Loaded = J[MaxLeases] /\ J[0] = NoLeases
                 /\ \A k \in 1..MaxLeases : J[k] = LoadStep(J[k - 1], file[k])
    BY LoadedDef
  <1>2. Unique(NoLeases)
    BY DEF Unique, NoLeases, Empty
  <1>3. J[0] \in T[0]
    BY <1>1, <1>2, EmptyType, Numbers
  <1>4. ASSUME NEW k \in (0 + 1)..MaxLeases, J[k - 1] \in T[k - 1]  PROVE J[k] \in T[k]
    <2>1. k \in 1..MaxLeases /\ k - 1 \in 0..MaxLeases /\ k \in 0..MaxLeases /\ file[k] \in Entries
      BY Numbers DEF Tbl
    <2>2. J[k - 1] \in Tbl /\ Unique(J[k - 1])
      BY <1>4, <2>1
    <2>3. LoadStep(J[k - 1], file[k]) \in S
      BY <2>1, <2>2, LoadStepType
    <2> QED  BY <1>1, <2>1, <2>3
  <1>5. 0 \in Int /\ MaxLeases \in Int /\ MaxLeases \in 0..MaxLeases /\ T[MaxLeases] = S
    BY Numbers
  <1> HIDE DEF T
  <1>6. J[MaxLeases] \in T[MaxLeases]
    BY <1>3, <1>4, <1>5, Iterates
  <1> QED  BY <1>1, <1>5, <1>6

\* The slots of a table that are not empty.
Used(t) == {s \in 1..MaxLeases : t[s].ip # 0}
Fills(t, n) == IsFiniteSet(Used(t)) /\ Cardinality(Used(t)) <= n

LEMMA FillsEmpty == Fills(NoLeases, 0)
  <1>1. Used(NoLeases) = {}
    BY DEF Used, NoLeases, Empty
  <1> QED  BY <1>1, FS_EmptySet DEF Fills

LEMMA FillsMore ==
  ASSUME NEW t \in Tbl, NEW mac \in Macs \cup {Null}, NEW ip \in Ips \ {0}, NEW left \in Lefts,
         NEW n \in Nat, Fills(t, n)
  PROVE  Fills(AddLease(t, mac, ip, left), n + 1)
  <1> DEFINE u == AddLease(t, mac, ip, left)
  <1>1. PICK k \in 0..MaxLeases : Added(t, u, mac, ip, left, k)
    BY AddLeaseFacts
  <1>2. Empty.ip = 0
    BY DEF Empty
  <1> HIDE DEF u
  <1>3. Used(u) \subseteq Used(t) \cup {k}
    BY <1>1, <1>2 DEF Added, Used
  <1>4. /\ IsFiniteSet(Used(t) \cup {k}) /\ Cardinality(Used(t) \cup {k}) <= n + 1
        /\ Cardinality(Used(t) \cup {k}) \in Nat
    <2>1. IsFiniteSet(Used(t)) /\ Cardinality(Used(t)) \in Nat /\ Cardinality(Used(t)) <= n
      BY FS_CardinalityType DEF Fills
    <2>2. /\ IsFiniteSet(Used(t) \cup {k})
          /\ Cardinality(Used(t) \cup {k}) \in {Cardinality(Used(t)), Cardinality(Used(t)) + 1}
      BY <2>1, FS_AddElement
    <2> QED  BY <2>1, <2>2
  <1>5. IsFiniteSet(Used(u)) /\ Cardinality(Used(u)) <= Cardinality(Used(t) \cup {k})
    BY <1>3, <1>4, FS_Subset
  <1>6. Cardinality(Used(u)) \in Nat
    BY <1>5, FS_CardinalityType
  <1>7. Fills(u, n + 1)
    BY <1>4, <1>5, <1>6 DEF Fills
  <1> QED  BY <1>7 DEF u

LEMMA FillsRoom ==
  ASSUME NEW t \in Tbl, NEW n \in Nat, n < MaxLeases, Fills(t, n)
  PROVE  \E s \in 1..MaxLeases : t[s].ip = 0
  <1> SUFFICES ASSUME \A s \in 1..MaxLeases : t[s].ip # 0  PROVE  FALSE
    OBVIOUS
  <1>1. Used(t) = 1..MaxLeases
    BY DEF Used
  <1>2. Cardinality(1..MaxLeases) = MaxLeases
    <2>1. 1 \in Int /\ MaxLeases \in Int /\ ~(1 > MaxLeases) /\ MaxLeases - 1 + 1 = MaxLeases
      BY Numbers
    <2> QED  BY <2>1, FS_Interval
  <1> QED  BY <1>1, <1>2, Numbers DEF Fills

\* read_leases(): "too many leases" does not happen, and no client's lease is
\* lost.
LEMMA LoadedKeeps ==
  ASSUME file \in Tbl, Unique(file),
         NEW j \in 1..MaxLeases, Loads(file[j]), file[j].mac # Zero, file[j].left >= 0
  PROVE  \E s \in 1..MaxLeases : Loaded[s] = file[j]
  <1> DEFINE Has(t) == \E s \in 1..MaxLeases : t[s] = file[j]
             T == [k \in 0..MaxLeases |-> {t \in Tbl : Fills(t, k) /\ (j <= k => Has(t))}]
  <1>1. PICK J : /\ Loaded = J[MaxLeases] /\ J[0] = NoLeases
                 /\ \A k \in 1..MaxLeases : J[k] = LoadStep(J[k - 1], file[k])
    BY LoadedDef
  <1>2. J[0] \in T[0]
    BY <1>1, FillsEmpty, EmptyType, Numbers
  <1>3. ASSUME NEW k \in (0 + 1)..MaxLeases, J[k - 1] \in T[k - 1]  PROVE  J[k] \in T[k]
    <2> DEFINE e == file[k]
               t == J[k - 1]
               u == AddLease(t, e.mac, e.ip, e.left)
    <2> HIDE DEF Has
    <2>1. /\ k \in 1..MaxLeases /\ k - 1 \in Nat /\ k - 1 < MaxLeases /\ (k - 1) + 1 = k
          /\ k - 1 \in 0..MaxLeases /\ k \in 0..MaxLeases
      BY Numbers
    <2>2. t \in Tbl /\ Fills(t, k - 1) /\ (j <= k - 1 => Has(t))
      BY <1>3, <2>1
    <2>3. e \in Entries /\ J[k] = LoadStep(t, e)
      BY <1>1, <2>1 DEF Tbl
    <2>4. e.mac \in Macs \cup {Null} /\ e.left \in Lefts /\ e = Given(e.mac, e.ip, e.left)
      BY <2>3, EntryFacts
    <2> HIDE DEF T
    <2>5. CASE Loads(e)
      <3>1. J[k] = u /\ e.ip \in Ips \ {0}
        BY <2>3, <2>5, EntryFacts DEF LoadStep
      <3>2. u \in Tbl /\ Keeps(t, u, e.mac, e.ip)
        BY <2>2, <2>4, <3>1, AddLeaseFacts
      <3>3. Fills(u, k)
        <4>1. Fills(u, (k - 1) + 1)
          BY <2>1, <2>2, <2>4, <3>1, FillsMore
        <4> QED  BY <2>1, <4>1
      <3>4. ASSUME j <= k  PROVE  Has(u)
        <4>1. CASE j = k
          <5>1. \E s \in 1..MaxLeases : t[s].ip = 0
            BY <2>1, <2>2, FillsRoom
          <5>2. HasRoom(t, e.mac, e.ip)
            BY <2>2, <2>4, <3>1, <5>1, AddLeaseFacts
          <5>3. \E s \in 1..MaxLeases : u[s] = Given(e.mac, e.ip, e.left)
            <6> DEFINE mac == e.mac
                       ip == e.ip
                       left == e.left
            <6>1. mac \in Macs \cup {Null} /\ ip \in Ips \ {0} /\ left \in Lefts /\ HasRoom(t, mac, ip)
              BY <2>4, <3>1, <5>2
            <6> HIDE DEF mac, ip, left, e, t
            <6>2. \E s \in 1..MaxLeases : AddLease(t, mac, ip, left)[s] = Given(mac, ip, left)
              BY <2>2, <6>1, AddLeaseFacts
            <6> QED  BY <6>2 DEF mac, ip, left
          <5> QED  BY <2>4, <4>1, <5>3 DEF Has
        <4>2. CASE j # k
          <5>1. PICK s \in 1..MaxLeases : t[s] = file[j]
            BY <2>1, <2>2, <3>4, <4>2 DEF Has
          <5>2. file[j].ip # 0 /\ file[j].left >= 0 /\ file[j].left \in Int
            BY EntryFacts DEF Tbl
          <5>3. file[j].mac # e.mac /\ file[j].ip # e.ip
            BY <2>1, <4>2, <5>2 DEF Unique
          <5> HIDE DEF u, e
          <5>4. u[s] = t[s]
            BY <3>2, <5>1, <5>2, <5>3 DEF Keeps, Expired
          <5> QED  BY <5>1, <5>4 DEF Has
        <4> QED  BY <4>1, <4>2
      <3> QED  BY <2>1, <3>1, <3>2, <3>3, <3>4 DEF T
    <2>6. CASE ~Loads(e)
      <3>1. J[k] = t /\ j # k
        BY <2>3, <2>6 DEF LoadStep
      <3>2. Fills(t, k)
        <4>1. IsFiniteSet(Used(t)) /\ Cardinality(Used(t)) \in Nat /\ Cardinality(Used(t)) <= k - 1
          BY <2>2, FS_CardinalityType DEF Fills
        <4> QED  BY <2>1, <4>1 DEF Fills
      <3>3. j <= k => j <= k - 1
        BY <2>1, <3>1
      <3> QED  BY <2>1, <2>2, <3>1, <3>2, <3>3 DEF T
    <2> QED  BY <2>5, <2>6
  <1>4. 0 \in Int /\ MaxLeases \in Int /\ MaxLeases \in 0..MaxLeases /\ j <= MaxLeases
    BY Numbers
  <1>5. J[MaxLeases] \in T[MaxLeases]
    <2> HIDE DEF T
    <2> QED  BY <1>2, <1>3, <1>4, Iterates
  <1> QED  BY <1>1, <1>4, <1>5

-----------------------------------------------------------------------------
(* A step of one client.                                                   *)
States == Bindings \cup Listening \cup {"CHECKING", "RELEASED", "EXITED"}
Ctls == [state : States, ip : Ips, requested_ip : Ips, packet_num : Nat,
         timeout : Nat, wait : Nat, n : BOOLEAN]
Tries(k) == /\ k.state = "INIT_SELECTING" => k.packet_num <= Retries
            /\ k.state = "REQUESTING" => k.packet_num <= SelectTries
Granting == [mac : Clients, ip : Ips]

\* A client without a lease has no address on its interface.
Bare(k) == k.state \in {"INIT_SELECTING", "REQUESTING", "RELEASED"} => k.ip = 0

TInv == TypeOK /\ Unique(table) /\ \A c \in Clients : Bare(cl[c])

LEMMA TypeOKDef ==
  TypeOK <=> /\ cl \in [Clients -> Ctls] /\ \A c \in Clients : Tries(cl[c])
             /\ up \in [Clients -> SUBSET Messages] /\ down \in [Clients -> SUBSET Replies]
             /\ table \in Tbl /\ file \in Tbl /\ ack \in Granting \cup {NoAck}
             /\ written \in 0..FileTime /\ on \in BOOLEAN /\ faults \in 0..MaxFaults
             /\ promise \in [Clients -> Ips] /\ kept \in BOOLEAN
  BY DEF TypeOK, Ctls, States, Tries, Tbl, Granting

Moves(c, k, u, d) ==
  /\ cl' = [cl EXCEPT ![c] = k] /\ up' = [up EXCEPT ![c] = u] /\ down' = [down EXCEPT ![c] = d]
  /\ UNCHANGED server

LEMMA MovesType ==
  ASSUME TInv, NEW c \in Clients, NEW k \in Ctls, Tries(k), Bare(k),
         NEW u \in SUBSET Messages, NEW d \in SUBSET Replies,
         Moves(c, k, u, d), faults' \in 0..MaxFaults
  PROVE  TInv'
  <1>1. /\ cl \in [Clients -> Ctls] /\ \A b \in Clients : Tries(cl[b]) /\ Bare(cl[b])
        /\ up \in [Clients -> SUBSET Messages] /\ down \in [Clients -> SUBSET Replies]
        /\ table \in Tbl /\ file \in Tbl /\ ack \in Granting \cup {NoAck}
        /\ written \in 0..FileTime /\ on \in BOOLEAN
        /\ promise \in [Clients -> Ips] /\ kept \in BOOLEAN
    BY TypeOKDef DEF TInv
  <1>2. /\ cl' \in [Clients -> Ctls] /\ up' \in [Clients -> SUBSET Messages]
        /\ down' \in [Clients -> SUBSET Replies]
    BY <1>1 DEF Moves
  <1>3. \A b \in Clients : Tries(cl'[b]) /\ Bare(cl'[b])
    BY <1>1 DEF Moves
  <1>4. /\ table' = table /\ file' = file /\ ack' = ack /\ written' = written /\ on' = on
        /\ promise' = promise /\ kept' = kept
    BY DEF Moves, server, storage
  <1>5. TypeOK'
    BY <1>1, <1>2, <1>3, <1>4 DEF TypeOK, Ctls, States, Tries, Tbl, Granting, NoAck
  <1> QED  BY <1>3, <1>4, <1>5 DEF TInv, Unique, Bare

\* The kinds of steps.  Idle: afterwards the client has no address, or does not
\* run.
Idle(k) == /\ k.state \notin Bindings \cup {"CHECKING"}
           /\ k.ip # 0 => k.state = "EXITED"
Renews(c, k) ==
  /\ cl[c].state \in Bindings /\ k.state \in Bindings /\ k.ip = cl[c].ip
  /\ \E t \in 0..cl[c].timeout : k.timeout = Half(t) /\ k.wait = Half(t)
IsBound(k, ip) ==
  k.state = "BOUND" /\ k.ip = ip /\ k.timeout = BoundTimeout /\ k.wait = BoundTimeout
Binds(c, k) ==
  \E m \in down[c] :
    /\ m.type = "ACK"
    /\ IsBound(k, m.ip) \/ (k.state = "CHECKING" /\ k.requested_ip = m.ip /\ k.wait = ArpTime)
Confirms(c, k) ==
  cl[c].state = "CHECKING" /\ cl[c].wait = 0 /\ IsBound(k, cl[c].requested_ip)

Kind(c, k) == Idle(k) \/ Renews(c, k) \/ Binds(c, k) \/ Confirms(c, k) \/ k = cl[c]
Does(c) == \E k \in Ctls, u \in SUBSET Messages, d \in SUBSET down[c] :
             Tries(k) /\ Moves(c, k, u, d) /\ Kind(c, k)

LEMMA Fields ==
  ASSUME TInv, NEW c \in Clients
  PROVE  /\ cl[c] \in Ctls /\ Tries(cl[c]) /\ Bare(cl[c])
         /\ up[c] \in SUBSET Messages /\ down[c] \in SUBSET Replies
         /\ [cl EXCEPT ![c] = cl[c]] = cl /\ [up EXCEPT ![c] = up[c]] = up
         /\ [down EXCEPT ![c] = down[c]] = down
  <1>1. /\ cl \in [Clients -> Ctls] /\ Tries(cl[c]) /\ Bare(cl[c])
        /\ up \in [Clients -> SUBSET Messages] /\ down \in [Clients -> SUBSET Replies]
    BY TypeOKDef DEF TInv
  <1>2. cl[c] \in Ctls /\ up[c] \in SUBSET Messages /\ down[c] \in SUBSET Replies
    BY <1>1
  <1>3. ASSUME NEW S, NEW f \in [Clients -> S]  PROVE  [f EXCEPT ![c] = f[c]] = f
    OBVIOUS
  <1> QED  BY <1>1, <1>2, <1>3

LEMMA StateNames ==
  /\ Bindings \subseteq States /\ Listening \subseteq States
  /\ {"INIT_SELECTING", "REQUESTING", "CHECKING", "RELEASED", "EXITED", "BOUND", "RENEWING",
      "RENEW_REQUESTED", "REBINDING"} \subseteq States
  /\ {"INIT_SELECTING", "REQUESTING", "CHECKING", "RELEASED", "EXITED"} \cap Bindings = {}
  /\ {"BOUND", "RENEWING", "RENEW_REQUESTED", "REBINDING"} \subseteq Bindings
  /\ \A s \in States : s \notin Bindings \cup {"CHECKING"} =>
       s \in {"INIT_SELECTING", "REQUESTING", "RELEASED", "EXITED"}
  BY DEF States, Bindings, Listening

LEMMA CtlFacts ==
  ASSUME NEW k \in Ctls
  PROVE  /\ k.ip \in Ips /\ k.requested_ip \in Ips /\ k.packet_num \in Nat /\ k.timeout \in Nat
         /\ k.wait \in Nat /\ k.state \in States /\ k.n \in BOOLEAN
  BY DEF Ctls

LEMMA HalfType == \A t \in Nat : Half(t) \in Nat /\ Half(t) <= t
  BY DEF Half

LEMMA KindBare ==
  ASSUME TInv, NEW c \in Clients, NEW k \in Ctls, Kind(c, k)
  PROVE  Bare(k)
  <1>1. Bare(cl[c])
    BY Fields
  <1>2. CASE Idle(k)
    BY <1>2 DEF Idle, Bare
  <1>3. CASE Renews(c, k) \/ Binds(c, k) \/ Confirms(c, k)
    BY <1>3, StateNames DEF Renews, Binds, Confirms, IsBound, Bare
  <1> QED  BY <1>1, <1>2, <1>3 DEF Kind

\* What messages a client may send.
LEMMA MsgType ==
  ASSUME NEW type \in {"DISCOVER", "SELECT", "RENEW", "DECLINE", "RELEASE"}, NEW ip \in Ips
  PROVE  Msg(type, ip) \in Messages
  BY DEF Msg, Messages

LEMMA SendToFacts ==
  ASSUME TInv, NEW c \in Clients,
         NEW type \in {"DISCOVER", "SELECT", "RENEW", "DECLINE", "RELEASE"}, NEW ip \in Ips,
         SendTo(c, type, ip)
  PROVE  \E u \in SUBSET Messages : up' = [up EXCEPT ![c] = u]
  <1>1. up[c] \cup {Msg(type, ip)} \in SUBSET Messages
    BY MsgType, Fields
  <1>2. up' = [up EXCEPT ![c] = up[c] \cup {Msg(type, ip)}]
    BY DEF SendTo
  <1> QED  BY <1>1, <1>2

\* It is enough to say what becomes of the client and of its messages.
LEMMA DoesIt ==
  ASSUME TInv, NEW c \in Clients, NEW k \in Ctls, Tries(k), Kind(c, k), Become(c, k),
         UNCHANGED server,
         up' = up \/ \E u \in SUBSET Messages : up' = [up EXCEPT ![c] = u],
         down' = down \/ \E d \in SUBSET down[c] : down' = [down EXCEPT ![c] = d]
  PROVE  Does(c)
  <1>1. PICK u \in SUBSET Messages : up' = [up EXCEPT ![c] = u]
    BY Fields
  <1>2. PICK d \in SUBSET down[c] : down' = [down EXCEPT ![c] = d]
    BY Fields
  <1>3. Moves(c, k, u, d)
    BY <1>1, <1>2 DEF Moves, Become
  <1> QED  BY <1>3 DEF Does

\* The client goes on without a lease: k is With a state and a timeout.
LEMMA WithType ==
  ASSUME NEW k \in Ctls, NEW st \in States, NEW t \in Nat
  PROVE  LET w == With(k, st, t)
         IN  /\ w \in Ctls /\ w.state = st /\ w.ip = k.ip /\ w.requested_ip = k.requested_ip
             /\ w.packet_num = k.packet_num /\ w.timeout = t /\ w.wait = t
  BY DEF With, Ctls

LEMMA ExitedType ==
  ASSUME NEW ip \in Ips
  PROVE  /\ Exited(ip) \in Ctls /\ Exited(ip).state = "EXITED"
         /\ Tries(Exited(ip)) /\ Idle(Exited(ip))
  BY StateNames, Numbers DEF Exited, Ctls, Tries, Idle

LEMMA RestartedType ==
  ASSUME NEW k \in Ctls, NEW t \in Nat
  PROVE  LET r == Restarted(k, t)
         IN  /\ r \in Ctls /\ Tries(r) /\ Idle(r)
             /\ [r EXCEPT !.requested_ip = 0] \in Ctls
             /\ Tries([r EXCEPT !.requested_ip = 0]) /\ Idle([r EXCEPT !.requested_ip = 0])
  <1> DEFINE r == Restarted(k, t)
             q == [r EXCEPT !.requested_ip = 0]
  <1>1. /\ r \in Ctls /\ r.state = "INIT_SELECTING" /\ r.ip = 0 /\ r.packet_num = 0
    BY StateNames, Numbers DEF Restarted, With, Ctls
  <1>2. q \in Ctls /\ q.state = "INIT_SELECTING" /\ q.ip = 0 /\ q.packet_num = 0
    BY <1>1, Numbers DEF Ctls
  <1> HIDE DEF r, q
  <1>3. Tries(r) /\ Idle(r) /\ Tries(q) /\ Idle(q)
    BY <1>1, <1>2, StateNames, DhcpAssumption DEF Tries, Idle
  <1> QED  BY <1>1, <1>2, <1>3 DEF r, q

LEMMA LeaseFailsDoes ==
  ASSUME TInv, NEW c \in Clients, LeaseFails(c), cl[c].state \in {"INIT_SELECTING", "REQUESTING"},
         UNCHANGED server
  PROVE  Does(c)
  <1> DEFINE w == With(cl[c], "INIT_SELECTING", TryAgain)
             k == [w EXCEPT !.packet_num = 0]
  <1>1. cl[c] \in Ctls /\ cl[c].ip = 0 /\ up' = up /\ down' = down
    BY Fields DEF LeaseFails, Bare
  <1>2. CASE Become(c, Exited(0))
    BY <1>1, <1>2, ExitedType, Numbers, DoesIt DEF Kind
  <1>3. CASE Become(c, k)
    <2>1. w \in Ctls /\ w.state = "INIT_SELECTING" /\ w.ip = 0
      BY <1>1, StateNames DEF TryAgain, With, Ctls
    <2> HIDE DEF w
    <2>2. k \in Ctls /\ k.state = "INIT_SELECTING" /\ k.ip = 0 /\ k.packet_num = 0
      BY <2>1 DEF Ctls
    <2> HIDE DEF k
    <2>3. Tries(k) /\ Idle(k)
      BY <2>2, StateNames, DhcpAssumption DEF Tries, Idle
    <2> QED  BY <1>1, <1>3, <2>2, <2>3, DoesIt DEF Kind
  <1> QED  BY <1>2, <1>3 DEF LeaseFails

\* One more DISCOVER or SELECT.
LEMMA OnceMore ==
  ASSUME TInv, NEW c \in Clients, NEW st \in {"INIT_SELECTING", "REQUESTING"}, cl[c].state = st,
         cl[c].packet_num < (IF st = "INIT_SELECTING" THEN Retries ELSE SelectTries)
  PROVE  LET k == [With(cl[c], st, DiscoverTimeout) EXCEPT !.packet_num = @ + 1]
         IN  k \in Ctls /\ Tries(k) /\ Idle(k)
  <1> DEFINE w == With(cl[c], st, DiscoverTimeout)
             k == [w EXCEPT !.packet_num = @ + 1]
  <1>1. cl[c] \in Ctls /\ cl[c].ip = 0 /\ cl[c].packet_num \in Nat /\ st \in States
    BY Fields, CtlFacts, StateNames DEF Bare
  <1>2. w \in Ctls /\ w.state = st /\ w.ip = 0 /\ w.packet_num = cl[c].packet_num
    BY <1>1, WithType DEF DiscoverTimeout
  <1> HIDE DEF w
  <1>3. k \in Ctls /\ k.state = st /\ k.ip = 0 /\ k.packet_num = cl[c].packet_num + 1
    BY <1>1, <1>2 DEF Ctls
  <1> HIDE DEF k
  <1>4. Tries(k) /\ Idle(k)
    BY <1>1, <1>3, StateNames, DhcpAssumption DEF Tries, Idle
  <1> QED  BY <1>3, <1>4 DEF k, w

LEMMA SelectingDoes ==
  ASSUME TInv, NEW c \in Clients, Selecting(c)
  PROVE  Does(c) /\ faults' = faults
  <1> DEFINE k == [With(cl[c], "INIT_SELECTING", DiscoverTimeout) EXCEPT !.packet_num = @ + 1]
  <1>1. /\ cl[c] \in Ctls /\ cl[c].requested_ip \in Ips /\ up[c] \in SUBSET Messages
        /\ cl[c].state = "INIT_SELECTING" /\ UNCHANGED server /\ faults' = faults
    BY Fields, CtlFacts DEF Selecting, TimedOut
  <1>2. CASE LeaseFails(c)
    BY <1>1, <1>2, LeaseFailsDoes
  <1>3. CASE /\ cl[c].packet_num < Retries
             /\ IF cl[c].packet_num = 0 THEN NewXid(c)
                ELSE SendTo(c, "DISCOVER", cl[c].requested_ip) /\ UNCHANGED down
             /\ Become(c, k)
    <2>1. k \in Ctls /\ Tries(k) /\ Idle(k)
      BY <1>1, <1>3, OnceMore
    <2> HIDE DEF k
    <2>2. CASE NewXid(c)
      <3> DEFINE u == Stale(up[c]) \cup {Msg("DISCOVER", cl[c].requested_ip)}
      <3>1. Stale(up[c]) \in SUBSET Messages
        BY <1>1 DEF Stale, Messages
      <3>2. u \in SUBSET Messages
        BY <1>1, <3>1, MsgType
      <3>3. up' = [up EXCEPT ![c] = u] /\ down' = [down EXCEPT ![c] = {}] /\ {} \in SUBSET down[c]
        BY <2>2 DEF NewXid
      <3> HIDE DEF u
      <3> QED  BY <1>1, <1>3, <2>1, <3>2, <3>3, DoesIt DEF Kind
    <2>3. CASE SendTo(c, "DISCOVER", cl[c].requested_ip) /\ UNCHANGED down
      <3>1. \E u \in SUBSET Messages : up' = [up EXCEPT ![c] = u]
        BY <1>1, <2>3, SendToFacts
      <3> QED  BY <1>1, <1>3, <2>1, <2>3, <3>1, DoesIt DEF Kind
    <2> QED  BY <1>1, <1>3, <2>2, <2>3
  <1> QED  BY <1>2, <1>3 DEF Selecting

LEMMA RequestingDoes ==
  ASSUME TInv, NEW c \in Clients, Requesting(c)
  PROVE  Does(c) /\ faults' = faults
  <1> DEFINE k == [With(cl[c], "REQUESTING", DiscoverTimeout) EXCEPT !.packet_num = @ + 1]
  <1>1. /\ cl[c] \in Ctls /\ cl[c].requested_ip \in Ips
        /\ cl[c].state = "REQUESTING" /\ UNCHANGED server /\ faults' = faults
    BY Fields, CtlFacts DEF Requesting, TimedOut
  <1>2. CASE LeaseFails(c)
    BY <1>1, <1>2, LeaseFailsDoes
  <1>3. CASE /\ cl[c].packet_num < SelectTries
             /\ SendTo(c, "SELECT", cl[c].requested_ip) /\ UNCHANGED down
             /\ Become(c, k)
    <2>1. k \in Ctls /\ Tries(k) /\ Idle(k)
      BY <1>1, <1>3, OnceMore
    <2>2. \E u \in SUBSET Messages : up' = [up EXCEPT ![c] = u]
      BY <1>1, <1>3, SendToFacts
    <2> HIDE DEF k
    <2> QED  BY <1>1, <1>3, <2>1, <2>2, DoesIt DEF Kind
  <1> QED  BY <1>2, <1>3 DEF Requesting

LEMMA RestartedDoes ==
  ASSUME TInv, NEW c \in Clients, Become(c, Restarted(cl[c], 0)), UNCHANGED up, UNCHANGED down,
         UNCHANGED server
  PROVE  Does(c)
  BY Fields, RestartedType, DoesIt DEF Kind

LEMMA RenewDoes ==
  ASSUME TInv, NEW c \in Clients, cl[c].state \in Bindings, NEW st \in Bindings,
         NEW t \in 0..cl[c].timeout, Renew(c, st, t) \/ Rebind(c, t),
         UNCHANGED down, UNCHANGED server
  PROVE  Does(c)
  <1> DEFINE K(s) == With(cl[c], s, Half(t))
  <1>1. cl[c] \in Ctls /\ cl[c].requested_ip \in Ips /\ Half(t) \in Nat
    BY Fields, CtlFacts, HalfType
  <1>2. ASSUME NEW s \in Bindings, SendTo(c, "RENEW", cl[c].requested_ip), Become(c, K(s))
        PROVE  Does(c)
    <2>1. /\ K(s) \in Ctls /\ K(s).state = s /\ K(s).ip = cl[c].ip
          /\ K(s).timeout = Half(t) /\ K(s).wait = Half(t)
      BY <1>1, StateNames DEF With, Ctls
    <2>2. s # "INIT_SELECTING" /\ s # "REQUESTING"
      BY StateNames
    <2>3. \E u \in SUBSET Messages : up' = [up EXCEPT ![c] = u]
      BY <1>1, <1>2, SendToFacts
    <2> HIDE DEF K
    <2>4. Tries(K(s)) /\ Renews(c, K(s))
      BY <2>1, <2>2 DEF Tries, Renews
    <2> QED  BY <1>2, <2>1, <2>3, <2>4, DoesIt DEF Kind
  <1>3. CASE Become(c, Restarted(cl[c], 0)) /\ UNCHANGED up
    BY <1>3, RestartedDoes
  <1> QED  BY <1>2, <1>3, StateNames DEF Renew, Rebind

LEMMA RenewingDoes ==
  ASSUME TInv, NEW c \in Clients, Renewing(c)
  PROVE  Does(c) /\ faults' = faults
  <1>1. UNCHANGED down /\ UNCHANGED server /\ faults' = faults
    BY DEF Renewing
  <1>2. cl[c].state \in Bindings /\ cl[c].timeout \in 0..cl[c].timeout
    <2>1. cl[c].timeout \in Nat
      BY Fields, CtlFacts
    <2> QED  BY <2>1, StateNames DEF Renewing, TimedOut
  <1>3. \E st \in Bindings : Renew(c, st, cl[c].timeout) \/ Rebind(c, cl[c].timeout)
    BY StateNames DEF Renewing
  <1> QED  BY <1>1, <1>2, <1>3, RenewDoes

\* A message that is read is gone.
LEMMA IgnoresDoes ==
  ASSUME TInv, NEW c \in Clients, NEW m, Ignores(c, m)
  PROVE  Does(c) /\ faults' = faults
  <1>1. /\ cl[c] \in Ctls /\ Tries(cl[c]) /\ Become(c, cl[c]) /\ up' = up
        /\ UNCHANGED server /\ faults' = faults
    BY Fields DEF Ignores, Become
  <1>2. down[c] \ {m} \in SUBSET down[c] /\ down' = [down EXCEPT ![c] = down[c] \ {m}]
    BY DEF Ignores
  <1> QED  BY <1>1, <1>2, DoesIt DEF Kind

LEMMA GetsOfferDoes ==
  ASSUME TInv, NEW c \in Clients, NEW m \in down[c], GetsOffer(c, m)
  PROVE  Does(c) /\ faults' = faults
  <1> DEFINE w == With(cl[c], "REQUESTING", 0)
             k == [w EXCEPT !.requested_ip = m.ip, !.packet_num = 0]
  <1>1. /\ cl[c] \in Ctls /\ cl[c].ip = 0 /\ up' = up /\ m.ip \in Ips
        /\ UNCHANGED server /\ faults' = faults /\ Become(c, k)
    BY Fields DEF GetsOffer, Bare, Replies
  <1>2. down[c] \ {m} \in SUBSET down[c] /\ down' = [down EXCEPT ![c] = down[c] \ {m}]
    BY DEF GetsOffer, Hears
  <1>3. w \in Ctls /\ w.state = "REQUESTING" /\ w.ip = 0
    BY <1>1, WithType, StateNames
  <1> HIDE DEF w
  <1>4. k \in Ctls /\ k.state = "REQUESTING" /\ k.ip = 0 /\ k.packet_num = 0
    BY <1>1, <1>3 DEF Ctls
  <1> HIDE DEF k
  <1>5. Tries(k) /\ Idle(k)
    BY <1>4, StateNames, DhcpAssumption DEF Tries, Idle
  <1> QED  BY <1>1, <1>2, <1>4, <1>5, DoesIt DEF Kind

LEMMA BoundType == BoundTimeout \in Nat
  <1>1. Lease \in Nat /\ RenewMin \in Nat
    BY DhcpAssumption
  <1> QED  BY <1>1, HalfType DEF BoundTimeout

LEMMA BoundFacts ==
  ASSUME NEW k \in Ctls, NEW ip \in Ips
  PROVE  Bound(k, ip) \in Ctls /\ Tries(Bound(k, ip)) /\ IsBound(Bound(k, ip), ip)
  <1> DEFINE w == With(k, "BOUND", BoundTimeout)
             b == [w EXCEPT !.requested_ip = ip, !.ip = ip, !.n = FALSE]
  <1>1. w \in Ctls /\ w.state = "BOUND" /\ w.timeout = BoundTimeout /\ w.wait = BoundTimeout
    BY WithType, BoundType, StateNames
  <1>2. Bound(k, ip) = b
    BY DEF Bound
  <1> HIDE DEF w
  <1>3. /\ b \in Ctls /\ b.state = "BOUND" /\ b.ip = ip /\ b.timeout = BoundTimeout
        /\ b.wait = BoundTimeout
    BY <1>1 DEF Ctls
  <1> HIDE DEF b
  <1> QED  BY <1>2, <1>3 DEF Tries, IsBound

LEMMA GetsAckDoes ==
  ASSUME TInv, NEW c \in Clients, NEW m \in down[c], GetsAck(c, m)
  PROVE  Does(c) /\ faults' = faults
  <1> DEFINE w == With(cl[c], "CHECKING", ArpTime)
             k == [w EXCEPT !.requested_ip = m.ip]
  <1>1. /\ cl[c] \in Ctls /\ up' = up /\ m.ip \in Ips /\ m.type = "ACK"
        /\ UNCHANGED server /\ faults' = faults
        /\ Become(c, k) \/ Become(c, Bound(cl[c], m.ip))
    BY Fields DEF GetsAck, Hears, Replies
  <1>2. down[c] \ {m} \in SUBSET down[c] /\ down' = [down EXCEPT ![c] = down[c] \ {m}]
    BY DEF GetsAck, Hears
  <1>3. w \in Ctls /\ w.state = "CHECKING" /\ w.wait = ArpTime
    BY <1>1, StateNames, DhcpAssumption DEF With, Ctls
  <1> HIDE DEF w
  <1>4. k \in Ctls /\ k.state = "CHECKING" /\ k.wait = ArpTime /\ k.requested_ip = m.ip
    BY <1>1, <1>3 DEF Ctls
  <1> HIDE DEF k
  <1>5. Tries(k) /\ Binds(c, k)
    BY <1>1, <1>4 DEF Tries, Binds
  <1>6. /\ Bound(cl[c], m.ip) \in Ctls /\ Tries(Bound(cl[c], m.ip))
        /\ Binds(c, Bound(cl[c], m.ip))
    BY <1>1, BoundFacts DEF Binds
  <1>7. CASE Become(c, k)
    BY <1>1, <1>2, <1>4, <1>5, <1>7, DoesIt DEF Kind
  <1>8. CASE Become(c, Bound(cl[c], m.ip))
    BY <1>1, <1>2, <1>6, <1>8, DoesIt DEF Kind
  <1> QED  BY <1>1, <1>7, <1>8

LEMMA CheckedDoes ==
  ASSUME TInv, NEW c \in Clients, Checked(c)
  PROVE  Does(c) /\ faults' = faults
  <1> DEFINE k == Bound(cl[c], cl[c].requested_ip)
  <1>1. /\ cl[c] \in Ctls /\ cl[c].requested_ip \in Ips /\ UNCHANGED server /\ faults' = faults
        /\ up' = up /\ down' = down /\ Become(c, k)
        /\ cl[c].state = "CHECKING" /\ cl[c].wait = 0
    BY Fields, CtlFacts DEF Checked, TimedOut
  <1>2. k \in Ctls /\ Tries(k) /\ IsBound(k, cl[c].requested_ip)
    BY <1>1, BoundFacts
  <1> HIDE DEF k
  <1>3. Kind(c, k)
    BY <1>1, <1>2 DEF Kind, Confirms
  <1> QED  BY <1>1, <1>2, <1>3, DoesIt

LEMMA DeclinesDoes ==
  ASSUME TInv, NEW c \in Clients, Declines(c)
  PROVE  Does(c) /\ faults' = faults
  <1> DEFINE k == [Restarted(cl[c], TryAgain) EXCEPT !.requested_ip = 0]
  <1>1. /\ cl[c] \in Ctls /\ cl[c].requested_ip \in Ips /\ UNCHANGED server /\ faults' = faults
        /\ down' = down /\ Become(c, k) /\ SendTo(c, "DECLINE", cl[c].requested_ip)
    BY Fields, CtlFacts DEF Declines
  <1>2. k \in Ctls /\ Tries(k) /\ Idle(k)
    BY <1>1, RestartedType DEF TryAgain
  <1>3. \E u \in SUBSET Messages : up' = [up EXCEPT ![c] = u]
    BY <1>1, SendToFacts
  <1> HIDE DEF k
  <1> QED  BY <1>1, <1>2, <1>3, DoesIt DEF Kind

LEMMA GetsNakDoes ==
  ASSUME TInv, NEW c \in Clients, NEW m, GetsNak(c, m)
  PROVE  Does(c) /\ faults' = faults
  <1> DEFINE k == [Restarted(cl[c], 0) EXCEPT !.requested_ip = 0]
  <1>1. /\ cl[c] \in Ctls /\ UNCHANGED server /\ faults' = faults /\ up' = up /\ Become(c, k)
    BY Fields DEF GetsNak
  <1>2. down[c] \ {m} \in SUBSET down[c] /\ down' = [down EXCEPT ![c] = down[c] \ {m}]
    BY DEF GetsNak, Hears
  <1>3. k \in Ctls /\ Tries(k) /\ Idle(k)
    BY <1>1, RestartedType
  <1> HIDE DEF k
  <1> QED  BY <1>1, <1>2, <1>3, DoesIt DEF Kind

LEMMA FaultFacts ==
  ASSUME TInv, Fault
  PROVE  faults' \in 0..MaxFaults
  <1>1. faults \in 0..MaxFaults
    BY DEF TInv, TypeOK
  <1>2. MaxFaults \in Nat
    BY DhcpAssumption
  <1> QED  BY <1>1, <1>2 DEF Fault

LEMMA Usr1Does ==
  ASSUME TInv, NEW c \in Clients, Usr1(c)
  PROVE  Does(c) /\ faults' \in 0..MaxFaults
  <1> DEFINE t == IF cl[c].timeout > RenewMin THEN RenewMin ELSE cl[c].timeout
  <1>1. UNCHANGED down /\ UNCHANGED server /\ faults' \in 0..MaxFaults
    BY FaultFacts DEF Usr1
  <1>2. t \in 0..cl[c].timeout
    <2>1. cl[c].timeout \in Nat /\ RenewMin \in Nat
      BY Fields, CtlFacts, DhcpAssumption
    <2> QED  BY <2>1
  <1>3. CASE cl[c].state \in {"BOUND", "RENEWING", "REBINDING"} /\ Renew(c, "RENEW_REQUESTED", t)
    <2> HIDE DEF t
    <2> QED  BY <1>1, <1>2, <1>3, RenewDoes, StateNames
  <1>4. CASE Become(c, Restarted(cl[c], 0)) /\ UNCHANGED up
    BY <1>1, <1>4, RestartedDoes
  <1> QED  BY <1>3, <1>4 DEF Usr1

LEMMA ReleasesDoes ==
  ASSUME TInv, NEW c \in Clients, NEW k \in Ctls, Tries(k), Idle(k), Releases(c, k),
         UNCHANGED down, UNCHANGED server
  PROVE  Does(c)
  <1>1. cl[c].requested_ip \in Ips
    BY Fields, CtlFacts
  <1>2. up' = up \/ \E u \in SUBSET Messages : up' = [up EXCEPT ![c] = u]
    BY <1>1, SendToFacts DEF Releases
  <1> QED  BY <1>2, DoesIt DEF Kind, Releases

LEMMA SignalsDo ==
  ASSUME TInv, NEW c \in Clients, Usr2(c) \/ Term(c)
  PROVE  Does(c) /\ faults' \in 0..MaxFaults
  <1> DEFINE w == With(cl[c], "RELEASED", 0)
             k == [w EXCEPT !.ip = 0]
  <1>1. /\ UNCHANGED down /\ UNCHANGED server /\ faults' \in 0..MaxFaults
        /\ cl[c] \in Ctls /\ cl[c].ip \in Ips
    BY FaultFacts, Fields, CtlFacts DEF Usr2, Term
  <1>2. CASE Usr2(c)
    <2>1. w \in Ctls /\ w.state = "RELEASED"
      BY <1>1, StateNames DEF With, Ctls
    <2> HIDE DEF w
    <2>2. k \in Ctls /\ k.state = "RELEASED" /\ k.ip = 0
      BY <2>1, Numbers DEF Ctls
    <2>3. Releases(c, k)
      BY <1>2 DEF Usr2, w
    <2> HIDE DEF k
    <2>4. Tries(k) /\ Idle(k)
      BY <2>2, StateNames DEF Tries, Idle
    <2> QED  BY <1>1, <2>2, <2>3, <2>4, ReleasesDoes
  <1>3. CASE Releases(c, Exited(0))
    BY <1>1, <1>3, Numbers, ExitedType, ReleasesDoes
  <1>4. CASE Become(c, Exited(cl[c].ip)) /\ UNCHANGED up
    BY <1>1, <1>4, ExitedType, DoesIt DEF Kind
  <1> QED  BY <1>2, <1>3, <1>4 DEF Term

LEMMA StartsAgainDoes ==
  ASSUME TInv, NEW c \in Clients, StartsAgain(c)
  PROVE  Does(c) /\ faults' = faults
  <1>1. PICK req \in Requests : Become(c, Starting(req))
    BY DEF StartsAgain
  <1> DEFINE k == Starting(req)
  <1>2. up' = up /\ down' = down /\ UNCHANGED server /\ faults' = faults
    BY DEF StartsAgain
  <1>3. k \in Ctls /\ k.state = "INIT_SELECTING" /\ k.ip = 0 /\ k.packet_num = 0
    <2>1. req \in Ips
      BY DhcpAssumption, Numbers
    <2> QED  BY <2>1, StateNames, Numbers DEF Starting, Ctls
  <1>4. Become(c, k)
    BY <1>1
  <1> HIDE DEF k
  <1>5. Tries(k) /\ Idle(k)
    BY <1>3, StateNames, DhcpAssumption DEF Tries, Idle
  <1> QED  BY <1>2, <1>3, <1>4, <1>5, DoesIt DEF Kind

\* The network loses messages, or delays them.
LEMMA NetworkDoes ==
  ASSUME TInv, NEW c \in Clients, Lost(c) \/ Strays(c)
  PROVE  Does(c) /\ faults' \in 0..MaxFaults
  <1>1. /\ cl[c] \in Ctls /\ Tries(cl[c]) /\ Become(c, cl[c]) /\ up[c] \in SUBSET Messages
        /\ UNCHANGED server
    BY Fields DEF Lost, Strays, Become
  <1>2. CASE Lost(c)
    <2>1. faults' \in 0..MaxFaults
      BY <1>2, TypeOKDef DEF Lost, TInv
    <2>2. up' = up \/ \E u \in SUBSET Messages : up' = [up EXCEPT ![c] = u]
      <3>1. ASSUME NEW m \in up[c], up' = [up EXCEPT ![c] = @ \ {m}]
            PROVE  \E u \in SUBSET Messages : up' = [up EXCEPT ![c] = u]
        <4>1. up[c] \ {m} \in SUBSET Messages /\ up' = [up EXCEPT ![c] = up[c] \ {m}]
          BY <1>1, <3>1
        <4> QED  BY <4>1
      <3> QED  BY <1>2, <3>1 DEF Lost
    <2>3. down' = down \/ \E d \in SUBSET down[c] : down' = [down EXCEPT ![c] = d]
      <3>1. ASSUME NEW m \in down[c], down' = [down EXCEPT ![c] = @ \ {m}]
            PROVE  \E d \in SUBSET down[c] : down' = [down EXCEPT ![c] = d]
        <4>1. down[c] \ {m} \in SUBSET down[c] /\ down' = [down EXCEPT ![c] = down[c] \ {m}]
          BY <3>1
        <4> QED  BY <4>1
      <3> QED  BY <1>2, <3>1 DEF Lost
    <2> QED  BY <1>1, <2>1, <2>2, <2>3, DoesIt DEF Kind
  <1>3. CASE Strays(c)
    <2>1. PICK m \in up[c], gone \in BOOLEAN :
            up' = [up EXCEPT ![c] = (IF gone THEN @ \ {m} ELSE @) \cup {[m EXCEPT !.late = TRUE]}]
      BY <1>3 DEF Strays
    <2> DEFINE u == (IF gone THEN up[c] \ {m} ELSE up[c]) \cup {[m EXCEPT !.late = TRUE]}
    <2>2. [m EXCEPT !.late = TRUE] \in Messages
      BY <1>1 DEF Messages
    <2>3. u \in SUBSET Messages /\ up' = [up EXCEPT ![c] = u]
      BY <1>1, <2>1, <2>2
    <2>4. down' = down /\ faults' \in 0..MaxFaults
      BY <1>3, FaultFacts DEF Strays
    <2> HIDE DEF u
    <2> QED  BY <1>1, <2>3, <2>4, DoesIt DEF Kind
  <1> QED  BY <1>2, <1>3

\* Every step of a client is of one of the kinds.
ClientStep(c) ==
  Client(c) \/ Usr1(c) \/ Usr2(c) \/ Term(c) \/ StartsAgain(c) \/ Lost(c) \/ Strays(c)

LEMMA ClientDoes ==
  ASSUME TInv, NEW c \in Clients, ClientStep(c)
  PROVE  Does(c) /\ faults' \in 0..MaxFaults
  <1>1. faults \in 0..MaxFaults
    BY DEF TInv, TypeOK
  <1> QED  BY <1>1, SelectingDoes, RequestingDoes, RenewingDoes, IgnoresDoes, GetsOfferDoes,
              GetsAckDoes, CheckedDoes, DeclinesDoes, GetsNakDoes, Usr1Does, SignalsDo,
              StartsAgainDoes, NetworkDoes DEF ClientStep, Client

-----------------------------------------------------------------------------
(* A step of the server.                                                   *)
Handles(c, m) == Discover(c, m) \/ Request(c, m) \/ Decline(c, m) \/ Release(c, m)

\* Nothing that is not ACKed meanwhile becomes an ACK.
Answers(c, types) ==
  down' = down \/ \E type \in types, ip \in Ips :
                    down' = [down EXCEPT ![c] = @ \cup {Reply(type, ip)}]

\* The address is the client's already, or can be given away.
Settled(c, t, ip) ==
  \/ t = table /\ \E s \in 1..MaxLeases : table[s].mac = c /\ table[s].ip = ip
  \/ Vacant(t, ip)
Offers(c, t, ip) ==
  /\ Stays(table, t) /\ Unique(t)
  /\ \/ table' = t
     \/ ip # 0 /\ Settled(c, t, ip) /\ table' = AddLease(t, c, ip, OfferTime)
  /\ Answers(c, {"OFFER"})
  /\ promise' = [promise EXCEPT ![c] = 0] \/ (Static[c] # 0 /\ promise' = promise)

LEMMA DiscoverOffers ==
  ASSUME TInv, NEW c \in Clients, NEW m \in up[c], Discover(c, m)
  PROVE  \E t \in Tbl, ip \in Ips : Offers(c, t, ip)
  <1>1. table \in Tbl /\ Unique(table)
    BY TypeOKDef DEF TInv
  <1>2. Stays(table, table)
    BY DEF Stays
  <1>3. CASE Static[c] # 0
    <2>1. Static[c] \in Ips
      BY DEF Ips
    <2>2. Offers(c, table, Static[c])
      BY <1>1, <1>2, <1>3, <2>1 DEF Discover, Answer, Offers, Answers
    <2> QED  BY <1>1, <2>1, <2>2
  <1>4. CASE Static[c] = 0
    <2>1. PICK heard \in SUBSET Pool :
            LET o == Offered(c, m.ip, heard)
            IN IF o.ip = 0 THEN table' = o.table /\ UNCHANGED down
               ELSE /\ table' = AddLease(o.table, c, o.ip, OfferTime)
                    /\ IF HasRoom(o.table, c, o.ip) THEN Answer(c, m, "OFFER", o.ip)
                       ELSE UNCHANGED down
      BY <1>4 DEF Discover
    <2> DEFINE o == Offered(c, m.ip, heard)
    <2>2. /\ o.table \in Tbl /\ Stays(table, o.table) /\ Unique(o.table) /\ o.ip \in Ips
          /\ o.ip # 0 => Settled(c, o.table, o.ip)
      BY <1>1, OfferedFacts DEF Settled
    <2>3. \/ o.ip = 0 /\ table' = o.table /\ down' = down
          \/ /\ o.ip # 0 /\ table' = AddLease(o.table, c, o.ip, OfferTime)
             /\ down' = down \/ down' = [down EXCEPT ![c] = @ \cup {Reply("OFFER", o.ip)}]
      BY <2>1 DEF Answer
    <2>4. promise' = [promise EXCEPT ![c] = 0]
      BY <1>4 DEF Discover, Forgets
    <2> HIDE DEF o
    <2>5. Offers(c, o.table, o.ip)
      BY <2>2, <2>3, <2>4 DEF Offers, Answers
    <2> QED  BY <2>2, <2>5
  <1> QED  BY <1>3, <1>4

\* DHCPREQUEST: the lease is the client's, or nothing happens but an answer.
Acks(c, ip) ==
  /\ ip # 0 /\ ip = LeaseOf(c) /\ ack' = [mac |-> c, ip |-> ip] /\ kept' = FALSE
  /\ Answers(c, {"ACK"})
  /\ promise' = [promise EXCEPT ![c] = IF Reserved(ip) THEN 0 ELSE ip]
Naks(c) == Answers(c, {"NAK"}) /\ UNCHANGED <<ack, promise, kept>>

LEMMA RequestAnswers ==
  ASSUME TInv, NEW c \in Clients, NEW m \in up[c], Request(c, m)
  PROVE  m.ip \in Ips /\ (Acks(c, m.ip) \/ Naks(c))
  <1>1. m.ip \in Ips /\ 0 \in Ips
    BY Fields, Numbers DEF Messages
  <1>2. CASE m.ip = LeaseOf(c) /\ m.ip # 0 /\ SendAck(c, m)
    BY <1>1, <1>2 DEF SendAck, Answer, Acks, Answers
  <1>3. CASE (Answer(c, m, "NAK", 0) \/ UNCHANGED down) /\ UNCHANGED <<ack, promise, kept>>
    BY <1>1, <1>3 DEF Answer, Naks, Answers
  <1> QED  BY <1>1, <1>2, <1>3 DEF Request

\* DHCPDECLINE and DHCPRELEASE: the client's own entry is given up.
Yields(c, s) ==
  /\ table[s].mac = c /\ table' = [table EXCEPT ![s] = table'[s]]
  /\ table'[s] \in Entries /\ table'[s].ip = table[s].ip /\ table'[s].mac \in {c, Zero}
Forgotten(c) ==
  \/ UNCHANGED <<table, promise>>
  \/ /\ promise' = [promise EXCEPT ![c] = 0]
     /\ table' = table \/ \E s \in 1..MaxLeases : Yields(c, s)

LEMMA GivesUp ==
  ASSUME TInv, NEW c \in Clients, NEW m \in up[c], Decline(c, m) \/ Release(c, m)
  PROVE  Forgotten(c)
  <1> DEFINE s == FindByMac(table, c)
  <1>1. table \in Tbl
    BY TypeOKDef DEF TInv
  <1>2. (s \in 1..MaxLeases /\ table[s].mac = c) \/ s = 0
    BY <1>1, FindByMacFacts
  <1>3. \/ UNCHANGED <<table, promise>>
        \/ /\ promise' = [promise EXCEPT ![c] = 0]
           /\ \/ table' = [table EXCEPT ![s].mac = Zero, ![s].left = ConflictTime]
              \/ table' = [table EXCEPT ![s].left = 0]
    BY DEF Decline, Release, Forgets
  <1> HIDE DEF s
  <1>4. CASE s = 0
    <2>1. s \notin DOMAIN table
      BY <1>1, <1>4, Numbers DEF Tbl
    <2>2. ASSUME NEW v  PROVE  [table EXCEPT ![s] = v] = table
      BY <1>1, <2>1 DEF Tbl
    <2>3. [table EXCEPT ![s].left = 0] = table /\ [table EXCEPT ![s].mac = Zero] = table
      BY <2>2
    <2>4. [[table EXCEPT ![s].mac = Zero] EXCEPT ![s].left = ConflictTime] = table
      BY <2>2, <2>3
    <2> QED  BY <1>3, <2>3, <2>4 DEF Forgotten
  <1>5. CASE s \in 1..MaxLeases /\ table[s].mac = c
    <2>1. table[s] \in Entries
      BY <1>1, <1>5 DEF Tbl
    <2> DEFINE e1 == [table[s] EXCEPT !.mac = Zero, !.left = ConflictTime]
               e2 == [table[s] EXCEPT !.left = 0]
    <2>2. /\ e1 \in Entries /\ e1.ip = table[s].ip /\ e1.mac = Zero
          /\ e2 \in Entries /\ e2.ip = table[s].ip /\ e2.mac = c
      <3>1. ConflictTime \in Lefts /\ 0 \in Lefts
        BY Numbers
      <3> QED  BY <1>5, <2>1, <3>1 DEF Entries, Lefts
    <2>3. \/ UNCHANGED <<table, promise>>
          \/ /\ promise' = [promise EXCEPT ![c] = 0]
             /\ table' = [table EXCEPT ![s] = e1] \/ table' = [table EXCEPT ![s] = e2]
      BY <1>1, <1>3, <1>5 DEF Tbl
    <2> HIDE DEF e1, e2
    <2>4. ASSUME NEW e \in {e1, e2}, table' = [table EXCEPT ![s] = e]
          PROVE  Yields(c, s)
      <3>1. table'[s] = e
        BY <1>1, <1>5, <2>4 DEF Tbl
      <3> QED  BY <1>5, <2>2, <2>4, <3>1 DEF Yields
    <2> QED  BY <1>5, <2>3, <2>4 DEF Forgotten
  <1> QED  BY <1>2, <1>4, <1>5

LEMMA YieldsUnique ==
  ASSUME TInv, NEW c \in Clients, NEW s \in 1..MaxLeases, Yields(c, s)
  PROVE  table' \in Tbl /\ Unique(table')
  <1>1. table \in Tbl /\ Unique(table)
    BY TypeOKDef DEF TInv
  <1>2. table' \in Tbl
    BY <1>1 DEF Yields, Tbl
  <1>3. \A r \in 1..MaxLeases : /\ table'[r].ip = table[r].ip
                                /\ table'[r].mac \in {table[r].mac, Zero}
    BY <1>1 DEF Yields, Tbl
  <1> QED  BY <1>1, <1>2, <1>3 DEF Unique

\* The lease that is being granted has an address: that of the client's entry,
\* or a reserved one; and the client is promised no other.
AckFits ==
  /\ ~on => ack = NoAck
  /\ ack # NoAck =>
       /\ ack.ip # 0 /\ promise[ack.mac] \in {0, ack.ip}
       /\ \/ Reserved(ack.ip)
          \/ \E s \in 1..MaxLeases : table[s].mac = ack.mac /\ table[s].ip = ack.ip

LEMMA GrantedFacts ==
  ASSUME TInv, AckFits, ack # NoAck
  PROVE  /\ Granted \in Tbl /\ Unique(Granted) /\ ack.mac \in Clients
         /\ Keeps(table, Granted, ack.mac, ack.ip)
         /\ (\E s \in 1..MaxLeases : table[s].mac = ack.mac) =>
              \E s \in 1..MaxLeases : Granted[s] = Given(ack.mac, ack.ip, Lease)
  <1> DEFINE mac == ack.mac
             ip == ack.ip
  <1>1. /\ table \in Tbl /\ Unique(table) /\ mac \in Clients /\ mac \in Macs \cup {Null}
        /\ ip \in Ips \ {0} /\ Lease \in Lefts
    BY TypeOKDef, Numbers DEF TInv, AckFits, Granting, Macs
  <1>2. Granted = AddLease(table, mac, ip, Lease)
    BY DEF Granted
  <1> HIDE DEF mac, ip
  <1>3. Granted \in Tbl /\ Keeps(table, Granted, mac, ip)
    BY <1>1, <1>2, AddLeaseFacts
  <1>4. Unique(Granted)
    BY <1>1, <1>2, AddLeaseUnique
  <1>5. (\E s \in 1..MaxLeases : table[s].mac = mac) => HasRoom(table, mac, ip)
    BY <1>1, AddLeaseFacts
  <1>6. HasRoom(table, mac, ip) => \E s \in 1..MaxLeases : Granted[s] = Given(mac, ip, Lease)
    BY <1>1, <1>2, AddLeaseFacts
  <1> QED  BY <1>1, <1>3, <1>4, <1>5, <1>6 DEF mac, ip

\* The lease file: as it was, or n slots of the table.
Stored(t) ==
  UNCHANGED storage \/ \E n \in 0..MaxLeases : WriteUpTo(t, n)

LEMMA SavesStored ==
  ASSUME TInv, NEW t, Saves(t)
  PROVE  Stored(t) /\ faults' \in 0..MaxFaults
  <1>1. MaxLeases \in 0..MaxLeases /\ \A n \in 0..(MaxLeases - 1) : n \in 0..MaxLeases
    BY Numbers
  <1>2. faults' \in 0..MaxFaults
    BY FaultFacts, TypeOKDef DEF Saves, TInv
  <1> QED  BY <1>1, <1>2 DEF Saves, Stored

LEMMA StoredType ==
  ASSUME TInv, NEW t \in Tbl, Stored(t), Unique(t), Unique(file)
  PROVE  file' \in Tbl /\ Unique(file') /\ written' \in 0..FileTime /\ kept' \in BOOLEAN
  <1>1. /\ file \in Tbl /\ written \in 0..FileTime /\ kept \in BOOLEAN /\ 0 \in 0..FileTime
    BY TypeOKDef, DhcpAssumption DEF TInv
  <1>2. CASE UNCHANGED storage
    BY <1>1, <1>2 DEF storage
  <1>3. ASSUME NEW n \in 0..MaxLeases, WriteUpTo(t, n)
        PROVE  file' \in Tbl /\ Unique(file') /\ written' \in 0..FileTime /\ kept' \in BOOLEAN
    <2>1. Written(t, n) \in Tbl /\ Unique(Written(t, n))
      BY WrittenFacts
    <2>2. file' = Written(t, n) /\ written' = 0 /\ kept' \in BOOLEAN
      BY <1>3 DEF WriteUpTo
    <2> QED  BY <1>1, <2>1, <2>2
  <1> QED  BY <1>2, <1>3 DEF Stored

-----------------------------------------------------------------------------
(* Types, and one entry per address and per client.                        *)
IInv == TInv /\ Unique(file) /\ AckFits

LEMMA ServerType ==
  ASSUME IInv, cl' = cl, up' \in [Clients -> SUBSET Messages], down' \in [Clients -> SUBSET Replies],
         table' \in Tbl, Unique(table'), file' \in Tbl, Unique(file'), ack' \in Granting \cup {NoAck},
         written' \in 0..FileTime, on' \in BOOLEAN, faults' \in 0..MaxFaults,
         promise' \in [Clients -> Ips], kept' \in BOOLEAN, AckFits'
  PROVE  IInv'
  <1>1. cl \in [Clients -> Ctls] /\ \A c \in Clients : Tries(cl[c]) /\ Bare(cl[c])
    BY TypeOKDef DEF IInv, TInv
  <1>2. cl' \in [Clients -> Ctls] /\ \A c \in Clients : Tries(cl'[c]) /\ Bare(cl'[c])
    BY <1>1
  <1>3. TypeOK'
    BY <1>2 DEF TypeOK, Ctls, States, Tries, Tbl, Granting, NoAck
  <1>4. TInv'
    BY <1>2, <1>3 DEF TInv, Unique, Bare
  <1> QED  BY <1>4 DEF IInv, Unique

LEMMA MessageTypes ==
  ASSUME TInv, NEW c \in Clients,
         NEW m, up' = [up EXCEPT ![c] = @ \ {m}], Answers(c, {"OFFER", "ACK", "NAK"})
  PROVE  up' \in [Clients -> SUBSET Messages] /\ down' \in [Clients -> SUBSET Replies]
  <1>1. up \in [Clients -> SUBSET Messages] /\ down \in [Clients -> SUBSET Replies]
    BY TypeOKDef DEF TInv
  <1>2. up' \in [Clients -> SUBSET Messages]
    BY <1>1
  <1>3. ASSUME NEW type \in {"OFFER", "ACK", "NAK"}, NEW ip \in Ips
        PROVE  Reply(type, ip) \in Replies
    BY DhcpAssumption DEF Reply, Replies
  <1>4. down' \in [Clients -> SUBSET Replies]
    <2>1. CASE down' = down
      BY <1>1, <2>1
    <2>2. ASSUME NEW type \in {"OFFER", "ACK", "NAK"}, NEW ip \in Ips,
                 down' = [down EXCEPT ![c] = @ \cup {Reply(type, ip)}]
          PROVE  down' \in [Clients -> SUBSET Replies]
      BY <1>1, <1>3, <2>2
    <2> QED  BY <2>1, <2>2 DEF Answers
  <1> QED  BY <1>2, <1>4

LEMMA HandlesFacts ==
  ASSUME IInv, NEW c \in Clients, NEW m \in up[c], Handles(c, m)
  PROVE  /\ cl' = cl /\ on /\ on' = on /\ ack = NoAck /\ up' = [up EXCEPT ![c] = @ \ {m}]
         /\ faults' \in 0..MaxFaults /\ file' = file /\ written' = written /\ kept' \in {kept, FALSE}
         /\ Request(c, m) \/ (ack' = NoAck /\ kept' = kept)
         /\ Request(c, m) => table' = table
  <1>1. faults \in 0..MaxFaults
    BY DEF IInv, TInv, TypeOK
  <1>2. CASE Request(c, m)
    BY <1>1, <1>2 DEF Request, SendAck, Takes
  <1>3. CASE Discover(c, m)
    BY <1>1, <1>3 DEF Discover, Request, Takes, storage
  <1>4. CASE Decline(c, m)
    BY <1>1, <1>4 DEF Decline, Request, Takes, storage
  <1>5. CASE Release(c, m)
    BY <1>1, <1>5 DEF Release, Request, Takes, storage
  <1> QED  BY <1>2, <1>3, <1>4, <1>5 DEF Handles

LEMMA OffersUnique ==
  ASSUME TInv, NEW c \in Clients, NEW t \in Tbl, NEW ip \in Ips, Offers(c, t, ip)
  PROVE  table' \in Tbl /\ Unique(table')
  <1>1. Unique(t)
    BY DEF Offers
  <1>2. CASE table' = t
    BY <1>1, <1>2
  <1>3. CASE ip # 0 /\ table' = AddLease(t, c, ip, OfferTime)
    <2>1. c \in Macs \cup {Null} /\ ip \in Ips \ {0} /\ OfferTime \in Lefts
      BY <1>3, Numbers DEF Macs
    <2>2. AddLease(t, c, ip, OfferTime) \in Tbl
      BY <2>1, AddLeaseFacts
    <2>3. Unique(AddLease(t, c, ip, OfferTime))
      BY <1>1, <2>1, AddLeaseUnique
    <2> QED  BY <1>3, <2>2, <2>3
  <1> QED  BY <1>2, <1>3 DEF Offers

LEMMA HandlesType ==
  ASSUME IInv, NEW c \in Clients, NEW m \in up[c], Handles(c, m)
  PROVE  IInv'
  <1>1. /\ TInv /\ table \in Tbl /\ Unique(table) /\ file \in Tbl /\ Unique(file)
        /\ written \in 0..FileTime /\ kept \in BOOLEAN /\ on \in BOOLEAN
        /\ promise \in [Clients -> Ips] /\ 0 \in Ips
    BY TypeOKDef, Numbers DEF IInv, TInv
  <1>2. /\ cl' = cl /\ on /\ on' = on /\ ack = NoAck /\ up' = [up EXCEPT ![c] = @ \ {m}]
        /\ faults' \in 0..MaxFaults /\ file' = file /\ written' = written /\ kept' \in {kept, FALSE}
        /\ Request(c, m) => table' = table
    BY HandlesFacts
  <1>3. ASSUME Answers(c, {"OFFER", "ACK", "NAK"}), table' \in Tbl, Unique(table'),
               promise' \in [Clients -> Ips], ack' \in Granting \cup {NoAck}, AckFits'
        PROVE  IInv'
    <2>1. up' \in [Clients -> SUBSET Messages] /\ down' \in [Clients -> SUBSET Replies]
      BY <1>1, <1>2, <1>3, MessageTypes
    <2>2. /\ file' \in Tbl /\ Unique(file') /\ written' \in 0..FileTime /\ kept' \in BOOLEAN
          /\ on' \in BOOLEAN
      BY <1>1, <1>2
    <2> QED  BY <1>2, <1>3, <2>1, <2>2, ServerType
  <1>4. ack' = NoAck => AckFits'
    BY DEF AckFits
  <1>5. CASE Discover(c, m)
    <2>1. PICK t \in Tbl, ip \in Ips : Offers(c, t, ip)
      BY <1>1, <1>5, DiscoverOffers
    <2>2. table' \in Tbl /\ Unique(table')
      BY <1>1, <2>1, OffersUnique
    <2>3. Answers(c, {"OFFER", "ACK", "NAK"}) /\ promise' \in [Clients -> Ips]
      BY <1>1, <2>1 DEF Offers, Answers
    <2>4. ack' = NoAck
      BY <1>5 DEF Discover, Takes
    <2> QED  BY <1>3, <1>4, <2>2, <2>3, <2>4
  <1>6. CASE Request(c, m)
    <2>1. table' = table /\ m.ip \in Ips /\ (Acks(c, m.ip) \/ Naks(c))
      BY <1>1, <1>2, <1>6, RequestAnswers
    <2>2. CASE Naks(c)
      BY <1>1, <1>2, <1>3, <1>4, <2>1, <2>2 DEF Naks, Answers
    <2>3. CASE Acks(c, m.ip)
      <3> DEFINE ip == m.ip
      <3>1. /\ ip \in Ips /\ ip # 0 /\ ip = LeaseOf(c) /\ ack' = [mac |-> c, ip |-> ip]
            /\ promise' = [promise EXCEPT ![c] = IF Reserved(ip) THEN 0 ELSE ip]
        BY <2>1, <2>3 DEF Acks
      <3> HIDE DEF ip
      <3>2. /\ ack' \in Granting /\ ack'.mac = c /\ ack'.ip = ip
            /\ promise' \in [Clients -> Ips] /\ promise'[c] \in {0, ip}
        BY <1>1, <3>1 DEF Granting
      <3>3. \/ Reserved(ip)
            \/ \E s \in 1..MaxLeases : table[s].mac = c /\ table[s].ip = ip
        BY <1>1, <3>1, FindByMacFacts DEF LeaseOf, Reserved
      <3>4. AckFits'
        BY <1>2, <2>1, <3>1, <3>2, <3>3 DEF AckFits, Reserved
      <3>5. Answers(c, {"OFFER", "ACK", "NAK"})
        BY <2>3 DEF Acks, Answers
      <3> QED  BY <1>1, <1>3, <2>1, <3>2, <3>4, <3>5
    <2> QED  BY <2>1, <2>2, <2>3
  <1>7. CASE Decline(c, m) \/ Release(c, m)
    <2>1. Forgotten(c)
      BY <1>1, <1>7, GivesUp
    <2>2. table' \in Tbl /\ Unique(table') /\ promise' \in [Clients -> Ips]
      BY <1>1, <2>1, YieldsUnique DEF Forgotten
    <2>3. ack' = NoAck /\ down' = down
      BY <1>7 DEF Decline, Release, Takes
    <2> QED  BY <1>3, <1>4, <2>2, <2>3 DEF Answers
  <1> QED  BY <1>5, <1>6, <1>7 DEF Handles

LEMMA FileType ==
  ASSUME IInv, Grant \/ WriteLeases \/ ServerStops \/ ServerStarts
  PROVE  IInv'
  <1>1. /\ TInv /\ AckFits /\ up \in [Clients -> SUBSET Messages] /\ down \in [Clients -> SUBSET Replies]
        /\ table \in Tbl /\ Unique(table) /\ file \in Tbl /\ Unique(file)
        /\ ack \in Granting \cup {NoAck} /\ on \in BOOLEAN /\ faults \in 0..MaxFaults
        /\ written \in 0..FileTime /\ kept \in BOOLEAN
        /\ promise \in [Clients -> Ips] /\ NoPromises \in [Clients -> Ips]
    BY TypeOKDef, Numbers DEF IInv, TInv, NoPromises
  <1>2. ack' = NoAck => AckFits'
    BY DEF AckFits
  <1>3. ack # NoAck => Granted \in Tbl /\ Unique(Granted)
    BY <1>1, GrantedFacts
  <1>4. CASE Grant
    <2>1. /\ ack # NoAck /\ ack' = NoAck /\ table' = Granted /\ Saves(table')
          /\ UNCHANGED <<cl, up, down, on, promise>>
      BY <1>4 DEF Grant
    <2>2. Stored(table') /\ faults' \in 0..MaxFaults
      BY <1>1, <2>1, SavesStored
    <2>3. file' \in Tbl /\ Unique(file') /\ written' \in 0..FileTime /\ kept' \in BOOLEAN
      BY <1>1, <1>3, <2>1, <2>2, StoredType
    <2> QED  BY <1>1, <1>2, <1>3, <2>1, <2>2, <2>3, ServerType
  <1>5. CASE WriteLeases
    <2>1. ack' = NoAck /\ Saves(table) /\ UNCHANGED <<cl, up, down, table, on, promise>>
      BY <1>5 DEF WriteLeases
    <2>2. Stored(table) /\ faults' \in 0..MaxFaults
      BY <1>1, <2>1, SavesStored
    <2>3. file' \in Tbl /\ Unique(file') /\ written' \in 0..FileTime /\ kept' \in BOOLEAN
      BY <1>1, <2>2, StoredType
    <2> QED  BY <1>1, <1>2, <2>1, <2>2, <2>3, ServerType
  <1>6. CASE ServerStops
    <2> DEFINE t == IF ack = NoAck THEN table ELSE Granted
    <2>1. /\ Stored(t) /\ UNCHANGED <<cl, up, down>> /\ on' = FALSE /\ table' = NoLeases
          /\ ack' = NoAck /\ faults' \in 0..MaxFaults /\ promise' \in [Clients -> Ips]
      BY <1>1, <1>6, FaultFacts DEF ServerStops, Stored
    <2>2. t \in Tbl /\ Unique(t)
      BY <1>1, <1>3
    <2> HIDE DEF t
    <2>3. file' \in Tbl /\ Unique(file') /\ written' \in 0..FileTime /\ kept' \in BOOLEAN
      BY <1>1, <2>1, <2>2, StoredType
    <2>4. NoLeases \in Tbl /\ Unique(NoLeases)
      BY EmptyType DEF Unique, NoLeases, Empty
    <2> QED  BY <1>1, <1>2, <2>1, <2>3, <2>4, ServerType
  <1>7. CASE ServerStarts
    <2>1. /\ ~on /\ on' = TRUE /\ table' = Loaded
          /\ UNCHANGED <<cl, up, down, ack, file, written, kept, faults, promise>>
      BY <1>7 DEF ServerStarts, storage
    <2>2. Loaded \in Tbl /\ Unique(Loaded) /\ ack' = NoAck
      BY <1>1, <2>1, LoadedType DEF AckFits
    <2> QED  BY <1>1, <1>2, <2>1, <2>2, ServerType
  <1> QED  BY <1>4, <1>5, <1>6, <1>7

\* The clock: of an entry, only what is left changes.
LEMMA TickTable ==
  ASSUME TInv, Tick
  PROVE  /\ table' \in Tbl
         /\ \A s \in 1..MaxLeases :
              /\ table'[s].mac = table[s].mac /\ table'[s].ip = table[s].ip
              /\ table[s].left \in Int /\ table'[s].left = Less(table[s].left, Past)
  <1>1. table \in Tbl
    BY TypeOKDef DEF TInv
  <1>2. ASSUME NEW e \in Entries
        PROVE  LET f == [e EXCEPT !.left = Less(@, Past)]
               IN  /\ f \in Entries /\ f.mac = e.mac /\ f.ip = e.ip /\ f.left = Less(e.left, Past)
                   /\ e.left \in Int
    <2>1. e.left \in Lefts
      BY DEF Entries, Lefts
    <2>2. Less(e.left, Past) \in Lefts /\ e.left \in Int
      BY <2>1, Numbers DEF Less, Lefts
    <2> QED  BY <2>2 DEF Entries, Lefts
  <1>3. table' = [s \in 1..MaxLeases |-> [table[s] EXCEPT !.left = Less(@, Past)]]
    BY DEF Tick
  <1>4. \A s \in 1..MaxLeases : table[s] \in Entries
    BY <1>1 DEF Tbl
  <1> QED  BY <1>2, <1>3, <1>4 DEF Tbl

LEMMA TickFile ==
  ASSUME TInv, Tick
  PROVE  \/ /\ file' = NoLeases /\ kept' = FALSE /\ (~on => promise' = NoPromises)
            /\ (on => promise' = promise) /\ written' = written
         \/ /\ file' \in Tbl /\ kept' = kept /\ promise' = promise /\ written' \in 0..FileTime
            /\ \A s \in 1..MaxLeases :
                 /\ file'[s].mac = file[s].mac /\ file'[s].ip = file[s].ip
                 /\ file[s].left \in Int /\ file'[s].left = Less(file[s].left, 0)
  <1>1. file \in Tbl /\ written \in 0..FileTime /\ FileTime \in Nat
    BY TypeOKDef, DhcpAssumption DEF TInv
  <1>2. CASE ~(written < FileTime)
    BY <1>2 DEF Tick
  <1>3. CASE written < FileTime
    <2>1. /\ written' = written + 1 /\ kept' = kept /\ promise' = promise
          /\ file' = [s \in 1..MaxLeases |-> [file[s] EXCEPT !.left = Less(@, 0)]]
      BY <1>3 DEF Tick
    <2>2. ASSUME NEW e \in Entries
          PROVE  LET f == [e EXCEPT !.left = Less(@, 0)]
                 IN  /\ f \in Entries /\ f.mac = e.mac /\ f.ip = e.ip /\ f.left = Less(e.left, 0)
                     /\ e.left \in Int
      <3>1. e.left \in Lefts
        BY DEF Entries, Lefts
      <3>2. Less(e.left, 0) \in Lefts /\ e.left \in Int
        BY <3>1, Numbers DEF Less, Lefts
      <3> QED  BY <3>2 DEF Entries, Lefts
    <2>3. \A s \in 1..MaxLeases : file[s] \in Entries
      BY <1>1 DEF Tbl
    <2>4. /\ file' \in Tbl
          /\ \A s \in 1..MaxLeases :
               /\ file'[s].mac = file[s].mac /\ file'[s].ip = file[s].ip
               /\ file[s].left \in Int /\ file'[s].left = Less(file[s].left, 0)
      BY <2>1, <2>2, <2>3 DEF Tbl
    <2>5. written' \in 0..FileTime
      BY <1>1, <1>3, <2>1
    <2> QED  BY <2>1, <2>4, <2>5
  <1> QED  BY <1>2, <1>3

LEMMA AgedFacts ==
  ASSUME NEW d \in SUBSET Replies, \A m \in d : m.age < Delay
  PROVE  /\ Aged(d) \in SUBSET Replies
         /\ \A q \in Aged(d) : \E m \in d : q.type = m.type /\ q.ip = m.ip /\ q.age = m.age + 1
  <1>1. ASSUME NEW m \in d
        PROVE  LET q == [m EXCEPT !.age = @ + 1]
               IN  q \in Replies /\ q.type = m.type /\ q.ip = m.ip /\ q.age = m.age + 1
    <2>1. m \in Replies /\ m.age \in 0..Delay /\ m.age < Delay /\ Delay \in Nat
      BY DhcpAssumption DEF Replies
    <2>2. m.age + 1 \in 0..Delay
      BY <2>1
    <2> QED  BY <2>1, <2>2 DEF Replies
  <1> QED  BY <1>1 DEF Aged

LEMMA TickType ==
  ASSUME IInv, Tick
  PROVE  IInv'
  <1>1. /\ TInv /\ cl \in [Clients -> Ctls] /\ \A c \in Clients : Tries(cl[c]) /\ Bare(cl[c])
        /\ up \in [Clients -> SUBSET Messages] /\ down \in [Clients -> SUBSET Replies]
        /\ Unique(table) /\ Unique(file) /\ AckFits
        /\ ack \in Granting \cup {NoAck} /\ on \in BOOLEAN /\ faults \in 0..MaxFaults
        /\ written \in 0..FileTime /\ kept \in BOOLEAN
        /\ promise \in [Clients -> Ips] /\ NoPromises \in [Clients -> Ips]
    BY TypeOKDef, Numbers DEF IInv, TInv, NoPromises
  <1>2. down' \in [Clients -> SUBSET Replies]
    <2>1. ASSUME NEW c \in Clients  PROVE  Aged(down[c]) \in SUBSET Replies
      <3>1. down[c] \in SUBSET Replies /\ \A m \in down[c] : m.age < Delay
        BY <1>1 DEF Tick
      <3> QED  BY <3>1, AgedFacts
    <2> QED  BY <2>1 DEF Tick
  <1>3. ASSUME NEW k \in Ctls
        PROVE  LET l == [k EXCEPT !.wait = Less(@, 0)]
               IN  l \in Ctls /\ (Tries(k) => Tries(l)) /\ (Bare(k) => Bare(l))
    <2>1. Less(k.wait, 0) \in Nat
      BY CtlFacts DEF Less
    <2> QED  BY <2>1 DEF Ctls, Tries, Bare
  <1>4. cl' = [c \in Clients |-> [cl[c] EXCEPT !.wait = Less(@, 0)]]
    BY DEF Tick
  <1>5. cl' \in [Clients -> Ctls] /\ \A c \in Clients : Tries(cl'[c]) /\ Bare(cl'[c])
    BY <1>1, <1>3, <1>4
  <1>6. table' \in Tbl /\ Unique(table')
    BY <1>1, TickTable DEF Unique
  <1>7. /\ up' = up /\ ack' = ack /\ on' = on /\ faults' = faults
    BY DEF Tick
  <1>8. NoLeases \in Tbl /\ Unique(NoLeases)
    BY EmptyType DEF Unique, NoLeases, Empty
  <1>9. /\ file' \in Tbl /\ Unique(file') /\ written' \in 0..FileTime /\ kept' \in BOOLEAN
        /\ promise' \in [Clients -> Ips] /\ (on => promise' = promise)
    <2>1. CASE /\ file' = NoLeases /\ kept' = FALSE /\ (~on => promise' = NoPromises)
               /\ (on => promise' = promise) /\ written' = written
      BY <1>1, <1>8, <2>1
    <2>2. CASE /\ file' \in Tbl /\ kept' = kept /\ promise' = promise /\ written' \in 0..FileTime
               /\ \A s \in 1..MaxLeases : file'[s].mac = file[s].mac /\ file'[s].ip = file[s].ip
      <3>1. Unique(file')
        BY <1>1, <2>2 DEF Unique
      <3> QED  BY <1>1, <2>2, <3>1
    <2> QED  BY <1>1, <2>1, <2>2, TickFile
  <1>10. AckFits'
    <2>1. \A s \in 1..MaxLeases : table'[s].mac = table[s].mac /\ table'[s].ip = table[s].ip
      BY <1>1, TickTable
    <2>2. CASE on
      BY <1>1, <1>7, <1>9, <2>1, <2>2 DEF AckFits, Reserved
    <2>3. CASE ~on
      BY <1>1, <1>7, <2>3 DEF AckFits
    <2> QED  BY <2>2, <2>3
  <1>11. TypeOK'
    BY <1>1, <1>2, <1>5, <1>6, <1>7, <1>9 DEF TypeOK, Ctls, States, Tries, Tbl, Granting, NoAck
  <1> QED  BY <1>5, <1>6, <1>9, <1>10, <1>11 DEF IInv, TInv, Unique, Bare

LEMMA IInvInit == Init => IInv
  <1> SUFFICES ASSUME Init  PROVE  IInv
    OBVIOUS
  <1>1. PICK req \in [Clients -> Requests] : cl = [c \in Clients |-> Starting(req[c])]
    BY DEF Init
  <1>2. ASSUME NEW c \in Clients
        PROVE  Starting(req[c]) \in Ctls /\ Tries(Starting(req[c])) /\ Bare(Starting(req[c]))
    <2>1. req[c] \in Ips
      BY DhcpAssumption, Numbers
    <2> QED  BY <2>1, StateNames, Numbers, DhcpAssumption DEF Starting, Ctls, Tries, Bare
  <1>3. cl \in [Clients -> Ctls] /\ \A c \in Clients : Tries(cl[c]) /\ Bare(cl[c])
    BY <1>1, <1>2
  <1>4. up \in [Clients -> SUBSET Messages] /\ down \in [Clients -> SUBSET Replies]
    BY DEF Init
  <1>5. table \in Tbl /\ file \in Tbl /\ Unique(table) /\ Unique(file)
    BY EmptyType DEF Init, Unique, NoLeases, Empty
  <1>6. /\ on \in BOOLEAN /\ faults \in 0..MaxFaults /\ written \in 0..FileTime /\ kept \in BOOLEAN
        /\ ack = NoAck /\ promise \in [Clients -> Ips]
    BY DhcpAssumption, Numbers DEF Init, NoPromises
  <1>7. AckFits
    BY <1>6 DEF AckFits
  <1> QED  BY <1>3, <1>4, <1>5, <1>6, <1>7, TypeOKDef DEF IInv, TInv

LEMMA DoesType ==
  ASSUME IInv, NEW c \in Clients, Does(c), faults' \in 0..MaxFaults
  PROVE  IInv'
  <1>1. PICK k \in Ctls, u \in SUBSET Messages, d \in SUBSET down[c] :
          Tries(k) /\ Moves(c, k, u, d) /\ Kind(c, k)
    BY DEF Does
  <1>2. TInv /\ Bare(k) /\ d \in SUBSET Replies
    BY <1>1, KindBare, Fields DEF IInv
  <1>3. TInv'
    BY <1>1, <1>2, MovesType
  <1>4. table' = table /\ file' = file /\ ack' = ack /\ on' = on /\ promise' = promise
    BY <1>1 DEF Moves, server, storage
  <1>5. AckFits' /\ Unique(file')
    BY <1>4 DEF IInv, AckFits, Reserved
  <1> QED  BY <1>3, <1>5 DEF IInv, Unique

\* The next-state relation, by who acts.
LEMMA NextCases ==
  ASSUME [Next]_vars
  PROVE  \/ \E c \in Clients : \E m \in up[c] : Handles(c, m)
         \/ \E c \in Clients : ClientStep(c)
         \/ Grant \/ WriteLeases \/ ServerStops \/ ServerStarts \/ Tick \/ UNCHANGED vars
  BY DEF Next, Handles, ClientStep

LEMMA IInvNext == IInv /\ [Next]_vars => IInv'
  <1> SUFFICES ASSUME IInv, [Next]_vars  PROVE  IInv'
    OBVIOUS
  <1>1. ASSUME NEW c \in Clients, NEW m \in up[c], Handles(c, m)  PROVE  IInv'
    BY <1>1, HandlesType
  <1>2. ASSUME NEW c \in Clients, ClientStep(c)  PROVE  IInv'
    <2>1. TInv
      BY DEF IInv
    <2>2. Does(c) /\ faults' \in 0..MaxFaults
      BY <1>2, <2>1, ClientDoes
    <2> QED  BY <2>2, DoesType
  <1>3. CASE Grant \/ WriteLeases \/ ServerStops \/ ServerStarts
    BY <1>3, FileType
  <1>4. CASE Tick
    BY <1>4, TickType
  <1>5. CASE UNCHANGED vars
    BY <1>5 DEF vars, server, storage, IInv, TInv, TypeOK, Unique, Bare, AckFits, Reserved
  <1> QED  BY <1>1, <1>2, <1>3, <1>4, <1>5, NextCases

\* Clients, messages, lease table and lease file have their types; the counts
\* of DISCOVERs and SELECTs sent stay within their limits, and what is left of
\* a lease, or how long it has been over, within its bounds.
THEOREM TypeCorrect == Spec => []TypeOK
  <1>1. IInv => TypeOK
    BY DEF IInv, TInv
  <1> QED  BY <1>1, IInvInit, IInvNext, PTL DEF Spec

\* add_lease(), however it is called - for an offer, for an ACK, for an address
\* that arpping() finds in use, for what the lease file says - leaves no two
\* entries for one address or for one client.
THEOREM TableCorrect == Spec => []TableUnique
  <1>1. IInv => TableUnique
    BY DEF IInv, TInv, Unique, TableUnique
  <1> QED  BY <1>1, IInvInit, IInvNext, PTL DEF Spec

-----------------------------------------------------------------------------
(* The server's promise.                                                   *)

\* What the theorem supposes of the times.  H[t] bounds how long a client keeps
\* its address when its timeout, t, is over: half of it is waited again and
\* again, until nothing is left.  A client that has got an ACK at the last
\* moment, and checks the address, is done before the server's lease is.
Timely(H) ==
  /\ H \in [Nat -> Nat]
  /\ \A t \in Nat : Half(t) + H[Half(t)] <= H[t]
  /\ \A s, t \in Nat : s <= t => H[s] <= H[t]
  /\ BoundTimeout + H[BoundTimeout] + Delay + ArpTime <= Lease

\* How long a client in state k will rely on its address at most.
Rest(H, k) ==
  k.wait + (IF k.state = "CHECKING" THEN BoundTimeout + H[BoundTimeout] ELSE H[k.timeout])
Relies(k, p) ==
  k.state # "EXITED" /\ p = IF k.state = "CHECKING" THEN k.requested_ip ELSE k.ip

\* The server's state: what is sent, the table if it is on, the file if it was
\* written completely after the last ACK.
Server == [t |-> table, f |-> file, o |-> on, a |-> ack, k |-> kept]
Held(t, c, p, n) == \E s \in 1..MaxLeases : t[s].mac = c /\ t[s].ip = p /\ t[s].left >= n
Covered(c, p, n, s) ==
  /\ s.o => s.a = [mac |-> c, ip |-> p] \/ Held(s.t, c, p, n)
  /\ s.k => Held(s.f, c, p, n)

\* A promise p to client c, in state k with the messages d on the way to it, is
\* an address of the pool that is not reserved.  Whether the client relies on
\* it, or will when it gets an ACK, it is covered for as long as that takes.
Sound(H, c, k, d, p, s) ==
  p # 0 =>
    /\ Static[c] = 0 /\ p \in Pool /\ ~Reserved(p) /\ (s.o \/ s.k)
    /\ Relies(k, p) => Covered(c, p, Rest(H, k), s)
    /\ \A m \in d : m.type = "ACK" /\ m.ip = p => Covered(c, p, Lease - m.age, s)
Bounded(H, k) == k.state \in Bindings \cup {"CHECKING"} => Rest(H, k) <= Lease

HInv(H) ==
  /\ IInv
  /\ \A c \in Clients : Bounded(H, cl[c]) /\ Sound(H, c, cl[c], down[c], promise[c], Server)

LEMMA RestType ==
  ASSUME NEW H, Timely(H), NEW k \in Ctls
  PROVE  Rest(H, k) \in Nat /\ H[k.timeout] \in Nat /\ H[BoundTimeout] \in Nat
  <1>1. k.wait \in Nat /\ k.timeout \in Nat /\ BoundTimeout \in Nat
    BY CtlFacts, BoundType
  <1>2. H[k.timeout] \in Nat /\ H[BoundTimeout] \in Nat
    BY <1>1 DEF Timely
  <1> QED  BY <1>1, <1>2 DEF Rest

LEMMA AckLeft ==
  ASSUME NEW H, Timely(H), NEW m \in Replies
  PROVE  /\ m.age \in Nat /\ m.age <= Delay /\ Lease - m.age \in Nat /\ Lease - m.age <= Lease
         /\ BoundTimeout + H[BoundTimeout] + ArpTime <= Lease - m.age
         /\ BoundTimeout + H[BoundTimeout] <= Lease - m.age
  <1>1. m.age \in 0..Delay /\ Delay \in Nat /\ ArpTime \in Nat /\ Lease \in Nat
    BY DhcpAssumption DEF Replies
  <1>2. BoundTimeout \in Nat /\ H[BoundTimeout] \in Nat
    BY BoundType DEF Timely
  <1>3. BoundTimeout + H[BoundTimeout] + Delay + ArpTime <= Lease
    BY DEF Timely
  <1> QED  BY <1>1, <1>2, <1>3

LEMMA CoveredLess ==
  ASSUME NEW c, NEW p, NEW n \in Nat, NEW m \in Nat, n <= m,
         NEW s, s.t \in Tbl, s.f \in Tbl, s.o \in BOOLEAN, s.k \in BOOLEAN, Covered(c, p, m, s)
  PROVE  Covered(c, p, n, s)
  <1>1. ASSUME NEW t \in Tbl, Held(t, c, p, m)  PROVE  Held(t, c, p, n)
    <2>1. PICK r \in 1..MaxLeases : t[r].mac = c /\ t[r].ip = p /\ t[r].left >= m
      BY <1>1 DEF Held
    <2>2. t[r].left \in Int
      BY EntryFacts DEF Tbl
    <2> QED  BY <2>1, <2>2 DEF Held
  <1> QED  BY <1>1 DEF Covered

LEMMA ServerFacts ==
  ASSUME IInv
  PROVE  Server.t \in Tbl /\ Server.f \in Tbl /\ Server.o \in BOOLEAN /\ Server.k \in BOOLEAN
  BY TypeOKDef DEF IInv, TInv, Server

\* A step of a client c leaves it with what it relied on, or takes an ACK.
LEMMA KindSound ==
  ASSUME NEW H, Timely(H), HInv(H), NEW c \in Clients, NEW k \in Ctls, Kind(c, k), Bare(k),
         NEW d \in SUBSET down[c]
  PROVE  Bounded(H, k) /\ Sound(H, c, k, d, promise[c], Server)
  <1> DEFINE p == promise[c]
             s == Server
  <1> SUFFICES Bounded(H, k) /\ Sound(H, c, k, d, p, s)
    OBVIOUS
  <1>1. /\ Bounded(H, cl[c]) /\ Sound(H, c, cl[c], down[c], p, s)
        /\ cl[c] \in Ctls /\ down[c] \in SUBSET Replies
        /\ s.t \in Tbl /\ s.f \in Tbl /\ s.o \in BOOLEAN /\ s.k \in BOOLEAN
    BY Fields, ServerFacts DEF HInv, IInv
  <1>2. Rest(H, k) \in Nat /\ Rest(H, cl[c]) \in Nat /\ Lease \in Nat
    BY <1>1, RestType, Numbers
  <1> HIDE DEF p, s
  <1>3. ASSUME Bounded(H, k), p # 0 /\ Relies(k, p) => Covered(c, p, Rest(H, k), s)
        PROVE  Bounded(H, k) /\ Sound(H, c, k, d, p, s)
    BY <1>1, <1>3 DEF Sound
  <1>4. CASE Idle(k)
    BY <1>3, <1>4 DEF Idle, Bounded, Relies
  <1>5. CASE k = cl[c]
    BY <1>1, <1>3, <1>5 DEF Sound
  <1>6. CASE Renews(c, k)
    <2>1. PICK t \in 0..cl[c].timeout : k.timeout = Half(t) /\ k.wait = Half(t)
      BY <1>6 DEF Renews
    <2>2. /\ cl[c].state \in Bindings /\ k.state \in Bindings /\ k.ip = cl[c].ip
          /\ cl[c].state # "CHECKING" /\ k.state # "CHECKING" /\ cl[c].state # "EXITED"
      BY <1>6, StateNames DEF Renews
    <2>3. Rest(H, k) <= Rest(H, cl[c])
      <3>1. t \in Nat /\ cl[c].timeout \in Nat /\ t <= cl[c].timeout /\ cl[c].wait \in Nat /\ Half(t) \in Nat
        BY <1>1, CtlFacts, HalfType
      <3>2. Half(t) + H[Half(t)] <= H[t] /\ H[t] <= H[cl[c].timeout]
        BY <3>1 DEF Timely
      <3>3. H[Half(t)] \in Nat /\ H[t] \in Nat /\ H[cl[c].timeout] \in Nat
        BY <3>1 DEF Timely
      <3>4. Rest(H, k) = Half(t) + H[Half(t)] /\ Rest(H, cl[c]) = cl[c].wait + H[cl[c].timeout]
        BY <2>1, <2>2 DEF Rest
      <3> QED  BY <3>1, <3>2, <3>3, <3>4
    <2>4. Bounded(H, k)
      BY <1>1, <1>2, <2>2, <2>3 DEF Bounded
    <2>5. ASSUME p # 0, Relies(k, p)  PROVE  Covered(c, p, Rest(H, k), s)
      <3>1. Relies(cl[c], p)
        BY <2>2, <2>5 DEF Relies
      <3>2. Covered(c, p, Rest(H, cl[c]), s)
        BY <1>1, <2>5, <3>1 DEF Sound
      <3> QED  BY <1>1, <1>2, <2>3, <3>2, CoveredLess
    <2> QED  BY <1>3, <2>4, <2>5
  <1>7. CASE Binds(c, k)
    <2>1. PICK m \in down[c] :
            /\ m.type = "ACK"
            /\ IsBound(k, m.ip) \/ (k.state = "CHECKING" /\ k.requested_ip = m.ip /\ k.wait = ArpTime)
      BY <1>7 DEF Binds
    <2>2. /\ m \in Replies /\ Lease - m.age \in Nat /\ Lease - m.age <= Lease
          /\ BoundTimeout + H[BoundTimeout] + ArpTime <= Lease - m.age
          /\ BoundTimeout + H[BoundTimeout] <= Lease - m.age
      BY <1>1, AckLeft
    <2>3. Rest(H, k) <= Lease - m.age
      <3>1. BoundTimeout \in Nat /\ H[BoundTimeout] \in Nat /\ ArpTime \in Nat
        BY <1>1, RestType, BoundType, DhcpAssumption
      <3>2. \/ Rest(H, k) = BoundTimeout + H[BoundTimeout]
            \/ Rest(H, k) = ArpTime + (BoundTimeout + H[BoundTimeout])
        BY <2>1 DEF IsBound, Rest
      <3> QED  BY <2>2, <3>1, <3>2
    <2>4. Bounded(H, k)
      BY <1>2, <2>2, <2>3 DEF Bounded
    <2>5. ASSUME p # 0, Relies(k, p)  PROVE  Covered(c, p, Rest(H, k), s)
      <3>1. m.ip = p
        BY <2>1, <2>5 DEF Relies, IsBound
      <3>2. Covered(c, p, Lease - m.age, s)
        BY <1>1, <2>1, <2>5, <3>1 DEF Sound
      <3> QED  BY <1>1, <1>2, <2>2, <2>3, <3>2, CoveredLess
    <2> QED  BY <1>3, <2>4, <2>5
  <1>8. CASE Confirms(c, k)
    <2>1. /\ cl[c].state = "CHECKING" /\ cl[c].wait = 0 /\ k.state = "BOUND" /\ k.wait = BoundTimeout
          /\ k.timeout = BoundTimeout /\ k.ip = cl[c].requested_ip
      BY <1>8 DEF Confirms, IsBound
    <2>2. Rest(H, k) = Rest(H, cl[c])
      <3>1. BoundTimeout \in Nat /\ H[BoundTimeout] \in Nat
        BY <1>1, RestType, BoundType
      <3> QED  BY <2>1, <3>1 DEF Rest
    <2>3. Bounded(H, k)
      BY <1>1, <2>1, <2>2 DEF Bounded
    <2>4. p # 0 /\ Relies(k, p) => Covered(c, p, Rest(H, k), s)
      BY <1>1, <2>1, <2>2 DEF Sound, Relies
    <2> QED  BY <1>3, <2>3, <2>4
  <1> QED  BY <1>4, <1>5, <1>6, <1>7, <1>8 DEF Kind

LEMMA DoesSound ==
  ASSUME NEW H, Timely(H), HInv(H), IInv', NEW c \in Clients, Does(c)
  PROVE  HInv(H)'
  <1>1. PICK k \in Ctls, u \in SUBSET Messages, d \in SUBSET down[c] :
          Moves(c, k, u, d) /\ Kind(c, k)
    BY DEF Does
  <1>2. /\ cl \in [Clients -> Ctls] /\ down \in [Clients -> SUBSET Replies] /\ TInv
    BY TypeOKDef DEF HInv, IInv, TInv
  <1>3. Bounded(H, k) /\ Sound(H, c, k, d, promise[c], Server)
    BY <1>1, <1>2, KindBare, KindSound
  <1>4. promise' = promise /\ Server' = Server
    BY <1>1 DEF Moves, server, storage, Server
  <1>5. ASSUME NEW b \in Clients
        PROVE  Bounded(H, cl'[b]) /\ Sound(H, b, cl'[b], down'[b], promise'[b], Server')
    <2>1. CASE b = c
      <3>1. cl'[b] = k /\ down'[b] = d
        BY <1>1, <1>2, <2>1 DEF Moves
      <3> QED  BY <1>3, <1>4, <2>1, <3>1
    <2>2. CASE b # c
      <3>1. cl'[b] = cl[b] /\ down'[b] = down[b]
        BY <1>1, <1>2, <2>2 DEF Moves
      <3> QED  BY <1>4, <3>1 DEF HInv
    <2> QED  BY <2>1, <2>2
  <1> QED  BY <1>5 DEF HInv

\* A step of the server that keeps what it promises c, or forgets it, and sends
\* no ACK.
LEMMA KeepsSound ==
  ASSUME NEW H, Timely(H), HInv(H), IInv', cl' = cl, NEW c \in Clients,
         \A m \in down'[c] : m.type = "ACK" => m \in down[c],
         promise'[c] \in {promise[c], 0},
         promise'[c] # 0 =>
           /\ on' \/ kept'
           /\ \A n \in 0..Lease :
                Covered(c, promise[c], n, Server) => Covered(c, promise[c], n, Server')
  PROVE  Bounded(H, cl'[c]) /\ Sound(H, c, cl'[c], down'[c], promise'[c], Server')
  <1>1. /\ Bounded(H, cl[c]) /\ Sound(H, c, cl[c], down[c], promise[c], Server)
        /\ cl[c] \in Ctls /\ down[c] \in SUBSET Replies /\ Bare(cl[c])
    BY Fields DEF HInv, IInv
  <1>2. SUFFICES ASSUME promise'[c] # 0
                 PROVE  Sound(H, c, cl[c], down'[c], promise[c], Server')
    BY <1>1 DEF Sound
  <1>3. /\ promise[c] # 0 /\ Static[c] = 0 /\ promise[c] \in Pool /\ ~Reserved(promise[c])
        /\ Server'.o \/ Server'.k
    BY <1>1, <1>2 DEF Sound, Server
  <1>4. Relies(cl[c], promise[c]) => Covered(c, promise[c], Rest(H, cl[c]), Server')
    <2> SUFFICES ASSUME Relies(cl[c], promise[c])
                 PROVE  Covered(c, promise[c], Rest(H, cl[c]), Server')
      OBVIOUS
    <2>1. cl[c].state \in States
      BY <1>1, CtlFacts
    <2>2. cl[c].state \in Bindings \cup {"CHECKING"}
      BY <1>1, <1>3, <2>1, StateNames DEF Relies, Bare
    <2>3. Rest(H, cl[c]) \in 0..Lease
      <3>1. Rest(H, cl[c]) \in Nat /\ Rest(H, cl[c]) <= Lease /\ Lease \in Nat
        BY <1>1, <2>2, RestType, Numbers DEF Bounded
      <3> QED  BY <3>1
    <2>4. Covered(c, promise[c], Rest(H, cl[c]), Server)
      BY <1>1, <1>3 DEF Sound
    <2> QED  BY <1>2, <2>3, <2>4
  <1>5. ASSUME NEW m \in down'[c], m.type = "ACK", m.ip = promise[c]
        PROVE  Covered(c, promise[c], Lease - m.age, Server')
    <2>1. m \in down[c] /\ m \in Replies
      BY <1>1, <1>5
    <2>2. Covered(c, promise[c], Lease - m.age, Server)
      BY <1>1, <1>3, <1>5, <2>1 DEF Sound
    <2>3. Lease - m.age \in 0..Lease
      <3>1. Lease - m.age \in Nat /\ Lease - m.age <= Lease
        BY <2>1, AckLeft
      <3> QED  BY <3>1, Numbers
    <2> QED  BY <1>2, <2>2, <2>3
  <1> QED  BY <1>3, <1>4, <1>5 DEF Sound

\* From t to u, what has not expired and is neither mac's nor for ip stays.
LEMMA HeldKept ==
  ASSUME NEW t \in Tbl, NEW u \in Tbl, NEW c \in Clients, NEW p, p # 0, NEW n \in 0..Lease,
         Held(t, c, p, n),
         \A s \in 1..MaxLeases : t[s].mac = c /\ t[s].ip = p /\ ~Expired(t[s]) => u[s] = t[s]
  PROVE  Held(u, c, p, n)
  <1>1. PICK s \in 1..MaxLeases : t[s].mac = c /\ t[s].ip = p /\ t[s].left >= n
    BY DEF Held
  <1>2. t[s].left \in Int /\ n \in Nat
    BY EntryFacts, Numbers DEF Tbl
  <1>3. u[s] = t[s]
    BY <1>1, <1>2 DEF Expired
  <1> QED  BY <1>1, <1>3 DEF Held

LEMMA OffersKeep ==
  ASSUME TInv, NEW c \in Clients, NEW t \in Tbl, NEW ip \in Ips, Offers(c, t, ip),
         NEW b \in Clients, b # c, NEW p, p # 0, NEW n \in 0..Lease, Held(table, b, p, n)
  PROVE  Held(table', b, p, n)
  <1>1. table \in Tbl /\ Unique(table) /\ Stays(table, t)
    BY TypeOKDef DEF TInv, Offers
  <1>2. Held(t, b, p, n)
    BY <1>1, HeldKept DEF Stays
  <1>3. CASE table' = t
    BY <1>2, <1>3
  <1>4. CASE ip # 0 /\ Settled(c, t, ip) /\ table' = AddLease(t, c, ip, OfferTime)
    <2>1. c \in Macs \cup {Null} /\ ip \in Ips \ {0} /\ OfferTime \in Lefts
      BY <1>4, Numbers DEF Macs
    <2>2. table' \in Tbl /\ Keeps(t, table', c, ip)
      BY <1>4, <2>1, AddLeaseFacts
    <2>3. ASSUME NEW s \in 1..MaxLeases, t[s].mac = b, t[s].ip = p, ~Expired(t[s])
          PROVE  t[s].ip # ip
      <3>1. CASE t = table /\ \E r \in 1..MaxLeases : table[r].mac = c /\ table[r].ip = ip
        <4>1. PICK r \in 1..MaxLeases : table[r].mac = c /\ table[r].ip = ip
          BY <3>1
        <4> QED  BY <1>1, <2>1, <2>3, <3>1, <4>1 DEF Unique
      <3>2. CASE Vacant(t, ip)
        BY <2>3, <3>2 DEF Vacant
      <3> QED  BY <1>4, <3>1, <3>2 DEF Settled
    <2>4. ASSUME NEW s \in 1..MaxLeases, t[s].mac = b, t[s].ip = p, ~Expired(t[s])
          PROVE  table'[s] = t[s]
      BY <2>2, <2>3, <2>4 DEF Keeps
    <2> QED  BY <1>2, <2>2, <2>4, HeldKept
  <1> QED  BY <1>3, <1>4 DEF Offers

\* The lease that is granted is for the client, and leaves the others theirs.
LEMMA GrantHeld ==
  ASSUME IInv, ack # NoAck, NEW c \in Clients, NEW p, p # 0, p = promise[c], ~Reserved(p),
         NEW n \in 0..Lease, ack = [mac |-> c, ip |-> p] \/ Held(table, c, p, n)
  PROVE  Held(Granted, c, p, n)
  <1>1. /\ table \in Tbl /\ Unique(table) /\ Granted \in Tbl /\ ack.mac \in Clients
        /\ Keeps(table, Granted, ack.mac, ack.ip)
        /\ (\E s \in 1..MaxLeases : table[s].mac = ack.mac) =>
             \E s \in 1..MaxLeases : Granted[s] = Given(ack.mac, ack.ip, Lease)
    BY TypeOKDef, GrantedFacts DEF IInv, TInv
  <1>2. /\ ack.ip # 0 /\ promise[ack.mac] \in {0, ack.ip}
        /\ Reserved(ack.ip) \/ \E s \in 1..MaxLeases : table[s].mac = ack.mac /\ table[s].ip = ack.ip
    BY DEF IInv, AckFits
  <1>3. CASE ack.mac = c
    <2>1. ack.ip = p /\ \E s \in 1..MaxLeases : table[s].mac = ack.mac
      BY <1>2, <1>3
    <2>2. PICK s \in 1..MaxLeases : Granted[s] = Given(c, p, Lease)
      BY <1>1, <1>3, <2>1
    <2>3. Granted[s].mac = c /\ Granted[s].ip = p /\ Granted[s].left = Lease
      BY <2>2, DhcpAssumption DEF Given, Null
    <2>4. Lease >= n
      BY Numbers
    <2> QED  BY <2>3, <2>4 DEF Held
  <1>4. CASE ack.mac # c
    <2>1. Held(table, c, p, n)
      BY <1>4
    <2>2. p # ack.ip \/ \A s \in 1..MaxLeases : table[s].mac = c => table[s].ip # p
      <3> SUFFICES ASSUME p = ack.ip, NEW r \in 1..MaxLeases, table[r].mac = c, table[r].ip = p
                   PROVE  FALSE
        OBVIOUS
      <3>1. PICK s \in 1..MaxLeases : table[s].mac = ack.mac /\ table[s].ip = ack.ip
        BY <1>2
      <3> QED  BY <1>1, <1>4, <3>1 DEF Unique
    <2>3. ASSUME NEW s \in 1..MaxLeases, table[s].mac = c, table[s].ip = p, ~Expired(table[s])
          PROVE  Granted[s] = table[s]
      BY <1>1, <1>4, <2>2, <2>3 DEF Keeps
    <2> QED  BY <1>1, <2>1, <2>3, HeldKept
  <1> QED  BY <1>3, <1>4

\* A file that counts as written completely has what the table had.
LEMMA StoredHeld ==
  ASSUME NEW t \in Tbl, Stored(t), NEW c \in Clients, NEW p, p # 0, NEW n \in 0..Lease, Held(t, c, p, n),
         kept => Held(file, c, p, n), kept'
  PROVE  Held(file', c, p, n)
  <1>1. CASE UNCHANGED storage
    BY <1>1 DEF storage
  <1>2. CASE file' = Written(t, MaxLeases)
    <2>1. PICK s \in 1..MaxLeases : t[s].mac = c /\ t[s].ip = p /\ t[s].left >= n
      BY DEF Held
    <2>2. /\ MaxLeases \in 0..MaxLeases /\ ~(s > MaxLeases) /\ n \in Nat
      BY Numbers
    <2>3. /\ Written(t, MaxLeases)[s].mac = t[s].mac /\ Written(t, MaxLeases)[s].ip = t[s].ip
          /\ Written(t, MaxLeases)[s].left >= t[s].left /\ Written(t, MaxLeases) \in Tbl
      BY <2>2, WrittenFacts
    <2>4. t[s].left \in Int /\ Written(t, MaxLeases)[s].left \in Int
      BY <2>3, EntryFacts DEF Tbl
    <2>5. Written(t, MaxLeases)[s].left >= n
      BY <2>1, <2>2, <2>3, <2>4
    <2> QED  BY <1>2, <2>1, <2>3, <2>5 DEF Held
  <1> QED  BY <1>1, <1>2 DEF Stored, WriteUpTo

LEMMA HandlesSound ==
  ASSUME NEW H, Timely(H), HInv(H), IInv', NEW c \in Clients, NEW m \in up[c], Handles(c, m)
  PROVE  HInv(H)'
  <1>1. /\ IInv /\ TInv /\ promise \in [Clients -> Ips] /\ down \in [Clients -> SUBSET Replies]
        /\ table \in Tbl /\ Unique(table) /\ kept \in BOOLEAN
    BY TypeOKDef DEF HInv, IInv, TInv
  <1>2. /\ cl' = cl /\ on /\ on' = on /\ ack = NoAck /\ file' = file /\ kept' \in {kept, FALSE}
        /\ Request(c, m) \/ (ack' = NoAck /\ kept' = kept)
        /\ Request(c, m) => table' = table
    BY <1>1, HandlesFacts
  <1>3. NoAck \notin Granting
    BY DhcpAssumption DEF NoAck, Granting
  \* A client to which nothing is promised any more, or for which the table has
  \* what it had.
  <1>4. ASSUME NEW b \in Clients,
               \A q \in down'[b] : q.type = "ACK" => q \in down[b],
               promise'[b] \in {promise[b], 0},
               promise'[b] # 0 => \A n \in 0..Lease :
                 Held(table, b, promise[b], n) => Held(table', b, promise[b], n)
        PROVE  Bounded(H, cl'[b]) /\ Sound(H, b, cl'[b], down'[b], promise'[b], Server')
    <2>1. ASSUME promise'[b] # 0, NEW n \in 0..Lease, Covered(b, promise[b], n, Server)
          PROVE  Covered(b, promise[b], n, Server')
      <3>1. promise[b] \in Ips
        BY <1>1
      <3>2. ack # [mac |-> b, ip |-> promise[b]]
        BY <1>2, <1>3, <3>1 DEF Granting
      <3>3. Held(table, b, promise[b], n) /\ (kept => Held(file, b, promise[b], n))
        BY <1>2, <2>1, <3>2 DEF Covered, Server
      <3>4. Held(table', b, promise[b], n)
        BY <1>4, <2>1, <3>3
      <3>5. kept' => Held(file', b, promise[b], n)
        BY <1>2, <3>3
      <3> QED  BY <3>4, <3>5 DEF Covered, Server
    <2> QED  BY <1>2, <1>4, <2>1, KeepsSound
  <1>5. ASSUME NEW types \in SUBSET {"OFFER", "NAK"}, Answers(c, types), NEW b \in Clients,
               NEW q \in down'[b], q.type = "ACK"
        PROVE  q \in down[b]
    BY <1>1, <1>5 DEF Answers, Reply
  <1>6. ASSUME NEW b \in Clients, b # c, NEW types, Answers(c, types)
        PROVE  down'[b] = down[b]
    BY <1>1, <1>6 DEF Answers
  <1>7. ASSUME NEW b \in Clients
        PROVE  Bounded(H, cl'[b]) /\ Sound(H, b, cl'[b], down'[b], promise'[b], Server')
    <2>1. CASE Discover(c, m)
      <3>1. PICK t \in Tbl, ip \in Ips : Offers(c, t, ip)
        BY <1>1, <2>1, DiscoverOffers
      <3>2. \A q \in down'[b] : q.type = "ACK" => q \in down[b]
        BY <1>5, <3>1 DEF Offers
      <3>3. Static[c] # 0 => promise[c] = 0
        BY DEF HInv, Sound
      <3>4. promise'[b] \in {promise[b], 0} /\ (b = c => promise'[b] = 0)
        BY <1>1, <3>1, <3>3 DEF Offers
      <3>5. promise'[b] # 0 => \A n \in 0..Lease :
              Held(table, b, promise[b], n) => Held(table', b, promise[b], n)
        BY <1>1, <3>1, <3>4, OffersKeep
      <3> QED  BY <1>4, <3>2, <3>4, <3>5
    <2>2. CASE Request(c, m)
      <3>1. table' = table /\ (Acks(c, m.ip) \/ Naks(c))
        BY <1>1, <1>2, <2>2, RequestAnswers
      <3>2. CASE Naks(c)
        <4>1. promise' = promise
          BY <3>2 DEF Naks
        <4>2. \A q \in down'[b] : q.type = "ACK" => q \in down[b]
          BY <1>5, <3>2 DEF Naks
        <4> QED  BY <1>4, <3>1, <4>1, <4>2
      <3>3. CASE Acks(c, m.ip) /\ b # c
        <4>1. down'[b] = down[b] /\ promise'[b] = promise[b]
          BY <1>1, <1>6, <3>3 DEF Acks
        <4> QED  BY <1>4, <3>1, <4>1
      <3>4. CASE Acks(c, m.ip) /\ b = c
        <4> DEFINE ip == m.ip
        <4>1. /\ ip # 0 /\ ip = LeaseOf(c) /\ ack' = [mac |-> c, ip |-> ip] /\ kept' = FALSE
              /\ promise'[b] = IF Reserved(ip) THEN 0 ELSE ip
          BY <1>1, <3>4 DEF Acks
        <4>2. m.ip \in Ips
          BY <1>1, <2>2, RequestAnswers
        <4> HIDE DEF ip
        <4>3. CASE Reserved(ip)
          <5>1. Sound(H, b, cl'[b], down'[b], promise'[b], Server')
            BY <4>1, <4>3 DEF Sound
          <5> QED  BY <1>2, <5>1 DEF HInv
        <4>4. CASE ~Reserved(ip)
          <5>1. Static[c] = 0
            BY <4>1, <4>4 DEF LeaseOf, Reserved
          <5>2. ip \in Pool
            BY <4>1, <4>2, <4>4 DEF Ips, Reserved, ip
          <5>3. \A n : Covered(b, ip, n, Server')
            BY <3>4, <4>1 DEF Covered, Server
          <5>4. Server'.o
            BY <1>2 DEF Server
          <5>5. Sound(H, b, cl'[b], down'[b], promise'[b], Server')
            BY <3>4, <4>1, <4>4, <5>1, <5>2, <5>3, <5>4 DEF Sound
          <5> QED  BY <1>2, <5>5 DEF HInv
        <4> QED  BY <4>3, <4>4
      <3> QED  BY <3>1, <3>2, <3>3, <3>4
    <2>3. CASE Decline(c, m) \/ Release(c, m)
      <3>1. Forgotten(c) /\ down' = down
        BY <1>1, <2>3, GivesUp DEF Decline, Release
      <3>2. CASE UNCHANGED <<table, promise>>
        BY <1>4, <3>1, <3>2
      <3>3. CASE promise' = [promise EXCEPT ![c] = 0] /\ b = c
        BY <1>1, <1>4, <3>1, <3>3
      <3>4. CASE /\ promise' = [promise EXCEPT ![c] = 0] /\ b # c
                 /\ table' = table \/ \E s \in 1..MaxLeases : Yields(c, s)
        <4>1. promise'[b] = promise[b]
          BY <1>1, <3>4
        <4>2. ASSUME NEW n \in 0..Lease, Held(table, b, promise[b], n)
              PROVE  Held(table', b, promise[b], n)
          <5>1. CASE table' = table
            BY <4>2, <5>1
          <5>2. ASSUME NEW s \in 1..MaxLeases, Yields(c, s)
                PROVE  Held(table', b, promise[b], n)
            <6>1. \A r \in 1..MaxLeases : r # s => table'[r] = table[r]
              BY <1>1, <5>2 DEF Yields, Tbl
            <6>2. table[s].mac # b
              BY <3>4, <5>2 DEF Yields
            <6> QED  BY <4>2, <6>1, <6>2 DEF Held
          <5> QED  BY <3>4, <5>1, <5>2
        <4> QED  BY <1>4, <3>1, <4>1, <4>2
      <3> QED  BY <3>1, <3>2, <3>3, <3>4 DEF Forgotten
    <2> QED  BY <2>1, <2>2, <2>3 DEF Handles
  <1> QED  BY <1>7 DEF HInv

LEMMA FileSound ==
  ASSUME NEW H, Timely(H), HInv(H), IInv', Grant \/ WriteLeases \/ ServerStops \/ ServerStarts
  PROVE  HInv(H)'
  <1>1. /\ IInv /\ TInv /\ promise \in [Clients -> Ips]
        /\ table \in Tbl /\ Unique(table) /\ file \in Tbl /\ Unique(file) /\ on \in BOOLEAN
        /\ kept \in BOOLEAN /\ ack \in Granting \cup {NoAck}
    BY TypeOKDef DEF HInv, IInv, TInv
  <1>2. cl' = cl /\ down' = down
    BY DEF Grant, WriteLeases, ServerStops, ServerStarts
  <1>3. ASSUME NEW b \in Clients, promise'[b] # 0
        PROVE  promise'[b] = promise[b] /\ promise[b] # 0
    BY <1>1, <1>3 DEF Grant, WriteLeases, ServerStops, ServerStarts, NoPromises
  <1>4. NoAck \notin Granting
    BY DhcpAssumption DEF NoAck, Granting
  <1> SUFFICES ASSUME NEW b \in Clients
               PROVE  Bounded(H, cl'[b]) /\ Sound(H, b, cl'[b], down'[b], promise'[b], Server')
    BY DEF HInv
  <1> DEFINE p == promise[b]
             Now(n) == ack = [mac |-> b, ip |-> p] \/ Held(table, b, p, n)
  <1>5. SUFFICES ASSUME promise'[b] # 0
                 PROVE  /\ on' \/ kept'
                        /\ \A n \in 0..Lease : Covered(b, p, n, Server) => Covered(b, p, n, Server')
    <2>1. promise'[b] \in {promise[b], 0}
      BY <1>3
    <2> QED  BY <1>2, <1>5, <2>1, KeepsSound
  <1>6. /\ p # 0 /\ p \in Ips /\ Static[b] = 0 /\ p \in Pool /\ ~Reserved(p) /\ (on \/ kept)
    BY <1>1, <1>3, <1>5 DEF HInv, Sound, Server
  <1>7. ASSUME NEW n \in 0..Lease, Covered(b, p, n, Server), on
        PROVE  Now(n) /\ (kept => Held(file, b, p, n))
    BY <1>7 DEF Covered, Server
  \* What the table is, or is about to be.
  <1> DEFINE t == IF ack = NoAck THEN table ELSE Granted
  <1>8. ASSUME NEW n \in 0..Lease, Now(n)
        PROVE  Held(t, b, p, n)
    <2>1. CASE ack = NoAck
      <3>1. ack # [mac |-> b, ip |-> p]
        BY <1>4, <1>6, <2>1 DEF Granting
      <3> QED  BY <1>8, <2>1, <3>1
    <2>2. CASE ack # NoAck
      <3>1. Held(Granted, b, p, n)
        BY <1>1, <1>6, <1>8, <2>2, GrantHeld
      <3> QED  BY <2>2, <3>1
    <2> QED  BY <2>1, <2>2
  <1>9. t \in Tbl
    BY <1>1, GrantedFacts DEF IInv
  <1> HIDE DEF t, p, Now
  <1>10. ASSUME Stored(t), NEW n \in 0..Lease, Covered(b, p, n, Server), on, kept'
         PROVE  Held(file', b, p, n)
    BY <1>6, <1>7, <1>8, <1>9, <1>10, StoredHeld
  <1>11. CASE Grant \/ WriteLeases
    <2>1. on /\ on' = on /\ table' = t /\ Stored(t)
      <3>1. CASE Grant
        <4>1. Saves(table') /\ table' = t /\ on /\ on' = on
          BY <3>1 DEF Grant, t
        <4> QED  BY <1>1, <4>1, SavesStored
      <3>2. CASE WriteLeases
        <4>1. Saves(table) /\ table' = table /\ table = t /\ on /\ on' = on
          BY <3>2 DEF WriteLeases, t
        <4> QED  BY <1>1, <4>1, SavesStored
      <3> QED  BY <1>11, <3>1, <3>2
    <2>2. ASSUME NEW n \in 0..Lease, Covered(b, p, n, Server)
          PROVE  Covered(b, p, n, Server')
      <3>1. Held(table', b, p, n)
        BY <1>7, <1>8, <2>1, <2>2
      <3>2. kept' => Held(file', b, p, n)
        BY <1>10, <2>1, <2>2
      <3> QED  BY <3>1, <3>2 DEF Covered, Server
    <2> QED  BY <2>1, <2>2
  <1>12. CASE ServerStops
    <2>1. on /\ on' = FALSE /\ Stored(t) /\ kept'
      <3>1. Stored(t)
        BY <1>12 DEF ServerStops, Stored, t
      <3>2. kept'
        BY <1>1, <1>5, <1>12 DEF ServerStops, NoPromises
      <3> QED  BY <1>12, <3>1, <3>2 DEF ServerStops
    <2>2. ASSUME NEW n \in 0..Lease, Covered(b, p, n, Server)
          PROVE  Covered(b, p, n, Server')
      <3>1. Held(file', b, p, n)
        BY <1>10, <2>1, <2>2
      <3> QED  BY <2>1, <3>1 DEF Covered, Server
    <2> QED  BY <2>1, <2>2
  <1>13. CASE ServerStarts
    <2>1. ~on /\ on' = TRUE /\ table' = Loaded /\ file' = file /\ kept' = kept
      BY <1>13 DEF ServerStarts, storage
    <2>2. ASSUME NEW n \in 0..Lease, Covered(b, p, n, Server)
          PROVE  Covered(b, p, n, Server')
      <3>1. Held(file, b, p, n)
        BY <1>6, <2>1, <2>2 DEF Covered, Server
      <3>2. PICK j \in 1..MaxLeases : file[j].mac = b /\ file[j].ip = p /\ file[j].left >= n
        BY <3>1 DEF Held
      <3>3. b # Zero /\ file[j].left >= 0
        <4>1. file[j].left \in Int /\ n >= 0 /\ n \in Int
          BY <1>1, EntryFacts, Numbers DEF Tbl
        <4> QED  BY <3>2, <4>1, DhcpAssumption
      <3>4. Loads(file[j])
        BY <1>6, <3>2 DEF Loads
      <3>5. PICK s \in 1..MaxLeases : Loaded[s] = file[j]
        BY <1>1, <3>2, <3>3, <3>4, LoadedKeeps
      <3>6. Held(table', b, p, n)
        BY <2>1, <3>2, <3>5 DEF Held
      <3>7. kept' => Held(file', b, p, n)
        BY <2>1, <3>1
      <3> QED  BY <3>6, <3>7 DEF Covered, Server
    <2> QED  BY <2>1, <2>2
  <1> QED  BY <1>11, <1>12, <1>13

\* What is left of a lease shrinks with the client's time.
LEMMA TickCovered ==
  ASSUME IInv, Tick, NEW c \in Clients, NEW p, NEW n \in Nat, NEW m \in Int, m = n + 1,
         Covered(c, p, m, Server)
  PROVE  Covered(c, p, n, Server')
  <1>1. on' = on /\ ack' = ack /\ TInv
    BY DEF Tick, IInv
  <1>2. ASSUME Held(table, c, p, m)  PROVE  Held(table', c, p, n)
    <2>1. PICK s \in 1..MaxLeases : table[s].mac = c /\ table[s].ip = p /\ table[s].left >= m
      BY <1>2 DEF Held
    <2>2. /\ table'[s].mac = table[s].mac /\ table'[s].ip = table[s].ip /\ table[s].left \in Int
          /\ table'[s].left = Less(table[s].left, Past)
      BY <1>1, TickTable
    <2>3. table'[s].left >= n
      BY <2>1, <2>2, Numbers DEF Less
    <2> QED  BY <2>1, <2>2, <2>3 DEF Held
  <1>3. ASSUME kept', kept => Held(file, c, p, m)  PROVE  Held(file', c, p, n)
    <2>1. /\ kept' = kept
          /\ \A s \in 1..MaxLeases :
               /\ file'[s].mac = file[s].mac /\ file'[s].ip = file[s].ip
               /\ file[s].left \in Int /\ file'[s].left = Less(file[s].left, 0)
      BY <1>1, <1>3, TickFile
    <2>2. PICK s \in 1..MaxLeases : file[s].mac = c /\ file[s].ip = p /\ file[s].left >= m
      BY <1>3, <2>1 DEF Held
    <2>3. file'[s].left >= n
      BY <2>1, <2>2 DEF Less
    <2> QED  BY <2>1, <2>2, <2>3 DEF Held
  <1> QED  BY <1>1, <1>2, <1>3 DEF Covered, Server

LEMMA TickSound ==
  ASSUME NEW H, Timely(H), HInv(H), IInv', Tick
  PROVE  HInv(H)'
  <1>1. IInv /\ TInv /\ Lease \in Nat /\ promise \in [Clients -> Ips]
    BY TypeOKDef, Numbers DEF HInv, IInv, TInv
  <1> SUFFICES ASSUME NEW c \in Clients
               PROVE  Bounded(H, cl'[c]) /\ Sound(H, c, cl'[c], down'[c], promise'[c], Server')
    BY DEF HInv
  <1> DEFINE k == cl[c]
             l == cl'[c]
             p == promise[c]
  <1>2. /\ k \in Ctls /\ Bare(k) /\ Bounded(H, k) /\ Sound(H, c, k, down[c], p, Server)
        /\ down[c] \in SUBSET Replies
    BY <1>1, Fields DEF HInv
  <1>3. /\ l = [k EXCEPT !.wait = Less(@, 0)] /\ ~Due(c) /\ down'[c] = Aged(down[c])
        /\ \A m \in down[c] : m.age < Delay
    BY DEF Tick
  <1>4. /\ l.state = k.state /\ l.ip = k.ip /\ l.requested_ip = k.requested_ip
        /\ l.timeout = k.timeout /\ l.wait = Less(k.wait, 0)
    BY <1>2, <1>3 DEF Ctls
  <1>5. k.state \in Bindings \cup {"CHECKING"} =>
          Rest(H, k) \in Nat /\ Rest(H, l) \in Nat /\ Rest(H, k) \in Int /\ Rest(H, k) = Rest(H, l) + 1
    <2> SUFFICES ASSUME k.state \in Bindings \cup {"CHECKING"}
                 PROVE  Rest(H, k) \in Nat /\ Rest(H, l) \in Nat /\ Rest(H, k) = Rest(H, l) + 1
      OBVIOUS
    <2>1. k.state # "RELEASED" /\ k.state # "EXITED"
      BY StateNames
    <2>2. k.wait \in Nat /\ k.wait # 0
      BY <1>2, <1>3, <2>1, CtlFacts DEF Due, Running
    <2>3. H[k.timeout] \in Nat /\ H[BoundTimeout] \in Nat /\ BoundTimeout \in Nat
      BY <1>2, RestType, BoundType
    <2>4. l.wait = k.wait - 1
      BY <1>4, <2>2 DEF Less
    <2> HIDE DEF k, l
    <2>5. CASE k.state = "CHECKING"
      <3>1. /\ Rest(H, k) = k.wait + (BoundTimeout + H[BoundTimeout])
            /\ Rest(H, l) = l.wait + (BoundTimeout + H[BoundTimeout])
        BY <1>4, <2>5 DEF Rest
      <3> QED  BY <2>2, <2>3, <2>4, <3>1
    <2>6. CASE k.state # "CHECKING"
      <3>1. Rest(H, k) = k.wait + H[k.timeout] /\ Rest(H, l) = l.wait + H[k.timeout]
        BY <1>4, <2>6 DEF Rest
      <3> QED  BY <2>2, <2>3, <2>4, <3>1
    <2> QED  BY <2>5, <2>6
  <1>6. promise'[c] # 0 => promise'[c] = p
    BY <1>1, TickFile DEF NoPromises
  <1> HIDE DEF k, l
  <1>7. Bounded(H, l)
    BY <1>1, <1>2, <1>4, <1>5 DEF Bounded
  <1>8. Sound(H, c, l, down'[c], promise'[c], Server')
    <2> SUFFICES ASSUME promise'[c] # 0
                 PROVE  Sound(H, c, l, down'[c], promise'[c], Server')
      BY DEF Sound
    <2>1. /\ p # 0 /\ promise'[c] = p /\ Static[c] = 0 /\ p \in Pool /\ ~Reserved(p)
          /\ Server.o \/ Server.k
      BY <1>2, <1>6 DEF Sound
    <2>2. Server'.o \/ Server'.k
      <3>1. on \/ kept
        BY <2>1 DEF Server
      <3>2. on' = on /\ (~on => kept' = kept)
        BY <1>1, <2>1, TickFile DEF Tick, NoPromises
      <3> QED  BY <3>1, <3>2 DEF Server
    <2> HIDE DEF p
    <2>3. Relies(l, p) => Covered(c, p, Rest(H, l), Server')
      <3> SUFFICES ASSUME Relies(l, p)
                   PROVE  Covered(c, p, Rest(H, l), Server')
        OBVIOUS
      <3>1. Relies(k, p)
        BY <1>4 DEF Relies
      <3>2. k.state \in Bindings \cup {"CHECKING"}
        <4>1. k.state \in States
          BY <1>2, CtlFacts
        <4> QED  BY <1>2, <2>1, <3>1, <4>1, StateNames DEF Relies, Bare
      <3>3. Covered(c, p, Rest(H, k), Server)
        BY <1>2, <2>1, <3>1 DEF Sound
      <3> QED  BY <1>1, <1>5, <3>2, <3>3, TickCovered
    <2>4. ASSUME NEW q \in down'[c], q.type = "ACK", q.ip = p
          PROVE  Covered(c, p, Lease - q.age, Server')
      <3>1. PICK m \in down[c] : q.type = m.type /\ q.ip = m.ip /\ q.age = m.age + 1
        BY <1>2, <1>3, <2>4, AgedFacts
      <3>2. Covered(c, p, Lease - m.age, Server)
        BY <1>2, <2>1, <2>4, <3>1 DEF Sound
      <3>3. /\ m.age \in Nat /\ m.age < Delay /\ Delay <= Lease /\ Delay \in Nat
        <4>1. m.age \in Nat /\ m.age < Delay /\ Delay \in Nat
          BY <1>2, <1>3, AckLeft, DhcpAssumption
        <4>2. BoundTimeout \in Nat /\ H[BoundTimeout] \in Nat /\ ArpTime \in Nat
          BY <1>2, RestType, BoundType, DhcpAssumption
        <4>3. BoundTimeout + H[BoundTimeout] + Delay + ArpTime <= Lease
          BY DEF Timely
        <4> QED  BY <1>1, <4>1, <4>2, <4>3
      <3>4. /\ Lease - q.age \in Nat /\ Lease - m.age \in Int /\ Lease - m.age = (Lease - q.age) + 1
        BY <1>1, <3>1, <3>3
      <3> QED  BY <1>1, <3>2, <3>4, TickCovered
    <2> QED  BY <2>1, <2>2, <2>3, <2>4 DEF Sound
  <1> QED  BY <1>7, <1>8 DEF l

LEMMA HInvInit ==
  ASSUME NEW H, Timely(H), Init
  PROVE  HInv(H)
  <1>1. IInv
    BY IInvInit
  <1>2. ASSUME NEW c \in Clients
        PROVE  Bounded(H, cl[c]) /\ Sound(H, c, cl[c], down[c], promise[c], Server)
    <2>1. cl[c].state = "INIT_SELECTING" /\ promise[c] = 0
      BY DEF Init, Starting, NoPromises
    <2> QED  BY <2>1, StateNames DEF Bounded, Sound
  <1> QED  BY <1>1, <1>2 DEF HInv

LEMMA HInvNext ==
  ASSUME NEW H, Timely(H), HInv(H), [Next]_vars
  PROVE  HInv(H)'
  <1>1. IInv /\ IInv' /\ TInv
    BY IInvNext DEF HInv, IInv
  <1>2. ASSUME NEW c \in Clients, NEW m \in up[c], Handles(c, m)  PROVE  HInv(H)'
    BY <1>1, <1>2, HandlesSound
  <1>3. ASSUME NEW c \in Clients, ClientStep(c)  PROVE  HInv(H)'
    <2>1. Does(c)
      BY <1>1, <1>3, ClientDoes
    <2> QED  BY <1>1, <2>1, DoesSound
  <1>4. CASE Grant \/ WriteLeases \/ ServerStops \/ ServerStarts
    BY <1>1, <1>4, FileSound
  <1>5. CASE Tick
    BY <1>1, <1>5, TickSound
  <1>6. CASE UNCHANGED vars
    <2>1. cl' = cl /\ down' = down /\ promise' = promise /\ Server' = Server
      BY <1>6 DEF vars, server, storage, Server
    <2> QED  BY <1>1, <2>1 DEF HInv
  <1> QED  BY <1>2, <1>3, <1>4, <1>5, <1>6, NextCases

\* What the invariant says of a promise that a client relies on.
LEMMA HInvCovered ==
  ASSUME NEW H, Timely(H), HInv(H), NEW c \in Clients,
         Running(c), promise[c] # 0, Relied(c) = promise[c]
  PROVE  /\ ~Reserved(promise[c])
         /\ \/ ack = [mac |-> c, ip |-> promise[c]]
            \/ \E s \in 1..MaxLeases : LET e == IF on THEN table[s] ELSE file[s]
                                       IN e.mac = c /\ e.ip = promise[c] /\ ~Expired(e)
  <1> DEFINE p == promise[c]
             n == Rest(H, cl[c])
  <1>1. /\ cl[c] \in Ctls /\ table \in Tbl /\ file \in Tbl /\ on \in BOOLEAN
        /\ Sound(H, c, cl[c], down[c], p, Server)
    BY TypeOKDef, Fields DEF HInv, IInv, TInv
  <1>2. n \in Nat /\ Relies(cl[c], p)
    BY <1>1, RestType DEF Relies, Relied, Running
  <1>3. ~Reserved(p) /\ (on \/ kept) /\ Covered(c, p, n, Server)
    BY <1>1, <1>2 DEF Sound, Server
  <1> HIDE DEF n, p
  <1>4. ASSUME NEW t \in Tbl, Held(t, c, p, n)
        PROVE  \E s \in 1..MaxLeases : t[s].mac = c /\ t[s].ip = p /\ ~Expired(t[s])
    <2>1. PICK s \in 1..MaxLeases : t[s].mac = c /\ t[s].ip = p /\ t[s].left >= n
      BY <1>4 DEF Held
    <2>2. t[s].left \in Int
      BY EntryFacts DEF Tbl
    <2> QED  BY <1>2, <2>1, <2>2 DEF Expired
  <1>5. CASE on
    <2>1. ack = [mac |-> c, ip |-> p] \/ Held(table, c, p, n)
      BY <1>3, <1>5 DEF Covered, Server
    <2> QED  BY <1>1, <1>3, <1>4, <1>5, <2>1 DEF p
  <1>6. CASE ~on
    <2>1. Held(file, c, p, n)
      BY <1>3, <1>6 DEF Covered, Server
    <2> QED  BY <1>1, <1>3, <1>4, <1>6, <2>1 DEF p
  <1> QED  BY <1>5, <1>6

\* As long as a client relies on the address of the last ACK - configured, or
\* being checked - the server's table has an entry for it that has not expired,
\* or is about to get it, or the lease file has one while the server is down:
\* whatever is lost, repeated or late, and wherever the server is stopped or
\* fails to write.  The promise ends when the server handles a DISCOVER, DECLINE
\* or RELEASE of this client, and when it stops without a complete file.  For
\* all lease times, timeouts and delays that are Timely.
THEOREM HeldCorrect ==
  ASSUME NEW H, Timely(H)
  PROVE  Spec => []HeldIsLeased
  <1>1. Init => HInv(H)
    BY HInvInit
  <1>2. HInv(H) /\ [Next]_vars => HInv(H)'
    BY HInvNext
  <1>3. HInv(H) => HeldIsLeased
    BY HInvCovered DEF HeldIsLeased
  <1> QED  BY <1>1, <1>2, <1>3, PTL DEF Spec

\* The times that a lease of the code has: it is long enough for its half not to
\* be raised, and messages and the check of the address take a second, or two if
\* the half is rounded down.
LEMMA PromptTimely ==
  ASSUME Lease >= 2 * (RenewMin + 1),
         Delay + ArpTime <= 1 \/ (Delay + ArpTime = 2 /\ Lease % 2 = 1)
  PROVE  Timely([t \in Nat |-> IF t = 0 THEN 0 ELSE t - 1])
  <1> DEFINE H == [t \in Nat |-> IF t = 0 THEN 0 ELSE t - 1]
  <1>1. Lease \in Nat /\ RenewMin \in Nat /\ Delay \in Nat /\ ArpTime \in Nat
    BY DhcpAssumption
  <1>2. \A t \in Nat : /\ Half(t) \in Nat /\ 2 * Half(t) <= t /\ t <= 2 * Half(t) + 1
                       /\ (t % 2 = 1 => t = 2 * Half(t) + 1)
    BY DEF Half
  <1>3. ASSUME NEW t \in Nat  PROVE  Half(t) + H[Half(t)] <= H[t]
    <2>1. Half(t) \in Nat /\ 2 * Half(t) <= t
      BY <1>2
    <2>2. H[t] = (IF t = 0 THEN 0 ELSE t - 1) /\ H[Half(t)] = (IF Half(t) = 0 THEN 0 ELSE Half(t) - 1)
      BY <2>1
    <2> HIDE DEF H
    <2> QED  BY <2>1, <2>2
  <1>4. BoundTimeout = Half(Lease) /\ BoundTimeout \in Nat /\ BoundTimeout >= 1
    BY <1>1, <1>2 DEF BoundTimeout
  <1>5. H[BoundTimeout] = BoundTimeout - 1
    BY <1>4
  <1>6. BoundTimeout + H[BoundTimeout] + Delay + ArpTime <= Lease
    <2>1. /\ 2 * BoundTimeout <= Lease /\ (Lease % 2 = 1 => Lease = 2 * BoundTimeout + 1)
      BY <1>1, <1>2, <1>4
    <2> HIDE DEF H
    <2> QED  BY <1>1, <1>4, <1>5, <2>1
  <1>7. H \in [Nat -> Nat] /\ \A s, t \in Nat : s <= t => H[s] <= H[t]
    OBVIOUS
  <1> HIDE DEF H
  <1>8. Timely(H)
    BY <1>3, <1>6, <1>7 DEF Timely
  <1> QED  BY <1>8 DEF H

\* The same without a function: with lease times that the client does not raise,
\* and messages and address checks that together take a second, or two if the
\* lease time is odd, what a client relies on is leased to it while the promise
\* lasts.
THEOREM HeldPrompt ==
  ASSUME Lease >= 2 * (RenewMin + 1),
         Delay + ArpTime <= 1 \/ (Delay + ArpTime = 2 /\ Lease % 2 = 1)
  PROVE  Spec => []HeldIsLeased
  BY PromptTimely, HeldCorrect

\* What it is all for: two clients that run and rely on what the server promised
\* them - and has had no reason to forget - do not rely on one address.
Relying(c) == Running(c) /\ promise[c] # 0 /\ Relied(c) = promise[c]
OneHolder == \A b, c \in Clients : b # c /\ Relying(b) /\ Relying(c) => Relied(b) # Relied(c)

LEMMA HInvOneHolder ==
  ASSUME NEW H, Timely(H), HInv(H)
  PROVE  OneHolder
  <1> SUFFICES ASSUME NEW b \in Clients, NEW c \in Clients, b # c, Relying(b), Relying(c),
                      Relied(b) = Relied(c)
               PROVE  FALSE
    BY DEF OneHolder
  <1>1. PICK p : p = promise[b]
    OBVIOUS
  <1>2. p # 0 /\ p = promise[c] /\ Unique(table) /\ Unique(file) /\ AckFits /\ b # Zero /\ c # Zero
    BY <1>1, DhcpAssumption DEF Relying, HInv, IInv, TInv
  <1> DEFINE Has(d) == \E s \in 1..MaxLeases : LET e == IF on THEN table[s] ELSE file[s]
                                               IN e.mac = d /\ e.ip = p /\ ~Expired(e)
  <1>3. ~Reserved(p) /\ (ack = [mac |-> b, ip |-> p] \/ Has(b))
    BY <1>1, HInvCovered DEF Relying
  <1>4. ack = [mac |-> c, ip |-> p] \/ Has(c)
    BY <1>2, HInvCovered DEF Relying
  <1>5. ~(Has(b) /\ Has(c))
    BY <1>2 DEF Unique
  <1>6. ASSUME NEW d \in Clients, NEW e \in Clients, d # e, ack = [mac |-> d, ip |-> p], Has(e)
        PROVE  FALSE
    <2>1. ack # NoAck /\ ack.mac = d /\ ack.ip = p
      BY <1>6, DhcpAssumption DEF NoAck
    <2>2. on /\ \E s \in 1..MaxLeases : table[s].mac = d /\ table[s].ip = p
      BY <1>2, <1>3, <2>1 DEF AckFits
    <2> QED  BY <1>2, <1>6, <2>2, DhcpAssumption DEF Unique
  <1>7. ~(ack = [mac |-> b, ip |-> p] /\ ack = [mac |-> c, ip |-> p])
    <2>1. [mac |-> b, ip |-> p].mac = b /\ [mac |-> c, ip |-> p].mac = c
      OBVIOUS
    <2> QED  BY <2>1
  <1> HIDE DEF Has
  <1> QED  BY <1>3, <1>4, <1>5, <1>6, <1>7

\* No address is relied on by two clients at the same time on the strength of
\* promises that the server still knows of.
THEOREM OneHolderCorrect ==
  ASSUME NEW H, Timely(H)
  PROVE  Spec => []OneHolder
  <1>1. Init => HInv(H)
    BY HInvInit
  <1>2. HInv(H) /\ [Next]_vars => HInv(H)'
    BY HInvNext
  <1>3. HInv(H) => OneHolder
    BY HInvOneHolder
  <1> QED  BY <1>1, <1>2, <1>3, PTL DEF Spec
=============================================================================
