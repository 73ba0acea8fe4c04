-------------------------------- MODULE Dhcp --------------------------------
(***************************************************************************)
(* networking/udhcp: udhcpc processes (dhcpc.c) and one udhcpd (dhcpd.c)   *)
(* on a network that loses, repeats and reorders messages.                 *)
(*                                                                         *)
(* Time is discrete.  A lease time is what is left of it; how long it has  *)
(* been over is counted up to Horizon.  Messages to the server may be late *)
(* by any time and arrive more than once; those to a client take Delay at  *)
(* most.  Addresses and slots of the lease table are numbers; 0 is no      *)
(* address.                                                                *)
(***************************************************************************)
EXTENDS Integers, Sequences, FiniteSets

CONSTANTS
  Clients,       \* the hosts that run udhcpc
  start_ip,      \* the pool of addresses
  end_ip,
  Skipped,       \* those that end in 0 or 255, and the server's own
  Squatted,      \* those that foreign hosts use
  Static,        \* static_lease: the address reserved for a client, or 0
  Requests,      \* what a client may ask for with -r
  MaxLeases,     \* max_leases
  Lease,         \* the lease time
  OfferTime,     \* how long an offered address is reserved
  ConflictTime,  \* and one that somebody else or a declining client reports
  RenewMin,      \* 60: below it, renewals are broadcast
  Retries,       \* discover_retries, if not 0, no limit
  SelectTries,   \* 3: SELECTs sent for one offer
  Delay,         \* how long a message to a client takes at most
  ArpTime,       \* arpping_ms: how long a client with -a waits for an answer
  FileTime,      \* 12 hours: how old the lease file may be
  Horizon,       \* bound: how long an expired lease is told from older ones
  InFlight,      \* bound: messages of a client on their way, in a direction
  MaxFaults,     \* bound: signals to clients, late or repeated messages to the
                 \* server, its stops and failed writes
  Options        \* of the clients: "a", "n", "R"

Pool == start_ip..end_ip
Zero == "zero"      \* the mac of an entry that is nobody's
Null == "null"      \* chaddr == NULL

ASSUME DhcpAssumption ==
  /\ start_ip \in Nat \ {0} /\ end_ip \in Nat /\ start_ip <= end_ip
  /\ Skipped \subseteq Pool /\ Squatted \subseteq Pool
  /\ Static \in [Clients -> Nat] /\ Requests \subseteq Pool \cup {0}
  /\ {Lease, OfferTime, ConflictTime, RenewMin, Delay, ArpTime, FileTime} \subseteq Nat
  /\ {Retries, SelectTries, Horizon, InFlight} \subseteq Nat \ {0} /\ MaxLeases \in 0..(end_ip - start_ip + 1)
  /\ MaxFaults \in Nat /\ Options \subseteq {"a", "n", "R"}
  /\ Zero \notin Clients /\ Null \notin Clients

VARIABLES
  cl,      \* the clients
  up,      \* the messages to the server, by client
  down,    \* the messages to the client, those with another xid left out
  table,   \* g_leases
  ack,     \* in send_ACK(): what has been sent and is not in the table yet
  file,    \* what read_leases() would find in the lease file
  written, \* how long ago that was
  on,      \* whether the server runs
  faults,  \* faults so far
  promise, \* history: the address that the last ACK gave the client, or 0 when
           \* the server has had reason to forget it
  kept     \* history: the file was written completely after the last ACK

storage == <<file, written, kept>>
server == <<table, ack, on, storage, promise>>
vars == <<cl, up, down, server, faults>>

\* The client's states.  CHECKING: in arpping(), after an ACK.  EXITED: there
\* is no udhcpc.
Bindings == {"BOUND", "RENEWING", "RENEW_REQUESTED", "REBINDING"}
Listening == {"INIT_SELECTING", "REQUESTING", "RENEWING", "RENEW_REQUESTED", "REBINDING"}
Running(c) == cl[c].state # "EXITED"

\* fresh: the message will be answered with the client's current xid.
Msg(type, ip) == [type |-> type, ip |-> ip, late |-> FALSE,
                  fresh |-> type \notin {"DECLINE", "RELEASE"}]
Stale(msgs) == {[m EXCEPT !.fresh = FALSE] : m \in msgs}
Reply(type, ip) == [type |-> type, ip |-> ip, age |-> 0]
Fits(msgs) == Cardinality(msgs) <= InFlight

NoAck == [mac |-> Null, ip |-> 0]
NoPromises == [c \in Clients |-> 0]

Past == -Horizon
Empty == [mac |-> Zero, ip |-> 0, left |-> Past]
NoLeases == [s \in 1..MaxLeases |-> Empty]

\* What write_leases() has written after n slots: what is left of each lease,
\* at least 0.  Empty entries are not in the file; read_leases() does not see
\* them.
Written(t, n) == [s \in DOMAIN t |-> IF s > n THEN Empty
                                    ELSE [t[s] EXCEPT !.left = IF @ < 0 THEN 0 ELSE @]]

\* ip: the address on the interface; timeout, and what is left of it; n: -n,
\* which counts until there is a lease.
Starting(req) == [state |-> "INIT_SELECTING", ip |-> 0, requested_ip |-> req,
                  packet_num |-> 0, timeout |-> 0, wait |-> 0,
                  n |-> "n" \in Options]

\* Nothing is left of a client that ends, except for the address.
Exited(ip) == [state |-> "EXITED", ip |-> ip, requested_ip |-> 0,
               packet_num |-> 0, timeout |-> 0, wait |-> 0, n |-> FALSE]

Init ==
  /\ \E req \in [Clients -> Requests] : cl = [c \in Clients |-> Starting(req[c])]
  /\ up = [c \in Clients |-> {}] /\ down = [c \in Clients |-> {}]
  /\ table = NoLeases /\ ack = NoAck /\ on = TRUE
  /\ file = NoLeases /\ written = 0 /\ kept = TRUE /\ promise = NoPromises
  /\ faults = 0

-----------------------------------------------------------------------------
(* The lease table.                                                        *)
Expired(entry) == entry.left < 0
Slots(t) == 1..Len(t)
Least(S) == CHOOSE x \in S : \A y \in S : x <= y

\* Mutant of ClearLeases: only by mac.
ClearLeases_Mac(t, mac, ip) ==
  [s \in Slots(t) |-> IF t[s].mac = mac THEN Empty ELSE t[s]]
\* The zeroed mac of nobody's entries is compared like any other.
ClearLeases(t, mac, ip) ==
  [s \in Slots(t) |-> IF t[s].mac = mac \/ t[s].ip = ip THEN Empty ELSE t[s]]

\* oldest_expired_lease(): the last empty slot, else the first of those that
\* expired first; 0: none.
OldestExpired(t) ==
  LET empty == {s \in Slots(t) : t[s].ip = 0}
      old == {s \in Slots(t) : Expired(t[s]) /\ \A r \in Slots(t) : t[s].left <= t[r].left}
  IN CASE empty # {} -> CHOOSE s \in empty : \A r \in empty : r <= s
       [] empty = {} /\ old # {} -> Least(old)
       [] OTHER -> 0

\* What add_lease() makes of the table, and whether there was room.
HasRoom(t, mac, ip) == OldestExpired(ClearLeases(t, mac, ip)) # 0
AddLease(t, mac, ip, left) ==
  LET cleared == ClearLeases(t, mac, ip)
      s == OldestExpired(cleared)
  IN IF s = 0 THEN cleared
     ELSE [cleared EXCEPT ![s] = [mac |-> IF mac = Null THEN Zero ELSE mac, ip |-> ip, left |-> left]]

\* find_lease_by_mac(), find_lease_by_nip(): the first one's slot, or 0.
FirstOf(S) == IF S = {} THEN 0 ELSE Least(S)
FindByMac(t, c) == FirstOf({s \in Slots(t) : t[s].mac = c})
FindByIp(t, ip) == FirstOf({s \in Slots(t) : t[s].ip = ip})

Reserved(ip) == \E c \in Clients : Static[c] = ip

\* arpping(): another host than safe has the address, and answers.  heard: the
\* addresses whose answers arrive.
InUse(ip, safe) == ip \in Squatted \/ \E c \in Clients \ {safe} : cl[c].ip = ip

\* find_free_or_expired_nip(): the first address without an entry for which
\* nobody answers; those in use get an entry on the way, which may take the
\* slot that oldest points to.
TryAddress(c, heard, r, ip) ==
  LET s == FindByIp(r.table, ip)
  IN IF r.ip # 0 \/ ip \in Skipped \/ Reserved(ip) THEN r
     ELSE IF s = 0 /\ ~(ip \in heard /\ InUse(ip, c)) THEN [r EXCEPT !.ip = ip]
     ELSE IF s = 0 THEN [r EXCEPT !.table = AddLease(@, Null, ip, ConflictTime)]
     ELSE IF r.oldest = 0 \/ r.table[s].left < r.table[r.oldest].left THEN [r EXCEPT !.oldest = s]
     ELSE r

Searched(c, heard) ==
  LET r[ip \in (start_ip - 1)..end_ip] ==
        IF ip < start_ip THEN [table |-> table, ip |-> 0, oldest |-> 0]
        ELSE TryAddress(c, heard, r[ip - 1], ip)
  IN r[end_ip]

FindFreeOrExpired(c, heard) ==
  LET r == Searched(c, heard)
  IN IF r.ip # 0 \/ r.oldest = 0 \/ ~Expired(r.table[r.oldest]) THEN r
     ELSE LET ip == r.table[r.oldest].ip
          IN IF ip \in heard /\ InUse(ip, c) THEN [r EXCEPT !.table = AddLease(@, Null, ip, ConflictTime)]
             ELSE [r EXCEPT !.ip = ip]

\* The address that send_offer() settles for, with the table as it is then.
Offered(c, req, heard) ==
  LET s == FindByMac(table, c)
      t == FindByIp(table, req)
  IN CASE s # 0 -> [table |-> table, ip |-> table[s].ip, oldest |-> 0]
       [] s = 0 /\ req \in Pool /\ (t = 0 \/ Expired(table[t])) ->
            [table |-> table, ip |-> req, oldest |-> 0]
       [] OTHER -> FindFreeOrExpired(c, heard)

\* read_leases(): static clients and addresses are left out.
Loads(e) == e.ip \in Pool /\ ~Reserved(e.ip) /\ (e.mac = Zero \/ Static[e.mac] = 0)
Loaded ==
  LET t[s \in 0..MaxLeases] ==
        IF s = 0 THEN NoLeases
        ELSE IF Loads(file[s]) THEN AddLease(t[s - 1], file[s].mac, file[s].ip, file[s].left)
        ELSE t[s - 1]
  IN t[MaxLeases]

-----------------------------------------------------------------------------
(* The server handles a message.                                           *)
Fault == faults < MaxFaults /\ faults' = faults + 1
Takes(c, m, types) ==
  /\ on /\ ack = NoAck /\ m.type \in types
  /\ up' = [up EXCEPT ![c] = @ \ {m}]
\* The client ignores an answer with an old xid.
Answer(c, m, type, ip) ==
  /\ down' = IF m.fresh THEN [down EXCEPT ![c] = @ \cup {Reply(type, ip)}] ELSE down
  /\ Fits(down'[c])
Forgets(c) == promise' = [promise EXCEPT ![c] = 0]

\* The client's lease, static or in the table: its address, or 0.
LeaseOf(c) ==
  IF Static[c] # 0 THEN Static[c]
  ELSE LET s == FindByMac(table, c) IN IF s = 0 THEN 0 ELSE table[s].ip

\* A client that has a lease gets the same address, and OfferTime is all that
\* is left of its lease.
Discover(c, m) ==
  /\ Takes(c, m, {"DISCOVER"})
  /\ IF Static[c] # 0
     THEN Answer(c, m, "OFFER", Static[c]) /\ UNCHANGED <<table, promise>>
     ELSE /\ \E heard \in SUBSET Pool :
               LET o == Offered(c, m.ip, heard)
               IN IF o.ip = 0 THEN table' = o.table /\ UNCHANGED down
                  ELSE /\ table' = AddLease(o.table, c, o.ip, OfferTime)
                       /\ IF HasRoom(o.table, c, o.ip) THEN Answer(c, m, "OFFER", o.ip)
                          ELSE UNCHANGED down
          /\ Forgets(c)
  /\ UNCHANGED <<cl, ack, storage, on, faults>>

\* send_ACK() begins with the message.  An address that static_lease reserves
\* is no promise: read_leases() leaves it out.
SendAck(c, m) ==
  /\ Answer(c, m, "ACK", m.ip)
  /\ ack' = [mac |-> c, ip |-> m.ip]
  /\ promise' = [promise EXCEPT ![c] = IF Reserved(m.ip) THEN 0 ELSE m.ip]
  /\ kept' = FALSE

\* DHCPREQUEST.  SELECT names the server and the address, RENEW has the
\* address in ciaddr and gets no NAK.
Request(c, m) ==
  /\ Takes(c, m, {"SELECT", "RENEW"})
  /\ IF m.ip = LeaseOf(c) /\ m.ip # 0 THEN SendAck(c, m)
     ELSE /\ IF m.type = "SELECT" THEN Answer(c, m, "NAK", 0) ELSE UNCHANGED down
          /\ UNCHANGED <<ack, promise, kept>>
  /\ UNCHANGED <<cl, table, file, written, on, faults>>

\* write_leases() truncates the file and writes it slot by slot.  When it
\* cannot be opened, it stays as it is; nobody is told.
WriteUpTo(t, n) ==
  /\ file' = Written(t, n) /\ written' = 0
  /\ kept' = (n = MaxLeases)
Saves(t) ==
  \/ WriteUpTo(t, MaxLeases) /\ UNCHANGED faults
  \/ /\ Fault
     /\ (\E n \in 0..(MaxLeases - 1) : WriteUpTo(t, n)) \/ UNCHANGED storage

\* The rest of send_ACK().
Granted == AddLease(table, ack.mac, ack.ip, Lease)
Grant ==
  /\ on /\ ack # NoAck /\ ack' = NoAck
  /\ table' = Granted
  /\ Saves(table')
  /\ UNCHANGED <<cl, up, down, on, promise>>

\* What is done to a static lease is forgotten.
Decline(c, m) ==
  /\ Takes(c, m, {"DECLINE"})
  /\ IF Static[c] # 0 \/ m.ip # LeaseOf(c) THEN UNCHANGED <<table, promise>>
     ELSE /\ table' = [table EXCEPT ![FindByMac(table, c)].mac = Zero,
                                    ![FindByMac(table, c)].left = ConflictTime]
          /\ Forgets(c)
  /\ UNCHANGED <<cl, down, ack, storage, on, faults>>

Release(c, m) ==
  /\ Takes(c, m, {"RELEASE"})
  /\ IF Static[c] # 0 \/ m.ip # LeaseOf(c) THEN UNCHANGED <<table, promise>>
     ELSE table' = [table EXCEPT ![FindByMac(table, c)].left = 0] /\ Forgets(c)
  /\ UNCHANGED <<cl, down, ack, storage, on, faults>>

\* auto_time is over, or SIGUSR1.
WriteLeases ==
  /\ on /\ ack = NoAck
  /\ Saves(table)
  /\ UNCHANGED <<cl, up, down, table, ack, on, promise>>

\* SIGTERM, or a crash: at any point of write_leases() or not in it, after the
\* ACK before the lease is in the table or after it.
ServerStops ==
  /\ on /\ Fault
  /\ on' = FALSE /\ table' = NoLeases /\ ack' = NoAck
  /\ \/ UNCHANGED storage
     \/ \E n \in 0..MaxLeases : WriteUpTo(IF ack = NoAck THEN table ELSE Granted, n)
  /\ promise' = IF kept' THEN promise ELSE NoPromises
  /\ UNCHANGED <<cl, up, down>>

ServerStarts ==
  /\ ~on /\ on' = TRUE
  /\ table' = Loaded
  /\ UNCHANGED <<cl, up, down, ack, storage, faults, promise>>

-----------------------------------------------------------------------------
(* The client.                                                             *)
Become(c, upd) == cl' = [cl EXCEPT ![c] = upd]
With(k, state, t) == [k EXCEPT !.state = state, !.timeout = t, !.wait = t]
SendTo(c, type, ip) ==
  /\ up' = [up EXCEPT ![c] = @ \cup {Msg(type, ip)}]
  /\ Fits(up'[c])
\* deconfig, and back to the first state.
Restarted(k, t) == [With(k, "INIT_SELECTING", t) EXCEPT !.ip = 0, !.packet_num = 0]

DiscoverTimeout == 1
TryAgain == 1
Half(t) == t \div 2

\* leasefail
LeaseFails(c) ==
  /\ IF cl[c].n THEN Become(c, Exited(0))
     ELSE Become(c, [With(cl[c], "INIT_SELECTING", TryAgain) EXCEPT !.packet_num = 0])
  /\ UNCHANGED <<up, down>>

TimedOut(c, states) == cl[c].state \in states /\ cl[c].wait = 0

\* The first DISCOVER has a new xid.
NewXid(c) ==
  /\ up' = [up EXCEPT ![c] = Stale(@) \cup {Msg("DISCOVER", cl[c].requested_ip)}]
  /\ down' = [down EXCEPT ![c] = {}]
  /\ Fits(up'[c])

Selecting(c) ==
  /\ TimedOut(c, {"INIT_SELECTING"})
  /\ \/ /\ cl[c].packet_num < Retries
        /\ IF cl[c].packet_num = 0 THEN NewXid(c)
           ELSE SendTo(c, "DISCOVER", cl[c].requested_ip) /\ UNCHANGED down
        /\ Become(c, [With(cl[c], "INIT_SELECTING", DiscoverTimeout) EXCEPT !.packet_num = @ + 1])
     \/ cl[c].packet_num = Retries /\ LeaseFails(c)
  /\ UNCHANGED <<server, faults>>

\* Mutant of Requesting: one SELECT more.
Requesting_More(c) ==
  /\ TimedOut(c, {"REQUESTING"})
  /\ \/ /\ cl[c].packet_num <= SelectTries
        /\ SendTo(c, "SELECT", cl[c].requested_ip) /\ UNCHANGED down
        /\ Become(c, [With(cl[c], "REQUESTING", DiscoverTimeout) EXCEPT !.packet_num = @ + 1])
     \/ cl[c].packet_num > SelectTries /\ LeaseFails(c)
  /\ UNCHANGED <<server, faults>>

Requesting(c) ==
  /\ TimedOut(c, {"REQUESTING"})
  /\ \/ /\ cl[c].packet_num < SelectTries
        /\ SendTo(c, "SELECT", cl[c].requested_ip) /\ UNCHANGED down
        /\ Become(c, [With(cl[c], "REQUESTING", DiscoverTimeout) EXCEPT !.packet_num = @ + 1])
     \/ cl[c].packet_num = SelectTries /\ LeaseFails(c)
  /\ UNCHANGED <<server, faults>>

\* Rebinding, with timeout t: renew by broadcast, or the lease is lost.
Rebind(c, t) ==
  \/ /\ t > 0
     /\ SendTo(c, "RENEW", cl[c].requested_ip)
     /\ Become(c, With(cl[c], "REBINDING", Half(t)))
  \/ /\ t = 0
     /\ Become(c, Restarted(cl[c], 0)) /\ UNCHANGED up

\* Renewing, in the given state: half of the time that is left is waited for an
\* answer.  The unicast message may not be sent.
Renew(c, state, t) ==
  \/ /\ t >= RenewMin
     /\ SendTo(c, "RENEW", cl[c].requested_ip)
     /\ Become(c, With(cl[c], state, Half(t)))
  \/ Rebind(c, t)

Renewing(c) ==
  /\ \/ TimedOut(c, {"BOUND", "RENEWING"}) /\ Renew(c, "RENEWING", cl[c].timeout)
     \/ TimedOut(c, {"RENEW_REQUESTED"}) /\ Renew(c, "RENEW_REQUESTED", cl[c].timeout)
     \/ TimedOut(c, {"REBINDING"}) /\ Rebind(c, cl[c].timeout)
  /\ UNCHANGED <<down, server, faults>>

\* With a timeout of 0 poll() is not called: neither messages nor signals are
\* seen.  Nor are they in arpping(); its end closes the socket.
Polls(c) ==
  /\ Running(c) /\ cl[c].state # "CHECKING"
  /\ cl[c].timeout > 0 \/ cl[c].state = "RELEASED"

\* A message is read, or ignored: sockets are closed while BOUND or RELEASED.
Hears(c, m, types) ==
  /\ Polls(c) /\ m.type \in types
  /\ down' = [down EXCEPT ![c] = @ \ {m}]

Ignores(c, m) ==
  /\ \/ cl[c].state \notin Listening
     \/ (cl[c].state = "INIT_SELECTING") # (m.type = "OFFER")
  /\ down' = [down EXCEPT ![c] = @ \ {m}]
  /\ UNCHANGED <<cl, up, server, faults>>

GetsOffer(c, m) ==
  /\ cl[c].state = "INIT_SELECTING" /\ Hears(c, m, {"OFFER"})
  /\ Become(c, [With(cl[c], "REQUESTING", 0) EXCEPT !.requested_ip = m.ip, !.packet_num = 0])
  /\ UNCHANGED <<up, server, faults>>

\* lease_seconds is at least 2 * 61.  Mutant: timeout is all of it.
BoundTimeout_Whole == Lease
BoundTimeout == Half(IF Lease < 2 * (RenewMin + 1) THEN 2 * (RenewMin + 1) ELSE Lease)

Bound(k, ip) ==
  [With(k, "BOUND", BoundTimeout) EXCEPT !.requested_ip = ip, !.ip = ip, !.n = FALSE]

\* With -a the address is checked first.  The scripts' time is subtracted from
\* the timeout: they take none.
GetsAck(c, m) ==
  /\ cl[c].state \in Listening \ {"INIT_SELECTING"} /\ Hears(c, m, {"ACK"})
  /\ Become(c, IF "a" \in Options
               THEN [With(cl[c], "CHECKING", ArpTime) EXCEPT !.requested_ip = m.ip]
               ELSE Bound(cl[c], m.ip))
  /\ UNCHANGED <<up, server, faults>>

\* Nobody has answered arpping().
Checked(c) ==
  /\ TimedOut(c, {"CHECKING"})
  /\ Become(c, Bound(cl[c], cl[c].requested_ip))
  /\ UNCHANGED <<up, down, server, faults>>

\* Another host has.
Declines(c) ==
  /\ cl[c].state = "CHECKING" /\ InUse(cl[c].requested_ip, c)
  /\ SendTo(c, "DECLINE", cl[c].requested_ip)
  /\ Become(c, [Restarted(cl[c], TryAgain) EXCEPT !.requested_ip = 0])
  /\ UNCHANGED <<down, server, faults>>

GetsNak(c, m) ==
  /\ cl[c].state \in Listening \ {"INIT_SELECTING"} /\ Hears(c, m, {"NAK"})
  /\ Become(c, [Restarted(cl[c], 0) EXCEPT !.requested_ip = 0])
  /\ UNCHANGED <<up, server, faults>>

-----------------------------------------------------------------------------
(* Signals to a client.                                                    *)
\* SIGUSR1: perform_renew()
Usr1(c) ==
  /\ Polls(c) /\ Fault
  /\ \/ /\ cl[c].state \in {"BOUND", "RENEWING", "REBINDING"}
        /\ Renew(c, "RENEW_REQUESTED", IF cl[c].timeout > RenewMin THEN RenewMin ELSE cl[c].timeout)
     \/ /\ cl[c].state \notin {"BOUND", "RENEWING", "REBINDING"}
        /\ Become(c, Restarted(cl[c], 0)) /\ UNCHANGED up
  /\ UNCHANGED <<down, server>>

\* perform_release(), after which the client is k.
Releases(c, k) ==
  /\ Become(c, k)
  /\ IF cl[c].state \in Bindings THEN SendTo(c, "RELEASE", cl[c].requested_ip) ELSE UNCHANGED up

\* SIGUSR2
Usr2(c) ==
  /\ Polls(c) /\ Fault
  /\ Releases(c, [With(cl[c], "RELEASED", 0) EXCEPT !.ip = 0])
  /\ UNCHANGED <<down, server>>

\* SIGTERM: without -R the address stays on the interface.
Term(c) ==
  /\ Polls(c) /\ Fault
  /\ IF "R" \in Options THEN Releases(c, Exited(0))
     ELSE Become(c, Exited(cl[c].ip)) /\ UNCHANGED up
  /\ UNCHANGED <<down, server>>

StartsAgain(c) ==
  /\ ~Running(c)
  /\ \E req \in Requests : Become(c, Starting(req))
  /\ UNCHANGED <<up, down, server, faults>>

-----------------------------------------------------------------------------
(* The network and the clock.                                              *)
Lost(c) ==
  /\ \/ (\E m \in up[c] : up' = [up EXCEPT ![c] = @ \ {m}]) /\ UNCHANGED down
     \/ (\E m \in down[c] : down' = [down EXCEPT ![c] = @ \ {m}]) /\ UNCHANGED up
  /\ UNCHANGED <<cl, server, faults>>

\* The message, or a copy of it, will arrive at some later time.
Strays(c) ==
  /\ Fault
  /\ \E m \in up[c], gone \in BOOLEAN :
       up' = [up EXCEPT ![c] = (IF gone THEN @ \ {m} ELSE @) \cup {[m EXCEPT !.late = TRUE]}]
  /\ Fits(up'[c])
  /\ UNCHANGED <<cl, down, server>>

Due(c) == Running(c) /\ cl[c].state # "RELEASED" /\ cl[c].wait = 0
Aged(msgs) == {[m EXCEPT !.age = @ + 1] : m \in msgs}
Less(n, least) == IF n > least THEN n - 1 ELSE least

\* Clients are on time.  read_leases() finds nothing in a file that is older
\* than FileTime.
Tick ==
  /\ \A c \in Clients : /\ ~Due(c) /\ \A m \in up[c] : m.late
                        /\ \A m \in down[c] : m.age < Delay
  /\ cl' = [c \in Clients |-> [cl[c] EXCEPT !.wait = Less(@, 0)]]
  /\ down' = [c \in Clients |-> Aged(down[c])]
  /\ table' = [s \in 1..MaxLeases |-> [table[s] EXCEPT !.left = Less(@, Past)]]
  /\ IF written < FileTime
     THEN /\ written' = written + 1
          /\ file' = [s \in 1..MaxLeases |-> [file[s] EXCEPT !.left = Less(@, 0)]]
          /\ UNCHANGED <<kept, promise>>
     ELSE /\ written' = written /\ file' = NoLeases /\ kept' = FALSE
          /\ promise' = IF on THEN promise ELSE NoPromises
  /\ UNCHANGED <<up, ack, on, faults>>

-----------------------------------------------------------------------------
Client(c) ==
  \/ Selecting(c) \/ Requesting(c) \/ Renewing(c) \/ Checked(c) \/ Declines(c)
  \/ \E m \in down[c] : Ignores(c, m) \/ GetsOffer(c, m) \/ GetsAck(c, m) \/ GetsNak(c, m)

Next ==
  \/ \E c \in Clients :
       \/ \E m \in up[c] : Discover(c, m) \/ Request(c, m) \/ Decline(c, m) \/ Release(c, m)
       \/ Client(c) \/ Usr1(c) \/ Usr2(c) \/ Term(c) \/ StartsAgain(c)
       \/ Lost(c) \/ Strays(c)
  \/ Grant \/ WriteLeases \/ ServerStops \/ ServerStarts \/ Tick

Spec == Init /\ [][Next]_vars

-----------------------------------------------------------------------------
(* Properties.                                                             *)
Ips == Pool \cup {0} \cup {Static[c] : c \in Clients}
Entries == [mac : Clients \cup {Zero}, ip : Ips, left : Past..(Lease + OfferTime + ConflictTime)]
Messages == [type : {"DISCOVER", "SELECT", "RENEW", "DECLINE", "RELEASE"}, ip : Ips,
             late : BOOLEAN, fresh : BOOLEAN]
Replies == [type : {"OFFER", "ACK", "NAK"}, ip : Ips, age : 0..Delay]
TypeOK ==
  /\ cl \in [Clients -> [state : Bindings \cup Listening \cup {"CHECKING", "RELEASED", "EXITED"},
                         ip : Ips, requested_ip : Ips, packet_num : Nat,
                         timeout : Nat, wait : Nat, n : BOOLEAN]]
  /\ \A c \in Clients : /\ cl[c].state = "INIT_SELECTING" => cl[c].packet_num <= Retries
                        /\ cl[c].state = "REQUESTING" => cl[c].packet_num <= SelectTries
  /\ up \in [Clients -> SUBSET Messages] /\ down \in [Clients -> SUBSET Replies]
  /\ table \in [1..MaxLeases -> Entries] /\ file \in [1..MaxLeases -> Entries]
  /\ ack \in [mac : Clients, ip : Ips] \cup {NoAck}
  /\ written \in 0..FileTime /\ on \in BOOLEAN /\ faults \in 0..MaxFaults
  /\ promise \in [Clients -> Ips] /\ kept \in BOOLEAN

\* add_lease(): no two entries of the table are for one address, nor for one
\* client.
TableUnique ==
  \A r, s \in 1..MaxLeases : r # s /\ table[r].ip # 0 =>
    table[r].ip # table[s].ip /\ (table[r].mac = Zero \/ table[r].mac # table[s].mac)

\* The address that a client has, or is to have when it is checked.
Relied(c) == IF cl[c].state = "CHECKING" THEN cl[c].requested_ip ELSE cl[c].ip

\* The promise that the server makes with an ACK and the client relies on: the
\* server has an entry for its address that has not expired, or is about to
\* make it, or the lease file has one if the server is down, whatever else is
\* lost, delayed, signalled or stopped.  The promise ends when the server
\* handles a DISCOVER, DECLINE or RELEASE of this client, be it an old one, and
\* when it stops, unless the file was written completely after the last ACK and
\* does not become older than FileTime.
HeldIsLeased ==
  \A c \in Clients : Running(c) /\ promise[c] # 0 /\ Relied(c) = promise[c] =>
    \/ ack = [mac |-> c, ip |-> promise[c]]
    \/ \E s \in 1..MaxLeases : LET e == IF on THEN table[s] ELSE file[s]
                               IN e.mac = c /\ e.ip = promise[c] /\ ~Expired(e)
=============================================================================
