----------------------------- MODULE KnownHosts -----------------------------
(* The certificates pinned on first use: hxtls-trust's `decide`, run by the   *)
(* worker of every control connection, transfer and tracker that meets a      *)
(* certificate WebPKI does not vouch for, and the known_hosts file all of     *)
(* them read and replace without a lock.  A check classifies what it was      *)
(* shown (`lookup`), consults the host's other ports, asks the user, and pins *)
(* in three file operations, between any two of which another check may move, *)
(* the client may be killed or the machine may lose power.                    *)
(*                                                                            *)
(* The order of the file's lines decides nothing and its comments carry no    *)
(* trust, so the file is the set of its entries.  An entry is what the parser *)
(* makes of its line, which is not always what the writer meant: `pin` joins  *)
(* host and port by a colon without brackets, and a field with more colons    *)
(* than one is read as a host, for every port.  The test seams of ffi.rs      *)
(* (automatic acceptance, scripted answers, another path) are unset.          *)
EXTENDS Naturals, FiniteSets

CONSTANTS
    Checks,      \* workers that may be verifying at one time
    TlsHosts,    \* hosts, as eq_ignore_ascii_case tells them apart
    Literals,    \* those of them that hold colons: IPv6 addresses
    TlsPorts,    \* ports, never 0
    ReadAs,      \* <<address, port>> -> the host that "address:port" reads as
    Prints,      \* certificate fingerprints
    Presented,   \* what servers present: a host, a port and a fingerprint
    MaxUnsynced, \* bound on the files a loss of power may leave
    FirstFiles   \* the files, each a set of entries, that a behaviour may start from

AnyPort == 0     \* the port of an entry that names a host alone

ASSUME PortsAssumption == AnyPort \notin TlsPorts

MisreadNames == {ReadAs[a] : a \in Literals \X TlsPorts}

\* A joined name may be another address someone connects to, never a name
\* without colons.
ASSUME LiteralsAssumption ==
    Literals \subseteq TlsHosts /\ MisreadNames \cap TlsHosts \subseteq Literals

PinHosts == TlsHosts \cup MisreadNames

PinEntry == [host : PinHosts, port : TlsPorts \cup {AnyPort}, print : Prints]
Shown == [host : TlsHosts, port : TlsPorts, print : Prints]

ASSUME PresentedAssumption == Presented \subseteq Shown

File == [entries : SUBSET PinEntry, torn : BOOLEAN]

\* host_port_match: an entry without a port stands for every port of its host.
Matches(e, host, port) == e.host = host /\ e.port \in {AnyPort, port}

\* No two entries speak of the same host and port.
Unambiguous(S) ==
    \A e, f \in S : e.host = f.host /\ (e.port = f.port \/ AnyPort \in {e.port, f.port})
                    => e = f

\* The entries that are no misread pin of an address.
WellRead(S) == {e \in S : e.host \notin MisreadNames}

ASSUME FirstFilesAssumption ==
    FirstFiles \subseteq SUBSET PinEntry /\ \A S \in FirstFiles : Unambiguous(WellRead(S))

VARIABLES
    known,       \* the known_hosts file as a reader finds it
    survivors,   \* what a loss of power may leave in its place
    checks,      \* check -> what it is about, and how far `decide` has come
    approved     \* <<host, print>> pairs the user has trusted: in the first
                 \* file, written by their hand, or in answer to the prompt

hostsVars == <<known, survivors, checks, approved>>

Whole(S) == [entries |-> S, torn |-> FALSE]
Torn == [entries |-> {}, torn |-> TRUE]

Stages == {"off", "unknown", "asking", "pinning", "built", "written", "accepted", "refused"}

NoCheck == [stage |-> "off"]
Check ==
    {NoCheck} \cup
    [stage : Stages \ {"off", "built", "written"}, shown : Shown] \cup
    [stage : {"built", "written"}, shown : Shown, out : SUBSET PinEntry, synced : BOOLEAN]

\* lookup: an exact match anywhere wins, any other match is a mismatch.
Lookup(entries, s) ==
    LET found == {e \in entries : Matches(e, s.host, s.port)}
    IN CASE \E e \in found : e.print = s.print -> "Trusted"
         [] found # {} /\ \A e \in found : e.print # s.print -> "Mismatch"
         [] OTHER -> "Unknown"

HostHasFingerprint(entries, s) ==
    \E e \in entries : e.host = s.host /\ e.print = s.print

\* pin's format! of the line and parse_host_field's reading of it: an address
\* comes back with its port as part of the host.
ReadBack(s) ==
    IF s.host \in Literals
    THEN [host |-> ReadAs[<<s.host, s.port>>], port |-> AnyPort, print |-> s.print]
    ELSE s

\* Mutated form: only the entry of the very same port is replaced.
PinnedSamePort(entries, s) ==
    {e \in entries : ~(e.host = s.host /\ e.port = s.port)} \cup {ReadBack(s)}

\* pin: drop what the new entry replaces, keep the rest, append the entry.
Pinned(entries, s) ==
    {e \in entries : ~Matches(e, s.host, s.port)} \cup {ReadBack(s)}

---------------------------------------------------------------------------
HostsInit ==
    /\ \E S \in FirstFiles : known = Whole(S)
    /\ survivors = {known}
    /\ checks = [c \in Checks |-> NoCheck]
    /\ approved = {<<e.host, e.print>> : e \in known.entries}

\* What a read of the file gives: its entries, or none when it cannot be read.
Readings == {known.entries, {}}

Resting(c) == checks[c].stage \in {"off", "accepted", "refused"}

MoveTo(c, stage) ==
    checks' = [checks EXCEPT ![c] = [stage |-> stage, shown |-> checks[c].shown]]

AfterLookup == [Trusted |-> "accepted", Unknown |-> "unknown", Mismatch |-> "asking"]

\* decide, first read of the file.
Verify(c, s) ==
    /\ Resting(c)
    /\ \E entries \in Readings :
           checks' = [checks EXCEPT ![c] =
               [stage |-> AfterLookup[Lookup(entries, s)], shown |-> s]]
    /\ UNCHANGED <<known, survivors, approved>>

\* decide, second read, for a host and port not seen before: the host's own
\* certificate on another port is pinned without a question.
ConsultHost(c) ==
    /\ checks[c].stage = "unknown"
    /\ \E entries \in Readings :
           MoveTo(c, IF HostHasFingerprint(entries, checks[c].shown)
                     THEN "pinning" ELSE "asking")
    /\ UNCHANGED <<known, survivors, approved>>

\* The user's answer to the prompt, for which the worker waits.
Trust(c) ==
    /\ checks[c].stage = "asking"
    /\ MoveTo(c, "pinning")
    /\ approved' = approved \cup {<<checks[c].shown.host, checks[c].shown.print>>}
    /\ UNCHANGED <<known, survivors>>

Distrust(c) ==
    /\ checks[c].stage = "asking"
    /\ MoveTo(c, "refused")
    /\ UNCHANGED <<known, survivors, approved>>

\* pin, third read: the new contents are built from what the file is now.
BuildPin(c) ==
    /\ checks[c].stage = "pinning"
    /\ \E entries \in Readings :
           checks' = [checks EXCEPT ![c] =
               [stage |-> "built", shown |-> checks[c].shown,
                out |-> Pinned(entries, checks[c].shown), synced |-> FALSE]]
    /\ UNCHANGED <<known, survivors, approved>>

\* write_atomic: a temporary of its own, written and synced.
WriteTemp(c) ==
    /\ checks[c].stage = "built"
    /\ checks' = [checks EXCEPT ![c].stage = "written", ![c].synced = TRUE]
    /\ UNCHANGED <<known, survivors, approved>>

\* write_atomic: the rename that publishes it.  Nothing syncs the directory,
\* so either file may be found after a loss of power, and a torn one if the
\* contents had not reached the disk.
PublishPin(c) ==
    /\ checks[c].stage = "written"
    /\ Cardinality(survivors) < MaxUnsynced
    /\ known' = Whole(checks[c].out)
    /\ survivors' = survivors \cup {known'} \cup (IF checks[c].synced THEN {} ELSE {Torn})
    /\ MoveTo(c, "accepted")
    /\ UNCHANGED approved

\* pin_now: a pin that fails (the temporary is removed) is only reported, and
\* the certificate stays accepted.
PinFails(c) ==
    /\ checks[c].stage \in {"built", "written"}
    /\ MoveTo(c, "accepted")
    /\ UNCHANGED <<known, survivors, approved>>

\* External: the system writes its directories back in its own time.
WriteBack ==
    /\ survivors # {known}
    /\ survivors' = {known}
    /\ UNCHANGED <<known, checks, approved>>

\* External: the client is killed; temporaries are left under their own names.
Killed ==
    /\ checks' = [c \in Checks |-> NoCheck]
    /\ UNCHANGED <<known, survivors, approved>>

\* External: the machine loses power.
PowerLoss ==
    /\ known' \in survivors
    /\ survivors' = {known'}
    /\ checks' = [c \in Checks |-> NoCheck]
    /\ UNCHANGED approved

HostsNext ==
    \/ \E c \in Checks :
           \/ \E s \in Presented : Verify(c, s)
           \/ ConsultHost(c) \/ Trust(c) \/ Distrust(c)
           \/ BuildPin(c) \/ WriteTemp(c) \/ PublishPin(c) \/ PinFails(c)
    \/ WriteBack \/ Killed \/ PowerLoss

HostsSpec == HostsInit /\ [][HostsNext]_hostsVars

---------------------------------------------------------------------------
(* Properties. *)

\* The variables hold values of their types.
HostsTypeOK ==
    /\ known \in File
    /\ survivors \subseteq File
    /\ checks \in [Checks -> Check]
    /\ approved \subseteq PinHosts \X Prints

\* The addresses in A, and those that pins of them read as, and so on.
Reached(A) ==
    {l \in Literals : \A S \in SUBSET Literals :
         /\ A \cap Literals \subseteq S
         /\ \A k \in S, p \in TlsPorts : ReadAs[<<k, p>>] \in Literals => ReadAs[<<k, p>>] \in S
         => l \in S}

\* That a certificate may stand for a host: the user trusted it for that very
\* host, or the host is what the pin of an address it may stand for reads as.
Stands(host, print, approvals) ==
    LET A == {h \in PinHosts : <<h, print>> \in approvals}
    IN host \in A \/ host \in {ReadAs[<<l, p>>] : l \in Reached(A), p \in TlsPorts}

\* Whatever the checks of other connections, kills and losses of power did to
\* the file meanwhile, a certificate `decide` accepts is one the user trusted
\* for that very host, and so is every entry the file can hold; but for the
\* addresses that end in another's address and port, which the pin of that
\* other speaks of.
AcceptedIsApproved ==
    /\ \A c \in Checks : checks[c].stage = "accepted" =>
           Stands(checks[c].shown.host, checks[c].shown.print, approved)
    /\ \A f \in survivors \cup {known} : \A e \in f.entries :
           Stands(e.host, e.print, approved)

\* A fingerprint the user replaced is gone: no two entries of the file speak
\* of one host and port, so `lookup`, which takes the first exact match, never
\* accepts both the old certificate and the new one.  The misread pins of
\* addresses, which nothing replaces, are left out.
OnePinEach == \A f \in survivors \cup {known} : Unambiguous(WellRead(f.entries))

\* write_atomic never leaves half a file, even to a loss of power.
KnownHostsWhole == ~known.torn

\* Trust is the user's: through workers that overwrite each other's file, kills
\* and losses of power, nothing is accepted that was not approved, a replaced
\* certificate is not accepted again, and the file is never half written.
TrustIsEarned == AcceptedIsApproved /\ OnePinEach /\ KnownHostsWhole
=============================================================================
