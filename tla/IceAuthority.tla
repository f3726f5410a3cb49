---------------------------- MODULE IceAuthority ----------------------------
(***************************************************************************)
(* .ICEauthority, the file of cookies in the user's home directory, and    *)
(* what update_iceauthority makes of it.  The file is a sequence of        *)
(* entries; a client takes the first one that fits.                        *)
(***************************************************************************)
EXTENDS Naturals, Sequences, SequencesExt

Protocols == {"ICE", "XSMP"}
Transports == {"local", "unix", "tcp"}

IsLocal(socket) == socket \in {"local", "unix"}

\* setup_listener moves the local sockets to the start of the list.
LocalFirst(sockets) ==
    LET swap(l, i, j) == ReplaceAt(ReplaceAt(l, i, l[j]), j, l[i])
        step(i, r) == IF IsLocal(r.list[i])
                      THEN [list |-> swap(r.list, i, r.local + 1), local |-> r.local + 1]
                      ELSE r
        after[i \in 0..Len(sockets)] ==
            IF i = 0 THEN [list |-> sockets, local |-> 0] ELSE step(i, after[i-1])
    IN  after[Len(sockets)]

\* The network ids of the local sockets, which carry the process id.
NetworkIds(pid, sockets) ==
    LET l == LocalFirst(sockets) IN [i \in 1..l.local |-> <<pid, l.list[i]>>]

Matches(e, protocol, id) == e.protocol = protocol /\ e.id = id

\* 0: no cookie (IceGetAuthFileEntry finds nothing).
Lookup(entries, protocol, id) ==
    LET fits == {i \in DOMAIN entries : Matches(entries[i], protocol, id)}
    IN  IF fits = {} THEN 0 ELSE entries[Min(fits)].cookie

\* What is read, one put in front of the other, without what has one of our
\* network ids.
Others(old, ids) ==
    LET step(i, r) == IF \E j \in 1..Len(ids) : old[i].id = ids[j] THEN r ELSE <<old[i]>> \o r
        read[i \in 0..Len(old)] == IF i = 0 THEN << >> ELSE step(i, read[i-1])
    IN  read[Len(old)]

\* The others, and new ones around them.  The cookies of a server differ from
\* one another, but what counts is whose they are.
update_entries(old, ids, cookie) ==
    LET new(protocol) == [i \in 1..Len(ids) |->
                            [protocol |-> protocol, id |-> ids[i], cookie |-> cookie]]
    IN  Reverse(new("XSMP")) \o Others(old, ids) \o new("ICE")

\* The file is written from its start and not truncated.
Overwrite(old, new) ==
    new \o SubSeq(old, Len(new) + 1, Len(old))
=============================================================================
