--------------------------------- MODULE DNS ---------------------------------
(***************************************************************************)
(* internal/dns: the zone that refreshZone builds from the records of the  *)
(* projects, and the message handleQuery returns.  A message keeps what    *)
(* depends on query and zone; constants of the format are left out.  A     *)
(* name is a sequence of labels, and Lower folds it; an address is IPv4 or *)
(* something net.ParseIP(..).To4() refuses.                                *)
(***************************************************************************)
EXTENDS Integers, Sequences, SequencesExt

CONSTANTS
  Lower(_),   \* strings.ToLower on names
  IsIPv4(_)   \* net.ParseIP(ip).To4() # nil

TypeA == 1

\* The records of one list, added to the zone in order.
AddRecords(zone, rs) ==
  FoldLeft(LAMBDA z, r :
             LET n == Lower(r.name)
                 before == IF n \in DOMAIN z THEN z[n] ELSE <<>>
             IN [k \in DOMAIN z \cup {n} |-> IF k = n THEN Append(before, r.ip) ELSE z[k]],
           zone, rs)

\* Mutant of RefreshZone: a later project's list replaces the entry.
RefreshZoneReplaces(projects, listDNS) ==
  FoldLeft(LAMBDA z, p : LET own == AddRecords(<< >>, listDNS[p])
                         IN [k \in DOMAIN z \cup DOMAIN own |->
                               IF k \in DOMAIN own THEN own[k] ELSE z[k]],
           << >>, projects)

\* refreshZone: listDNS[p] is what ListDNS returned for project p, empty when
\* it failed, because the error is dropped.
RefreshZone(projects, listDNS) ==
  FoldLeft(LAMBDA z, p : AddRecords(z, listDNS[p]), << >>, projects)

-----------------------------------------------------------------------------
(* Names on the wire: a buffer of cells, a cell being [label], [end] or     *)
(* [ptr] to any cell, its own and later ones included.                      *)

WriteName(name) ==
  LET labels == SelectSeq(name, LAMBDA l : l # "")
  IN [i \in DOMAIN labels |-> [kind |-> "label", val |-> labels[i]]] \o <<[kind |-> "end", val |-> 0]>>

Bad == <<"bad">>
Endless == <<"endless">>

\* readName at cell off: the labels, Bad when it runs out of the buffer, or
\* Endless when it comes back to a cell it has been at, which it does after as
\* many cells as there are.  A pointer to an empty name adds an empty label.
ReadName(buf, off) ==
  LET read[left \in 0..Len(buf), at \in 1..(Len(buf) + 1)] ==
        IF at > Len(buf) THEN Bad
        ELSE IF left = 0 THEN Endless
        ELSE IF buf[at].kind = "end" THEN <<>>
        ELSE LET rest == read[left - 1, IF buf[at].kind = "ptr" THEN buf[at].val ELSE at + 1]
             IN IF rest \in {Bad, Endless} THEN rest
                ELSE IF buf[at].kind = "label" THEN <<buf[at].val>> \o rest
                ELSE IF rest = <<>> THEN <<"">>
                ELSE rest
  IN read[Len(buf), off]

-----------------------------------------------------------------------------
\* What handleQuery ends in: an error, the death of the process (the recursion of
\* readName fills the stack, which no recover stops), or a message.
Error == [kind |-> "error"]
Dies == [kind |-> "dies"]

\* The header is the query's own with flags and ANCOUNT set; the counts follow it
\* once more as four words.  The write of RCODE 3 to hdr comes after the header
\* was copied into the message, so rcode is 0 in any case.
Message(q, name, answers) ==
  [kind |-> "message", id |-> q.id, rcode |-> 0, ancount |-> Len(answers), again |-> <<1, 0, 0, 0>>,
   question |-> WriteName(name), type |-> q.type, answers |-> answers]

\* A record has its length written in any case, its address only if it is IPv4.
Answer(name, ip) == [name |-> WriteName(name), data |-> IF IsIPv4(ip) THEN <<ip>> ELSE <<>>]

\* handleQuery of a query that is whole; one that is cut off is an error too.
HandleQuery(zone, q) ==
  LET name == ReadName(q.wire, 1)
      n    == Lower(name)
  IN IF name = Bad THEN Error
     ELSE IF name = Endless THEN Dies
     ELSE IF n \notin DOMAIN zone \/ q.type # TypeA THEN Message(q, name, <<>>)
     ELSE Message(q, name, [i \in DOMAIN zone[n] |-> Answer(name, zone[n][i])])
=============================================================================
