----------------------------- MODULE MCInstaller -----------------------------
(***************************************************************************)
(* Containers for TLC.  "base" has an unordered table, gaps, a ticket and  *)
(* trailing padding; "patch" is an NSZ whose meta and first NCA are        *)
(* compressed, and which has a delta fragment;                             *)
(* "base2" is a newer version of base; "dlc" a third meta of the           *)
(* application, and "shared" a version of base that brings an unchanged    *)
(* NCA of it.  The others are containers the installer must refuse, and    *)
(* ones whose tables nothing checks: entries that overlap, an entry whose  *)
(* end wraps around, a content that is there twice, two Meta NCAs.         *)
(***************************************************************************)
EXTENDS Installer

App(v) == [app |-> "A", type |-> "app", version |-> v]
Patch  == [app |-> "A", type |-> "patch", version |-> 1]
Dlc    == [app |-> "A", type |-> "aoc", version |-> 1]

Z(kind, id, off, size, prelude, declared, out) ==
  [kind |-> kind, id |-> id, off |-> off, size |-> size, end |-> off + size,
   prelude |-> prelude, declared |-> declared, out |-> out]
X(kind, id, off, size) == Z(kind, id, off, size, 0, 0, 0)
Cnmt(ids) == {[id |-> i, delta |-> FALSE] : i \in ids}

C(t, hdr, len, cnmt, table) ==
  [title |-> t, hdr |-> hdr, len |-> len, cnmt |-> cnmt, table |-> table,
   bad |-> "no", ticketOk |-> TRUE, cnmtOk |-> TRUE]

Base == C(App(1), 2, 9, Cnmt({"a1"}),
          << X("Nca", "a1", 5, 2), X("MetaNca", "a0", 2, 1), X("Ignore", NoId, 3, 1),
             X("Cert", NoId, 7, 1), X("Ticket", NoId, 4, 1) >>)

MCContainer ==
  [base  |-> Base,
   base2 |-> C(App(2), 1, 4, Cnmt({"b1"}),
               << X("MetaNca", "b0", 1, 1), X("Nca", "b1", 2, 2) >>),
   patch |-> C(Patch, 2, 8, Cnmt({"p1"}) \cup {[id |-> "p2", delta |-> TRUE]},
               << Z("MetaNcz", "p0", 2, 2, 1, 3, 3), Z("Ncz", "p1", 4, 3, 2, 2, 2),
                  X("Nca", "p2", 7, 1) >>),
   dlc   |-> C(Dlc, 1, 3, {}, << X("MetaNca", "d0", 1, 2) >>)]

\* Containers to refuse, by what is wrong with them.
Nsp(cnmt, table) == C([app |-> "B", type |-> "app", version |-> 1], 2, 6, cnmt, table)
M0 == X("MetaNca", "e0", 2, 1)
MCRefused ==
  [noMagic  |-> [Nsp({}, <<M0>>) EXCEPT !.bad = "magic"],
   noNames  |-> [Nsp({}, <<M0>>) EXCEPT !.bad = "names"],
   bigHead  |-> [Nsp({}, <<M0>>) EXCEPT !.hdr = 4, !.table = <<X("MetaNca", "e0", 4, 1)>>],
   noMeta   |-> Nsp({}, <<X("Nca", "e1", 2, 2)>>),
   tooMany  |-> Nsp({}, <<M0, X("Nca", "e1", 3, 0), X("Nca", "e2", 3, 1), X("Cert", NoId, 4, 1),
                          X("Ticket", NoId, 5, 1)>>),
   badCnmt  |-> [Nsp({}, <<M0>>) EXCEPT !.cnmtOk = FALSE, !.len = 3],
   missing  |-> Nsp(Cnmt({"e1", "e2"}), <<M0, X("Nca", "e1", 3, 2)>>),
   longCnmt |-> [Nsp(Cnmt({"e1", "e2", "e3", "e4"}), <<M0>>) EXCEPT !.len = 3],
   oddTik   |-> [Nsp({}, <<M0, X("Ticket", NoId, 3, 1), X("Cert", NoId, 4, 1)>>)
                   EXCEPT !.ticketOk = FALSE],
   loneTik  |-> Nsp({}, <<M0, X("Ticket", NoId, 3, 1)>>),
   bigTik   |-> Nsp({}, <<M0, X("Ticket", NoId, 3, 2), X("Cert", NoId, 5, 1)>>),
   bigCert  |-> Nsp({}, <<M0, X("Cert", NoId, 3, 3)>>),
   shortNcz |-> Nsp({}, <<M0, Z("Ncz", "e1", 3, 2, 1, 3, 2)>>),
   longNcz  |-> Nsp({}, <<M0, Z("Ncz", "e1", 3, 2, 1, 1, 2)>>),
   emptyEnd |-> Nsp({}, <<M0, X("Cert", NoId, 6, 0)>>)]

\* Tables that build_entries() takes as they are.  In "overlap" e2 lies inside
\* e1, so that entry_end - stream_pos wraps, and the decoder of e3 is fed from
\* the middle; "wrapped" has an entry of nearly 2^64 bytes; "twice" has one
\* content and the Meta NCA two times.
MCUnchecked ==
  [overlap |-> [Nsp(Cnmt({"e1", "e2"}),
                    <<M0, X("Nca", "e1", 3, 2), X("Nca", "e2", 3, 1),
                      Z("Ncz", "e3", 4, 3, 1, 2, 2)>>) EXCEPT !.len = 8],
   wrapped |-> Nsp({}, <<M0, [X("Nca", "e1", 3, 3) EXCEPT !.end = 1]>>),
   twice   |-> Nsp(Cnmt({"e1"}), <<M0, X("Nca", "e1", 3, 1), X("Nca", "e1", 4, 1),
                                   X("MetaNca", "e3", 5, 1)>>)]

\* An update that carries an NCA of the version before unchanged.
MCShared == [shared |-> C(App(2), 1, 4, Cnmt({"a1"}),
                          << X("MetaNca", "b0", 1, 1), X("Nca", "a1", 2, 2) >>)]

MCAll == MCContainer @@ MCRefused @@ MCUnchecked @@ MCShared
MCAllFiles == DOMAIN MCAll
MCUpdates  == MCContainer @@ MCShared
MCIds == {"a0", "a1", "b0", "b1", "p0", "p1", "p2", "d0", "e0", "e1", "e2", "e3", "e4"}
=============================================================================
