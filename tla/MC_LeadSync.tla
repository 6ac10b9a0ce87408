---------------------------- MODULE MC_LeadSync ----------------------------
(* One lead of the sheet's own and one entered lead, with the daily job, a
   manual sync and two concurrent entries. *)
EXTENDS LeadSync

CONSTANTS k1, u1, first, other, manual, entry1, entry2

MCKeys == {k1}
MCUpstream == {u1}
MCData == {first, other}
MCOneForm == {first}
MCSyncers == {manual}
MCEntries == {entry1, entry2}
MCOneEntry == {entry1}
MCNone == {}
=============================================================================
