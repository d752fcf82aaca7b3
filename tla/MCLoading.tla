----------------------------- MODULE MCLoading -----------------------------
(* Loading for TLC: a dump with the accidents a real one has, a short seed. *)
EXTENDS Loading, TLC

\* Student 1 and the administrator share a number; students 2 and 3 an address.
MCLegacyUsers  == <<[id |-> 1, email |-> "asha"], [id |-> 2, email |-> "ravi"], [id |-> 3, email |-> "ravi"]>>
MCLegacyAdmins == <<[id |-> 1, email |-> "admin"]>>

\* Both categories have a subcategory of the same name.
MCLegacyCats    == <<[id |-> 1, name |-> "hostel"], [id |-> 2, name |-> "exams"]>>
MCLegacySubcats == <<[parent |-> 1, name |-> "other"], [parent |-> 2, name |-> "other"]>>

\* The second and the fourth resemble the first, and so does what is filed live; an appeal
\* against the third resembles that.
MCLegacyComplaints ==
  <<[no |-> 7, user |-> 1, cat |-> 1, sub |-> "other", date |-> 340, status |-> "in process",
     words |-> {<<"food", 0>>, <<"water", 0>>}],
    [no |-> 9, user |-> 3, cat |-> 2, sub |-> "none", date |-> 345, status |-> "in process",
     words |-> {<<"food", 0>>}],
    [no |-> 11, user |-> 1, cat |-> 2, sub |-> "none", date |-> 335, status |-> "rejected",
     words |-> {<<"marks", 0>>}],
    [no |-> 13, user |-> 9, cat |-> 1, sub |-> "other", date |-> 338, status |-> "resolved",
     words |-> {<<"food", 0>>}]>>

MCLegacyRemarks ==
  <<[no |-> 7, date |-> 344, remark |-> "later"], [no |-> 7, date |-> NULL, remark |-> "undated"]>>

\* Five days after a new year: some of these were filed before it.
MCPlan == <<"on_track", "breached", "due_soon", "resolved_closed", "appealed", "rejected">>
MCSeedLeaves ==
  <<[id |-> <<0, "leaf", 1>>, name |-> "room", track |-> "sgrc", sla |-> 4],
    [id |-> <<0, "leaf", 2>>, name |-> "posh", track |-> "icc", sla |-> NULL]>>
MCSeedAccounts == {"demo"}

MCWords == {{<<"water", 0>>}}

Symmetry == Permutations(Importers)

MCInstants == {370, 740}

=============================================================================
