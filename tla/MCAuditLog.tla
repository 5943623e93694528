----------------------------- MODULE MCAuditLog -----------------------------
(* One publication, one work, one person and a reviewer, and a log that is *)
(* shorter than what the longest cascades record.                          *)
EXTENDS AuditLog, TLC

CONSTANTS p1, w1, x1, r1, music, i1

MCPublications == {p1}
MCWorks == {w1}
MCPeople == {x1}
MCReviewers == {r1}
MCKinds == {music}
MCValues == {0, 1}
MCValued == Entities
MCItems == {i1}
=============================================================================
