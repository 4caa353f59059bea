-------------------------- MODULE MCJobModeration --------------------------
(* Values of the constants of JobModeration for TLC.                       *)
EXTENDS JobModeration, TLC

CONSTANTS c1, c2, u1, j1, j2, j3, s1, s2, s3, r1, r2, r3, p1, p2, t1, t2

\* p1 has a far deadline, p2 one in the coming week.
MCDeadline == [p \in Payloads |-> IF p = p1 THEN 30 ELSE 3]
MCDueSoon == Payloads \ {p1}

\* Every user bookmarked the seeded job and follows one of its labels.
MCBookmarkers == [j \in Jobs |-> IF j \in SeedJobs THEN Users ELSE {}]
MCTagAudience == [j \in Jobs |-> IF j \in SeedJobs THEN Users ELSE {}]

JobEndpoints == {"createJob", "updateJob", "updateJobStatus", "closeMyJob",
                 "refreshJobCheckedAt"}
ReviewEndpoints == {"createJobSubmission", "createJobEditSubmission",
                    "updateMyJobSubmission", "cancelMyJobSubmission",
                    "approveJobSubmission", "rejectJobSubmission",
                    "closeMyJob", "updateJob"}

Symmetry == UNION {Permutations(S) : S \in {Requests, Companies, Times,
                                            SeedSubmissions,
                                            Submissions \ SeedSubmissions,
                                            Jobs \ SeedJobs}}
=============================================================================
