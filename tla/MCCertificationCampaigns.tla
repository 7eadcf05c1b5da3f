---------------------- MODULE MCCertificationCampaigns ----------------------
(* Campaign c2's name differs from c1's in case only; c3 repeats c1's and   *)
(* names no existing reviewer.                                             *)
EXTENDS CertificationCampaigns

MCSpelling == [c \in Campaigns |-> IF c = "c2" THEN "q3" ELSE "Q3"]
MCLower    == [n \in {"q3", "Q3"} |-> "q3"]
=============================================================================
