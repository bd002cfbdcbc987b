---------------------------- MODULE MCDeployment ---------------------------
EXTENDS Deployment
MCFiles == {[host |-> "", port |-> "custom", maxBytes |-> "missing"],
            [host |-> "custom", port |-> "bad", maxBytes |-> "custom"], Garbled}
=============================================================================
