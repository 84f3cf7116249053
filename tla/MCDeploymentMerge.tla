-------------------------- MODULE MCDeploymentMerge --------------------------
EXTENDS DeploymentMerge

CONSTANTS i1, i2, fa, fb

MCImg == {i1, i2}
MCFileKeys == {fa, fb}

=============================================================================
