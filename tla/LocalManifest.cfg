SPECIFICATION FairSpec
PROPERTY LocalManifestDeployed
CHECK_DEADLOCK FALSE
