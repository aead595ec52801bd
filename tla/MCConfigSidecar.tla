-------------------------- MODULE MCConfigSidecar --------------------------
EXTENDS ConfigSidecar

MCKey == {"kafka", "zookeeper"}
=============================================================================
