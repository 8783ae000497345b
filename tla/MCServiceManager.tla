-------------------------- MODULE MCServiceManager --------------------------
EXTENDS ServiceManager
=============================================================================
