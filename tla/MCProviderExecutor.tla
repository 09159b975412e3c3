---- MODULE MCProviderExecutor ----
EXTENDS ProviderExecutor
====
