---- MODULE MCTokenCache ----
EXTENDS TokenCache
====
