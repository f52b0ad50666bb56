---- MODULE MCServices ----
EXTENDS Services
====
