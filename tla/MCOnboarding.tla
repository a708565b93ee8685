---------------------------- MODULE MCOnboarding ----------------------------
\* Onboarding for TLC: what the administrator may save.
EXTENDS Onboarding

CONSTANTS a1, g1, g2, n1

Listing(S) == [g \in Guids |-> IF g \in S THEN n1 ELSE None]
Configuration(version) == [n \in Groups |-> version]
Wants(S) == [temp : {a1}, guid : S]

Entry(S, R, version, ok) ==
  [clients |-> Listing(S), requests |-> Wants(R), groups |-> Configuration(version),
   ok |-> ok]

\* An ordinary file, one with two clients to onboard and a new configuration of
\* the group, and one with a mistake, without the first client.
MCContents ==
  {Entry({g1}, {}, 1, TRUE),
   Entry({g1, g2}, {g1, g2}, 2, TRUE),
   Entry({g2}, {g2}, 1, FALSE)}
=============================================================================
