--------------------------- MODULE MCBundleStore ----------------------------
(* Small instances of BundleStore: two valid bundles, one of them without  *)
(* a content hash, and one rejected for each check of ParseAndValidate     *)
(* that an otherwise readable file can fail.                               *)
EXTENDS BundleStore

Bundle(version, ttl, hash) ==
    [json |-> TRUE, protocolVersion |-> version, domain |-> "z-acme.local",
     records |-> {[fqdn |-> "api", ttl |-> ttl]}, contentHash |-> hash]

SmallRaws == {Bundle(1, 5, "h1"), Bundle(1, 5, ""), Bundle(2, 5, "h2")}
AllRaws == SmallRaws \cup {Bundle(1, 0, "h3"),
                           [Bundle(1, 5, "h4") EXCEPT !.json = FALSE],
                           [Bundle(1, 5, "h5") EXCEPT !.domain = ""]}
=============================================================================
