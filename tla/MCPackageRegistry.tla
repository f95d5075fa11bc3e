------------------------- MODULE MCPackageRegistry -------------------------
(* Packages for PackageRegistry: an app that depends on two libraries with
   paths, and on bundled ones that need each other.  One of the libraries has
   no profiles. *)
EXTENDS PackageRegistry

Packages == {"app", "lib", "text", "raylib", "solixlib"}

MCPathDependencies ==
  [p \in Packages |-> IF p = "app" THEN <<"lib", "text">> ELSE <<>>]

MCNamedDependencies ==
  [p \in Packages |-> CASE p = "app" -> <<"raylib", "solixlib">>
                        [] p \in {"lib", "text", "raylib"} -> <<"solixlib">>
                        [] OTHER -> <<>>]
=============================================================================
