---------------------------- MODULE RegistryEntry ----------------------------
(***************************************************************************)
(* scripts/validate_registry_metadata.py and validate_registry_publication *)
(* .py: what server.json must say before a release and what the registry   *)
(* must answer before and after a publication.  The constants every        *)
(* document has to repeat (schema, name, repository, transport) are one    *)
(* flag, "ours".                                                           *)
(***************************************************************************)
EXTENDS Integers, Sequences, FiniteSets, Functions

\* The container's arguments: each once is expected to have its own value, but
\* of several with one name only the last is compared.
Hardening == {"read-only", "tmpfs", "cap-drop", "security-opt", "publish"}

ValidArguments(arguments) ==
  /\ {arguments[i].name : i \in DOMAIN arguments} = Hardening
  /\ \A i \in DOMAIN arguments :
       (\A j \in DOMAIN arguments : j > i => arguments[j].name # arguments[i].name) =>
         arguments[i].named /\ arguments[i].expected

\* The environment: two variables are required, three have a fixed default or
\* choice, and those of one provider say so and are optional.
Required    == {"RESOURCE_SERVER_URL", "AUTH_PROVIDER"}
Pinned      == {"AUTH_PROVIDER", "REQUIRED_SCOPES", "TRANSPORT_ALLOWED_HOSTS"}
Conditional == {"ENTRA_TENANT_ID", "ENTRA_AUDIENCE", "ENTRA_APPLICATION_ID_URI",
                "GENERIC_ISSUER_URL", "GENERIC_AUDIENCE"}

ValidEnvironment(variables) ==
  LET has(name, Good(_)) == \E i \in DOMAIN variables :
                              variables[i].name = name /\ Good(variables[i])
  IN /\ IsInjective([i \in DOMAIN variables |-> variables[i].name])
     /\ \A name \in Required : has(name, LAMBDA v : v.required)
     /\ \A name \in Pinned : has(name, LAMBDA v : v.pinned)
     /\ \A name \in Conditional : has(name, LAMBDA v : v.documented /\ ~v.required)

\* The rest of the repository: the installer's pins, the image's label and the
\* checks the workflows contain, in the order that keeps an image that is not
\* ours or not approved away from the registry.
First(steps, step) ==
  CHOOSE i \in DOMAIN steps : steps[i] = step /\ \A j \in 1 .. i - 1 : steps[j] # step

ValidRepository(files) ==
  LET order == <<"ownership", "policy", "login", "push">>
  IN /\ files.installer /\ files.quality /\ files.dockerfile
     /\ \A i \in DOMAIN order : \E j \in DOMAIN files.release : files.release[j] = order[i]
     /\ \A i \in 1 .. 3 : First(files.release, order[i]) < First(files.release, order[i + 1])

\* The one OCI package: its image tag, and no field OCI packages may not have.
ValidPackage(package, version) ==
  /\ package.oci /\ package.plain
  /\ package.image = version

\* _validate_server
ValidServer(server, version) ==
  /\ server.ours
  /\ server.version = version
  /\ Len(server.packages) = 1
  /\ ValidPackage(server.packages[1], version)
  /\ ~server.remotes

\* validate_registry_metadata.validate: server.json against the project's
\* version, which must be semantic, and the release's tag.
ValidMetadata(server, files, projectVersion, tag) ==
  /\ ValidServer(server, projectVersion)
  /\ server.described
  /\ ValidArguments(server.packages[1].arguments)
  /\ ValidEnvironment(server.packages[1].variables)
  /\ ValidRepository(files)
  /\ tag = projectVersion

\* _validate_meta; latest is what the caller expects: "true" or "any".
ValidMeta(meta, latest) ==
  /\ meta.status = "active"
  /\ latest = "any" \/ meta.isLatest

\* validate_payload for the kinds "exact" and "latest": one entry.
ValidEntry(entry, version, latest) ==
  ValidServer(entry.server, version) /\ ValidMeta(entry.meta, latest)

\* validate_payload for "discovery": all entries, of which one is the version.
ValidDiscovery(entries, version) ==
  LET matches == {e \in entries : e.server.ours /\ e.server.version = version}
  IN Cardinality(matches) = 1 /\ \A e \in matches : ValidEntry(e, version, "true")
=============================================================================
