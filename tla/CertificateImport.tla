-------------------------- MODULE CertificateImport --------------------------
(***************************************************************************)
(* A certificate: created as a template, and signed here or by SCEP, or    *)
(* imported.  To import it up to two files are uploaded, the certificate   *)
(* and its key are imported from them, the certificate is looked up by its *)
(* name, given its settings, and read.  Each request may fail, before or   *)
(* after the router has executed it, and the handler runs again later.     *)
(* Whatever happens, the uploaded file of the certificate is removed at    *)
(* the end; the router removes the file of a key that it imports.          *)
(***************************************************************************)

VARIABLES
    making,    \* the configuration: how the certificate is made
    device,    \* on the router: the certificate and the files of this creation
    earlier,   \* the files that the creations before have left there, and
               \* (history) those with which a step had failed
    pending,   \* the next step of the handler, or "none"
    removal,   \* the removal of the certificate's file is deferred
    failures,  \* the steps of this creation that have failed
    managed,   \* the state: "nothing", "created" or "tainted"
    succeeded  \* the last creation reported success

certificateVars ==
    <<making, device, earlier, pending, removal, failures, managed, succeeded>>

\* An import has the name of a file of the router or its content; to have both
\* is an error.  "trust" says that settings are configured.
Making ==
    [how : {"template", "sign"}, cert : {"none"}, key : {"none"}, trust : BOOLEAN]
    \cup
    [how : {"import"}, cert : {"file", "content", "both"},
     key : {"none", "file", "content", "both"}, trust : BOOLEAN]

\* An uploaded file, by what it holds, and the steps that can leave it behind.
Files == {"cert", "key"}
StepsWith(f) == IF f = "cert" THEN {"upload-cert", "remove-file"}
                ELSE {"upload-key", "import-cert", "import-key"}

NoCertificate ==
    [there |-> FALSE, signed |-> FALSE, keyed |-> FALSE, trusts |-> FALSE, files |-> {}]

\* A step with the file has failed in this creation.
Failing(f) == failures \cap StepsWith(f) # {}

-----------------------------------------------------------------------------
(* A step succeeds, and the handler goes on to the next one; or it fails,  *)
(* executed or not, and the handler ends with the deferred removal.        *)

AtEnd(deferred) == IF deferred THEN "remove-file" ELSE "none"

Answered(result, next) ==
    /\ device' = result /\ pending' = next
    /\ UNCHANGED <<failures, managed, succeeded>>

Failed(result) ==
    /\ device' \in {device, result}
    /\ failures' = failures \cup {pending} /\ pending' = AtEnd(removal)
    /\ UNCHANGED <<managed, succeeded>>

Asks(step, result, next) ==
    /\ pending = step
    /\ Answered(result, next) \/ Failed(result)
    /\ UNCHANGED <<making, earlier, removal>>

-----------------------------------------------------------------------------
(* certImport.                                                             *)

CheckCert ==
    /\ pending = "check-cert"
    /\ IF making.cert = "both" THEN Failed(device)
       ELSE Answered(device, IF making.cert = "content" THEN "upload-cert" ELSE "check-key")
    /\ UNCHANGED <<making, earlier, removal>>

\* A slip: the removal is set up at the end only.
NotDeferred == FALSE

Deferred == TRUE

\* From here on the file is removed whatever happens.
UploadCert ==
    LET uploaded == [device EXCEPT !.files = @ \cup {"cert"}]
    IN  /\ pending = "upload-cert" /\ UNCHANGED <<making, earlier>>
        /\ \/ Answered(uploaded, "check-key") /\ removal' = Deferred
           \/ Failed(uploaded) /\ UNCHANGED removal

CheckKey ==
    /\ pending = "check-key"
    /\ IF making.key = "both" THEN Failed(device)
       ELSE Answered(device, IF making.key = "content" THEN "upload-key" ELSE "import-cert")
    /\ UNCHANGED <<making, earlier, removal>>

UploadKey ==
    Asks("upload-key", [device EXCEPT !.files = @ \cup {"key"}], "import-cert")

\* To import it once more changes nothing, or is an error.
ImportCert ==
    Asks("import-cert", [device EXCEPT !.there = TRUE, !.signed = TRUE],
         IF making.key = "none" THEN "look-up" ELSE "import-key")

ImportKey ==
    Asks("import-key", [device EXCEPT !.keyed = TRUE, !.files = @ \ {"key"}], "look-up")

\* A slip: the settings wait for the next apply.
NoSettings == "read"

\* certImportSettings: a request is made if it has anything to say.
SettingsStep == IF making.trust THEN "apply-settings" ELSE "read"

\* The id is in the state now: the resource is tainted until the handler ends
\* well.
LookUp ==
    /\ pending = "look-up" /\ UNCHANGED <<making, earlier, removal>>
    /\ \/ /\ device.there /\ device' = device
          /\ pending' = SettingsStep /\ managed' = "tainted"
          /\ UNCHANGED <<failures, succeeded>>
       \/ Failed(device)

ApplySettings == Asks("apply-settings", [device EXCEPT !.trusts = TRUE], "read")

-----------------------------------------------------------------------------
(* resCreate and resDelete.  What is imported is not created first.        *)

\* What an earlier creation has left on the router stays there: a creation
\* gives its own files new names.
CreateCertificate ==
    /\ pending = "none" /\ managed = "nothing"
    /\ pending' = (IF making.how = "import" THEN "check-cert" ELSE "create")
    /\ device' = [device EXCEPT !.files = {}]
    /\ earlier' = [files |-> earlier.files \cup device.files,
                   failed |-> earlier.failed \cup {f \in Files : Failing(f)}]
    /\ failures' = {} /\ succeeded' = FALSE
    /\ UNCHANGED <<making, removal, managed>>

CreateTemplate ==
    LET created == [device EXCEPT !.there = TRUE, !.trusts = making.trust]
    IN  /\ pending = "create" /\ UNCHANGED <<making, earlier, removal>>
        /\ \/ /\ device' = created /\ managed' = "tainted"
              /\ pending' = (IF making.how = "sign" THEN "sign" ELSE "read")
              /\ UNCHANGED <<failures, succeeded>>
           \/ Failed(created)

\* Or added by SCEP.
Sign == Asks("sign", [device EXCEPT !.signed = TRUE, !.keyed = TRUE], "read")

ReadCertificate ==
    /\ pending = "read" /\ UNCHANGED <<making, earlier, removal>>
    /\ \/ /\ pending' = AtEnd(removal) /\ managed' = "created" /\ succeeded' = TRUE
          /\ UNCHANGED <<device, failures>>
       \/ Failed(device)

\* An error is only logged.
RemoveFile ==
    LET removed == [device EXCEPT !.files = @ \ {"cert"}]
    IN  /\ pending = "remove-file" /\ pending' = "none" /\ removal' = FALSE
        /\ \/ device' = removed /\ UNCHANGED failures
           \/ device' \in {device, removed} /\ failures' = failures \cup {pending}
        /\ UNCHANGED <<making, earlier, managed, succeeded>>

\* What is tainted or no longer wanted is removed.  (A certificate of another
\* authority of the router would be revoked instead, and stay.)
DeleteCertificate ==
    LET removed == [NoCertificate EXCEPT !.files = device.files]
    IN  /\ pending = "none" /\ managed # "nothing"
        /\ \/ device.there /\ device' = removed /\ managed' = "nothing"
           \/ device' \in {device, removed} /\ UNCHANGED managed
        /\ succeeded' = FALSE
        /\ UNCHANGED <<making, earlier, pending, removal, failures>>

\* A refresh drops what is gone.
DropCertificate ==
    /\ pending = "none" /\ managed # "nothing" /\ ~device.there
    /\ managed' = "nothing" /\ succeeded' = FALSE
    /\ UNCHANGED <<making, earlier, device, pending, removal, failures>>

CertificateInit ==
    /\ making \in Making
    /\ device = NoCertificate /\ earlier = [files |-> {}, failed |-> {}]
    /\ pending = "none" /\ removal = FALSE
    /\ failures = {} /\ managed = "nothing" /\ succeeded = FALSE

CertificateNext ==
    \/ CheckCert \/ UploadCert \/ CheckKey \/ UploadKey \/ ImportCert \/ ImportKey
    \/ LookUp \/ ApplySettings \/ CreateCertificate \/ CreateTemplate \/ Sign
    \/ ReadCertificate \/ RemoveFile \/ DeleteCertificate \/ DropCertificate

CertificateSpec == CertificateInit /\ [][CertificateNext]_certificateVars

-----------------------------------------------------------------------------
(* Properties.                                                             *)

CertificateTypeOK ==
    /\ making \in Making
    /\ device \in [there : BOOLEAN, signed : BOOLEAN, keyed : BOOLEAN,
                   trusts : BOOLEAN, files : SUBSET Files]
    /\ earlier \in [files : SUBSET Files, failed : SUBSET Files]
    /\ removal \in BOOLEAN /\ succeeded \in BOOLEAN
    /\ managed \in {"nothing", "created", "tainted"}

\* A creation that reports success, the first or one that repeats what had
\* failed half-way, has done all that is configured: the certificate is there
\* and signed, with its key and its settings, and the creation leaves no key
\* in a file of its own.
CertificateIsComplete ==
    succeeded =>
        /\ managed = "created" /\ device.there
        /\ making.how # "template" => device.signed
        /\ making.how = "sign" \/ making.key # "none" => device.keyed
        /\ making.trust => device.trusts
        /\ "key" \notin device.files

\* An uploaded file stays on the router only when a step with it failed in the
\* creation that uploaded it.  For the file of a certificate that is its own
\* upload or removal, whatever else fails; for that of a key, also the imports.
\* Such a file outlives the creations that follow, and their success.
FilesRemoved ==
    pending = "none" =>
        /\ \A f \in device.files : Failing(f)
        /\ earlier.files \subseteq earlier.failed

=============================================================================
