----------------------------- MODULE LinuxDist -----------------------------
(***************************************************************************)
(* Is the distribution on the whitelist?  The detectors of                 *)
(* src/src/linuxdb.cc, one after the other, on the release files of a      *)
(* machine, and what PxeKexec::checkEnv() makes of their answer.           *)
(*                                                                         *)
(* A release file is what its detector reads out of it: the lines that     *)
(* count, as records.  A line with the key Blank is an empty line of       *)
(* lsb-release, whose key the code looks for behind the end of a vector.   *)
(***************************************************************************)
EXTENDS RpmVerCmp

CONSTANTS
    Versions,  \* version strings
    Garbage,   \* what freed memory may hold when it is read as a version
    NoFile     \* a release file that is not there

\* Distributions that are made of another one and have its release file.
DebianDerivatives == {"Knoppix"}
ArchDerivatives   == {"Chakra"}

\* What is installed, and the names the release files have for it.
Distributions == {"Ubuntu", "openSUSE", "Debian", "Fedora", "CentOS",
                  "Red Hat Enterprise Linux Server", "ARCH Linux",
                  "SUSE LINUX", "Red Hat Linux", "Gentoo"}
                     \union DebianDerivatives \union ArchDerivatives

\* usual: has the release file of the distribution the usual form?
Installed == [name : Distributions, version : Versions, usual : BOOLEAN]

\* What /etc/lsb-release is good for: not there, complete, without the name of
\* the distribution (only LSB_VERSION), complete with an empty line.
LsbKinds == {"none", "full", "versionOnly", "blank"}

VARIABLES
    installed,  \* the distribution and its version
    lsb,        \* the lines of /etc/lsb-release
    detectDistOnly,  \* m_detectDistOnly; never changes
    shared,     \* do copies of a std::string share their characters?
    pc,         \* the detector that is next, or what checkEnv() does
    type,       \* m_type, m_distribution and m_release of the detector
    dist,
    release

vars == <<installed, lsb, detectDistOnly, shared, pc, type, dist, release>>

\* The first line of a SuSE-release file without a number.
Title == "title"

\* The lines of /etc/lsb-release.
LsbFile(kind, name, version) ==
    CASE kind = "none"        -> NoFile
      [] kind = "full"        -> <<[key |-> "DISTRIB_ID", value |-> name],
                                   [key |-> "DISTRIB_RELEASE", value |-> version]>>
      [] kind = "versionOnly" -> <<[key |-> "LSB_VERSION", value |-> version]>>
      [] OTHER                -> <<[key |-> "DISTRIB_ID", value |-> name],
                                   [key |-> "Blank", value |-> version],
                                   [key |-> "DISTRIB_RELEASE", value |-> version]>>

ASSUME LinuxDistAssumption ==
    /\ Versions \subseteq Seq(Nat) /\ Garbage \subseteq Seq(Nat)
    /\ \A kind \in LsbKinds \ {"none"} : \A name \in Distributions :
           \A version \in Versions : LsbFile(kind, name, version) # NoFile

\* The distributions that have each of the other files; Ubuntu is a Debian.
DebianVersionFile == {"Debian", "Ubuntu"} \union DebianDerivatives
SuseReleaseFile   == {"openSUSE", "SUSE LINUX"}
RedHatReleaseFile == {"Fedora", "CentOS", "Red Hat Enterprise Linux Server",
                      "Red Hat Linux"}
ArchReleaseFile   == {"ARCH Linux"} \union ArchDerivatives

\* Ubuntu never comes without a complete /etc/lsb-release.
Init ==
    /\ installed \in Installed
    /\ \E kind \in LsbKinds :
           /\ installed.name = "Ubuntu" => kind \in {"full", "blank"}
           /\ lsb = LsbFile(kind, installed.name, installed.version)
    /\ detectDistOnly \in BOOLEAN /\ shared \in BOOLEAN
    /\ pc = "LSB" /\ type = "unknown" /\ dist = "" /\ release = <<>>

-----------------------------------------------------------------------------
(* getDetector(): each detector answers, or the next one is tried          *)

\* setType(), setDistribution() and setRelease() of the detector.
Set(t, d, r) == type' = t /\ dist' = d /\ release' = r

Answers(t, d, r) ==
    /\ pc' = "checkEnv" /\ Set(t, d, r)
    /\ UNCHANGED <<installed, lsb, detectDistOnly, shared>>

Passes(next) ==
    /\ pc' = next
    /\ UNCHANGED <<installed, lsb, detectDistOnly, shared, type, dist, release>>

\* The value of the last line with that key.
ValueOf(file, key, default) ==
    LET lines == {i \in DOMAIN file : file[i].key = key}
    IN IF lines = {} THEN default ELSE file[Max(lines)].value

\* A file that is there is an answer, whatever it says.
LsbDetects ==
    /\ pc = "LSB" /\ lsb # NoFile
    /\ LET name == ValueOf(lsb, "DISTRIB_ID", "") IN
       Answers(IF name = "Ubuntu" THEN "ubuntu" ELSE "unknown",
               name, ValueOf(lsb, "DISTRIB_RELEASE", <<>>))

\* keyval[0] of an empty line: what lies there is no string, or one that is
\* none of the keys (then LsbDetects).
LsbCrashes ==
    /\ pc = "LSB" /\ lsb # NoFile
    /\ \E i \in DOMAIN lsb : lsb[i].key = "Blank"
    /\ Passes("crashed")

LsbPasses == pc = "LSB" /\ lsb = NoFile /\ Passes("Debian")

DebianVersion == installed.name \in DebianVersionFile /\ installed.usual

DebianDetects ==
    pc = "Debian" /\ DebianVersion /\ Answers("debian", "Debian", installed.version)

\* There is no file, or it is empty.
DebianPasses == pc = "Debian" /\ ~DebianVersion /\ Passes("SUSE")

\* A first line without a number is the name as a whole; without a line
\* "VERSION = " there is no release.
SuseDetects ==
    /\ pc = "SUSE" /\ installed.name \in SuseReleaseFile
    /\ IF installed.usual
       THEN Answers("suse", installed.name, installed.version)
       ELSE Answers("suse", Title, <<>>)

SusePasses ==
    pc = "SUSE" /\ installed.name \notin SuseReleaseFile /\ Passes("RedHat")

\* The release stands between the word "release" and the bracket.
RedHatRelease == installed.name \in RedHatReleaseFile /\ installed.usual

RedHatDetects ==
    /\ pc = "RedHat" /\ RedHatRelease
    /\ Answers("redhat", installed.name, installed.version)

\* There is no file, or its line has no "release", no brackets, or has them in
\* another order.
RedHatPasses == pc = "RedHat" /\ ~RedHatRelease /\ Passes("Arch")

ArchDetects ==
    /\ pc = "Arch" /\ installed.name \in ArchReleaseFile
    /\ Answers("arch", "ARCH Linux", <<>>)

\* NULL: nobody knows.
ArchPasses ==
    /\ pc = "Arch" /\ installed.name \notin ArchReleaseFile
    /\ Passes(IF detectDistOnly THEN "printed" ELSE "refused")

-----------------------------------------------------------------------------
(* checkEnv()                                                              *)

V11   == <<49, 49>>
V11_0 == <<49, 49, 46, 48>>
V9_04 == <<57, 46, 48, 52>>
V5_3  == <<53, 46, 51>>
V5_0  == <<53, 46, 48>>

RedHatEnterprise == {"Red Hat Enterprise Linux Server"}

\* Mutated form: newer than the first version with kexec, not that one itself.
OnWhitelistNewer(t, d, version) ==
    \/ d = "Ubuntu"   /\ RpmVerCmp(version, V9_04) > 0
    \/ d = "openSUSE" /\ RpmVerCmp(version, V11_0) > 0
    \/ d = "Debian"   /\ RpmVerCmp(version, V5_0)  > 0
    \/ d = "Fedora"   /\ RpmVerCmp(version, V11)   > 0
    \/ d \in {"CentOS"} \union RedHatEnterprise /\ RpmVerCmp(version, V5_3) > 0
    \/ t = "arch"

\* Mutated form: the type of the distribution decides for Red Hat.
OnWhitelistByType(t, d, version) ==
    \/ d = "Ubuntu"   /\ RpmVerCmp(version, V9_04) >= 0
    \/ d = "openSUSE" /\ RpmVerCmp(version, V11_0) >= 0
    \/ d = "Debian"   /\ RpmVerCmp(version, V5_0)  >= 0
    \/ t = "redhat"   /\ RpmVerCmp(version, V5_3)  >= 0
    \/ t = "arch"

OnWhitelist(t, d, version) ==
    \/ d = "Ubuntu"   /\ RpmVerCmp(version, V9_04) >= 0
    \/ d = "openSUSE" /\ RpmVerCmp(version, V11_0) >= 0
    \/ d = "Debian"   /\ RpmVerCmp(version, V5_0)  >= 0
    \/ d = "Fedora"   /\ RpmVerCmp(version, V11)   >= 0
    \/ d \in {"CentOS"} \union RedHatEnterprise /\ RpmVerCmp(version, V5_3) >= 0
    \/ t = "arch"

\* getType(), getDistribution() and getRelease() return copies.
Detected == [type |-> type, distribution |-> dist, release |-> release]

\* detected_version points into a copy of m_release that is destroyed before
\* it is compared: with shared characters m_release keeps them alive.
DetectedVersions == {Detected.release} \union (IF shared THEN {} ELSE Garbage)

CheckWhitelist ==
    /\ pc = "checkEnv" /\ ~detectDistOnly
    /\ \E version \in DetectedVersions :
           pc' = IF OnWhitelist(Detected.type, Detected.distribution, version)
                 THEN "suitable" ELSE "refused"
    /\ UNCHANGED <<installed, lsb, detectDistOnly, shared, type, dist, release>>

\* printLinuxDistribution() says what was detected, and that is all.
PrintLinuxDistribution ==
    pc = "checkEnv" /\ detectDistOnly /\ Passes("printed")

Ended == {"suitable", "refused", "crashed", "printed"}

Checked == pc \in Ended /\ UNCHANGED vars

Next == \/ LsbDetects \/ LsbCrashes \/ LsbPasses
        \/ DebianDetects \/ DebianPasses \/ SuseDetects \/ SusePasses
        \/ RedHatDetects \/ RedHatPasses \/ ArchDetects \/ ArchPasses
        \/ CheckWhitelist \/ PrintLinuxDistribution \/ Checked

Spec == Init /\ [][Next]_vars

-----------------------------------------------------------------------------
(* Properties                                                              *)

\* rpmvercmp() orders the installed version and every other one as versions
\* are ordered (rpmvercmp.c): whatever their separators, zeros and lengths.
VersionOrderIsRight ==
    pc = "checkEnv" /\ dist = "Debian" =>
        \A version \in Versions :
            RpmVerCmp(release, version) = VersionOrder(release, version)

\* The whitelist of the manual page (pxe-kexec.pod:45-69), which leaves out
\* Debian; NEWS:20 has it.
FirstVersion ==
    [name \in {"Ubuntu", "openSUSE", "Debian", "Fedora", "CentOS"}
                  \union RedHatEnterprise |->
        CASE name = "Ubuntu"   -> V9_04
          [] name = "openSUSE" -> V11_0
          [] name = "Debian"   -> V5_0
          [] name = "Fedora"   -> V11
          [] OTHER             -> V5_3]

\* Is that distribution on it, in the version that is installed?
ListedAs(name) ==
    \/ name = "ARCH Linux"
    \/ /\ name \in DOMAIN FirstVersion
       /\ VersionOrder(installed.version, FirstVersion[name]) >= 0

Listed == ListedAs(installed.name)

\* Without /etc/lsb-release a derivative looks like what it is made of.
LooksLike ==
    CASE lsb = NoFile /\ installed.name \in DebianDerivatives -> "Debian"
      [] lsb = NoFile /\ installed.name \in ArchDerivatives -> "ARCH Linux"
      [] OTHER -> installed.name

\* A machine passes only if what it looks like is on the whitelist, in the
\* version it has, whatever form its release files have.  Where the version is
\* read from freed memory (~shared), it may be any version of a distribution on
\* the whitelist (getDetector(), checkEnv()).
OnlyListedPass ==
    pc = "suitable" =>
        /\ LooksLike \in DOMAIN FirstVersion \union {"ARCH Linux"}
        /\ shared => ListedAs(LooksLike)

\* A machine on the whitelist is refused for one of these reasons alone: the
\* version is read from freed memory; /etc/lsb-release is there and does not
\* name the distribution; it is not there and the distribution's own release
\* file has an unusual form.  ARCH Linux is refused for having an
\* /etc/lsb-release, and for nothing else (getDetector(), checkEnv()).
ListedPass ==
    pc = "refused" /\ Listed =>
        IF installed.name = "ARCH Linux" THEN lsb # NoFile
        ELSE \/ ~shared
             \/ lsb # NoFile /\ ValueOf(lsb, "DISTRIB_ID", "") = ""
             \/ lsb = NoFile /\ ~installed.usual
=============================================================================
