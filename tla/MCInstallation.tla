---------------------------- MODULE MCInstallation ----------------------------
\* Two versions, so that one is active while the other is installed or selected,
\* and two bindings, so that one can be refused.
EXTENDS Installation

MCVersions == {"0.1.0", "0.2.0"}
MCBindings == {"workstation", "laptop"}
===============================================================================
