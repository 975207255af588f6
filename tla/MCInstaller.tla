---------------------------- MODULE MCInstaller ----------------------------
\* An image that ends in a whole receive and one that ends in half of one.
EXTENDS Installer
TwoSizes == <<3, 4>>
=============================================================================
