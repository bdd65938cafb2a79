--------------------------- MODULE MCManifestPlan ------------------------------
\* An instance of ManifestPlan for TLC.
EXTENDS ManifestPlan

\* The names in their order: activelink.png, index.html, a picture, sitemap.html,
\* style.css.
MCNames == 1..5
MCTexts == {{}, {3}, {3, 5}}
================================================================================
